------------------------------- MODULE MCAVL -------------------------------
(* Small trees: seven nodes, each always inserted under its own key, and one  *)
(* that is inserted under any, so that keys are taken and a node changes its  *)
(* key.  Deep trees: the least one in which one remove makes the walk rotate  *)
(* at two levels is built from the top down, and then loses and regains up to *)
(* two nodes.                                                                 *)
EXTENDS AVL

VARIABLE built    \* in a deep tree, how many nodes of BuildOrder have been inserted

\* A tree of height 5 in which every left side is the higher one.
BuildOrder == <<8, 5, 11, 3, 7, 10, 12, 2, 4, 6, 9, 1>>

Small == -1

MCKeys == 1..12
MCKeysOf == [n \in MCKeys |-> IF n = 8 THEN 1..8 ELSE {n}]

InsertUnder(n, keys) == NodeInsert(n) /\ key'[n] \in keys

ChangeSmall ==
    /\ built = Small
    /\ \/ \E n \in 1..8 : InsertUnder(n, 1..7) \/ NodeRemove(n)
       \/ Deinitialize
    /\ UNCHANGED built

Build ==
    /\ built \in 0..11
    /\ InsertUnder(BuildOrder[built + 1], {BuildOrder[built + 1]})
    /\ built' = built + 1

ChangeDeep ==
    /\ built = 12
    /\ \/ \E n \in Node : InsertUnder(n, {n})
       \/ Cardinality(linked) > 10 /\ \E n \in Node : NodeRemove(n)
    /\ UNCHANGED built

GrownNext == ChangeSmall \/ Build \/ ChangeDeep \/ (Rebalance /\ UNCHANGED built)

GrownInit == Init /\ built \in {Small, 0}

GrownSpec ==
    /\ GrownInit
    /\ [][GrownNext]_<<vars, built>>
    /\ WF_<<vars, built>>(Rebalance /\ UNCHANGED built)

\* What a node holds that is not in the tree is never read: an insert clears
\* it first.  States that differ in nothing else are one.
InUse ==
    <<built, tree.root, linked, node, isDelete, answer,
      [n \in linked |-> <<tree.child[n], tree.parent[n], tree.height[n], key[n]>>]>>
=============================================================================
