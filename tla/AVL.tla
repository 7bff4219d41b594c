-------------------------------- MODULE AVL --------------------------------
(***************************************************************************)
(* The AVL tree of avl.c.  The nodes are the caller's; each has links to   *)
(* its children and its parent and the height of the tree under it.        *)
(*                                                                         *)
(* An insert or a remove links or unlinks its node in one step and then    *)
(* walks up to the root, one node a step, rotating where the heights of    *)
(* two children differ by two.  What the code has once for the left and    *)
(* once for the right is here for a side s.                                *)
(***************************************************************************)
EXTENDS Integers, SequencesExt

CONSTANTS Node,      \* the caller's nodes
          Key,       \* numbers, in the order of tree->compare
          KeysOf,    \* KeysOf[n]: the keys under which the caller inserts n
          NULL

ASSUME NodeAssumption == IsFiniteSet(Node) /\ NULL \notin Node
ASSUME KeyAssumption == Key \subseteq Nat /\ KeysOf \in [Node -> SUBSET Key]

VARIABLES tree,      \* tree->root and the links and heights of the nodes
          key,
          linked,    \* the nodes the caller has in the tree
          node,      \* where cuAvlTreeNodeRebalance is, NULL when no call runs
          isDelete,
          answer     \* what the last call returned

vars == <<tree, key, linked, node, isDelete, answer>>

Link == Node \union {NULL}
Side == {"left", "right"}
Opposite(s) == IF s = "left" THEN "right" ELSE "left"
NoChild == [s \in Side |-> NULL]

Init ==
    /\ tree = [root |-> NULL, child |-> [n \in Node |-> NoChild],
               parent |-> [n \in Node |-> NULL], height |-> [n \in Node |-> 0]]
    /\ key = [n \in Node |-> 0]
    /\ linked = {}
    /\ node = NULL /\ isDelete = FALSE /\ answer = NULL

-----------------------------------------------------------------------------
(* Links and heights of a tree t.                                           *)

GetHeight(t, n) == IF n = NULL THEN 0 ELSE t.height[n]

\* How much higher n is on side s: the code's balance, or its negative.
Lean(t, n, s) ==
    GetHeight(t, t.child[n][s]) - GetHeight(t, t.child[n][Opposite(s)])

RecalculateHeight(t, n) ==
    LET l == GetHeight(t, t.child[n]["left"])
        r == GetHeight(t, t.child[n]["right"])
    IN  [t EXCEPT !.height[n] = 1 + (IF l > r THEN l ELSE r)]

\* The side of its parent on which a node is.
SideOf(t, n) == IF t.child[t.parent[n]]["left"] = n THEN "left" ELSE "right"

SetChild(t, n, s, c) == [t EXCEPT !.child[n][s] = c]
SetParent(t, n, p) == IF n = NULL THEN t ELSE [t EXCEPT !.parent[n] = p]

\* *link = m, with the link that leads to n.
SetLink(t, n, m) ==
    IF t.parent[n] = NULL THEN [t EXCEPT !.root = m]
    ELSE SetChild(t, t.parent[n], SideOf(t, n), m)

\* A mutant of Rotate: the inner grandchild is not told its new parent.
RotateOrphaning(t, n, s) ==
    LET c == t.child[n][Opposite(s)]
        out == SetParent(SetLink(t, n, c), c, t.parent[n])
        down == SetChild(out, n, Opposite(s), t.child[c][s])
        up == SetParent(SetChild(down, c, s, n), n, c)
    IN  RecalculateHeight(RecalculateHeight(up, n), c)

\* cuAvlTreeNodeRotateLeft and -Right: n goes down to side s of its other child.
Rotate(t, n, s) ==
    LET c == t.child[n][Opposite(s)]
        inner == t.child[c][s]
        out == SetParent(SetLink(t, n, c), c, t.parent[n])
        down == SetParent(SetChild(out, n, Opposite(s), inner), inner, n)
        up == SetParent(SetChild(down, c, s, n), n, c)
    IN  RecalculateHeight(RecalculateHeight(up, n), c)

\* The nodes from n on, each followed by the one step leads to, up to the first that
\* it leads to no node from: one for each round of a loop.
Path(step, n) ==
    LET path[i \in 0..Cardinality(Node)] ==
            [m \in Link |-> IF i = 0 \/ m = NULL THEN <<>> ELSE <<m>> \o path[i - 1][step[m]]]
    IN  path[Cardinality(Node)][n]

\* The end of the path from n along side s.
Outermost(t, n, s) == Last(Path([m \in Node |-> t.child[m][s]], n))

-----------------------------------------------------------------------------
(* The searches.                                                            *)

\* The nodes a search for k goes through: down to the one with the key.
Way(k) ==
    Path([n \in Node |-> IF k = key[n] THEN NULL
                         ELSE tree.child[n][IF k < key[n] THEN "left" ELSE "right"]],
         tree.root)

\* The last node on the way whose key is in a set, the code's "best".
LastOnWay(k, keys) ==
    LET way == Way(k)
        on == {i \in DOMAIN way : key[way[i]] \in keys}
    IN  IF on = {} THEN NULL ELSE way[Max(on)]

NodeFind(k) == LastOnWay(k, {k})
NodeFindGEQ(k) == LastOnWay(k, {j \in Key : k <= j})

\* A mutant of NodeFindLEQ: a node with the very key is not counted.
NodeFindLess(k) == LastOnWay(k, {j \in Key : j < k})

NodeFindLEQ(k) == LastOnWay(k, {j \in Key : j <= k})

\* A node, its parent, and so on up to the root.
Climb(n) == Path(tree.parent, n)

\* A mutant of Neighbour: without a child on the side the parent is taken.
ChildOrParent(n, s) ==
    IF tree.child[n][s] # NULL THEN Outermost(tree, tree.child[n][s], Opposite(s))
    ELSE tree.parent[n]

\* cuAvlTreeNodeInOrderPredecessor (s = "left") and -Successor (s = "right").
Neighbour(n, s) ==
    IF tree.child[n][s] # NULL THEN Outermost(tree, tree.child[n][s], Opposite(s))
    ELSE LET up == Climb(n)
             turned == {i \in DOMAIN up : up[i] # tree.root /\ SideOf(tree, up[i]) # s}
         IN  IF turned = {} THEN NULL ELSE tree.parent[up[Min(turned)]]

-----------------------------------------------------------------------------
(* cuAvlTreeNodeInsertOrReturnExisting.                                     *)

\* The node as the insert prepares it.
Cleared(t, n) ==
    [t EXCEPT !.child[n] = NoChild, !.parent[n] = NULL, !.height[n] = 1]

BeginInsert(n, k) ==
    /\ node = NULL /\ n \notin linked /\ k \in KeysOf[n]
    /\ key' = [key EXCEPT ![n] = k]

\* A mutant of InsertExisting: the caller gets its own node back.
InsertReturning(n, k) ==
    /\ BeginInsert(n, k) /\ NodeFind(k) # NULL
    /\ tree' = Cleared(tree, n)
    /\ answer' = n
    /\ UNCHANGED <<linked, node, isDelete>>

\* The key is there: its node is returned, and n stays out.
InsertExisting(n, k) ==
    /\ BeginInsert(n, k) /\ NodeFind(k) # NULL
    /\ tree' = Cleared(tree, n)
    /\ answer' = NodeFind(k)
    /\ UNCHANGED <<linked, node, isDelete>>

\* The node is hung in where the search ended, and the walk begins above it.
InsertNew(n, k) ==
    LET parent == LastOnWay(k, Key)
        clear == Cleared(tree, n)
    IN  /\ BeginInsert(n, k) /\ NodeFind(k) = NULL
        /\ tree' = IF parent = NULL THEN [clear EXCEPT !.root = n]
                   ELSE SetParent(SetChild(clear, parent,
                                           IF k < key[parent] THEN "left" ELSE "right", n),
                                  n, parent)
        /\ linked' = linked \union {n}
        /\ node' = parent /\ isDelete' = FALSE
        /\ answer' = NULL

-----------------------------------------------------------------------------
(* cuAvlTreeNodeRemove.                                                     *)

\* The node is out of the tree t, its own links are zeroed, and the walk begins
\* at "rebalance".
Removed(n, t, rebalance) ==
    /\ node = NULL /\ n \in linked
    /\ tree' = [t EXCEPT !.child[n] = NoChild, !.parent[n] = NULL]
    /\ linked' = linked \ {n}
    /\ node' = rebalance /\ isDelete' = TRUE
    /\ answer' = NULL
    /\ UNCHANGED key

RemoveLeaf(n) ==
    /\ n \in linked /\ tree.child[n] = NoChild
    /\ Removed(n, SetLink(tree, n, NULL), tree.parent[n])

\* The only child takes the place of the node.
RemoveWithChild(n, s) ==
    LET c == tree.child[n][s]
    IN  /\ n \in linked /\ c # NULL /\ tree.child[n][Opposite(s)] = NULL
        /\ Removed(n, SetParent(SetLink(tree, n, c), c, tree.parent[n]), c)

\* A mutant of AboveSuccessor: without the case of a successor that is a child
\* of the node itself.
ParentOf(n, successor) == tree.parent[successor]

\* Where the walk begins after a successor has taken the place of n.
AboveSuccessor(n, successor) ==
    IF tree.parent[successor] # n THEN tree.parent[successor] ELSE successor

\* The next node in order is taken out and put in the place of the node.
RemoveWithBoth(n) ==
    LET successor == Outermost(tree, tree.child[n]["right"], "left")
        below == tree.child[successor]["right"]
        out == SetParent(SetLink(tree, successor, below), below, tree.parent[successor])
        up == SetParent(SetLink(out, n, successor), successor, tree.parent[n])
        left == SetParent(SetChild(up, successor, "left", up.child[n]["left"]),
                          up.child[n]["left"], successor)
        right == SetParent(SetChild(left, successor, "right", left.child[n]["right"]),
                           left.child[n]["right"], successor)
    IN  /\ n \in linked /\ \A s \in Side : tree.child[n][s] # NULL
        /\ Removed(n, right, AboveSuccessor(n, successor))

\* cuAvlTreeDeinitialize; the tree is initialised again.
Deinitialize ==
    /\ node = NULL
    /\ tree' = [tree EXCEPT !.root = NULL]
    /\ linked' = {} /\ answer' = NULL
    /\ UNCHANGED <<key, node, isDelete>>

-----------------------------------------------------------------------------
(* cuAvlTreeNodeRebalance: one iteration of its loop.                       *)

\* A mutant of GoUp: the walk does not leave the node.
GoAgain(t, top) == tree' = RecalculateHeight(t, top) /\ node' = top

\* From the top of what was rotated, the node itself if nothing was.
GoUp(t, top) == tree' = RecalculateHeight(t, top) /\ node' = t.parent[top]

\* A mutant of OnceOn: a child that leans to neither side is left.
OnceIfLeaning(s) == Lean(tree, node, s) = 2 /\ Lean(tree, tree.child[node][s], s) = 1

\* Side s is too high: one rotation, or two when the child leans the other way.
OnceOn(s) ==
    /\ Lean(tree, node, s) = 2
    /\ \/ Lean(tree, tree.child[node][s], s) = 1
       \/ Lean(tree, tree.child[node][s], s) = 0 /\ isDelete

TwiceOn(s) ==
    /\ Lean(tree, node, s) = 2
    /\ Lean(tree, tree.child[node][s], s) = -1

\* A mutant of RotateOnce: the walk ends with the rotation.
RotateAndEnd ==
    /\ node # NULL
    /\ \E s \in Side : OnceOn(s) /\ tree' = Rotate(tree, node, Opposite(s))
    /\ node' = NULL
    /\ UNCHANGED <<key, linked, isDelete, answer>>

RotateOnce ==
    /\ node # NULL
    /\ \E s \in Side :
          /\ OnceOn(s)
          /\ \E t \in {Rotate(tree, node, Opposite(s))} : GoUp(t, tree.child[node][s])
    /\ UNCHANGED <<key, linked, isDelete, answer>>

RotateTwice ==
    /\ node # NULL
    /\ \E s \in Side :
          LET c == tree.child[node][s]
          IN  /\ TwiceOn(s)
              /\ \E t \in {Rotate(tree, c, s)} : \E u \in {Rotate(t, node, Opposite(s))} :
                    GoUp(u, tree.child[c][Opposite(s)])
    /\ UNCHANGED <<key, linked, isDelete, answer>>

KeepShape ==
    /\ node # NULL
    /\ \A s \in Side : ~OnceOn(s) /\ ~TwiceOn(s)
    /\ GoUp(tree, node)
    /\ UNCHANGED <<key, linked, isDelete, answer>>

Rebalance == RotateOnce \/ RotateTwice \/ KeepShape

NodeInsert(n) == \E k \in Key : InsertExisting(n, k) \/ InsertNew(n, k)

NodeRemove(n) ==
    \/ RemoveLeaf(n)
    \/ \E s \in Side : RemoveWithChild(n, s)
    \/ RemoveWithBoth(n)

Next ==
    \/ \E n \in Node : NodeInsert(n) \/ NodeRemove(n)
    \/ Rebalance
    \/ Deinitialize

Spec == Init /\ [][Next]_vars

\* A call that has begun goes on: the code is sequential, and cuAvlTreeNodeRebalance
\* waits for nothing.
FairSpec == Spec /\ WF_vars(Rebalance)

-----------------------------------------------------------------------------
(* Properties.                                                              *)

\* The walk is at a node of the tree.
TypeOK ==
    /\ tree \in [root : Link, child : [Node -> [Side -> Link]],
                 parent : [Node -> Link], height : [Node -> 0..Cardinality(Node)]]
    /\ key \in [Node -> Key \union {0}]
    /\ linked \subseteq Node
    /\ node \in linked \union {NULL}
    /\ isDelete \in BOOLEAN /\ answer \in Link

\* In every state, in the middle of a walk too, parents and children agree, and
\* the nodes under the root are those the caller has put in and not taken out:
\* no relinking loses a subtree, hangs it in twice or makes a circle, and no
\* node that was removed is still linked to.
LinksAgree ==
    /\ tree.root # NULL => tree.root \in linked /\ tree.parent[tree.root] = NULL
    /\ \A n \in linked :
          /\ tree.child[n] = NoChild \/ tree.child[n]["left"] # tree.child[n]["right"]
          /\ \A s \in Side : tree.child[n][s] # NULL =>
                tree.child[n][s] \in linked /\ tree.parent[tree.child[n][s]] = n
          /\ n # tree.root => /\ tree.parent[n] \in linked
                              /\ n \in Range(tree.child[tree.parent[n]])
    /\ \A n \in linked : Last(Climb(n)) = tree.root

\* The nodes the walk has still to visit.
StillToVisit == ToSet(Climb(node))

HeightIsRight(n) == tree.height[n] = RecalculateHeight(tree, n).height[n]

\* Where the walk has been and where it does not come, heights are right and
\* nodes balanced, and the node it is at leans by two at most; a height above it
\* may be wrong, a successor's that has moved up even by more than one.  When
\* the call is over that is all of cuAvlTreeAssertValid that LinksAgree does not
\* say: one pass from where the links were changed is enough for it.
Balanced ==
    /\ node # NULL => Lean(tree, node, "left") \in -2..2
    /\ LET open == StillToVisit
       IN  \A n \in linked \ open : HeightIsRight(n) /\ Lean(tree, n, "left") \in -1..1

\* Every insert and remove returns: no sequence of rotations keeps the walk among
\* the same nodes.
EveryWalkEnds == node # NULL ~> node = NULL

\* The map the tree stands for: what a search finds, in the middle of a walk too.
Dict == [k \in Key |-> NodeFind(k)]

Map == INSTANCE NodeMap WITH dict <- Dict

\* The tree is a map: a node goes in or out at one step, no rotation loses
\* another, and one whose key is taken stays out and is not linked.
ImplementsNodeMap == Map!Spec

\* The linked node of the least or greatest key in a set, NULL if there is none.
WithKeyIn(keys) == {n \in linked : key[n] \in keys}
NodeOfLeast(keys) ==
    LET ns == WithKeyIn(keys)
    IN  IF ns = {} THEN NULL ELSE CHOOSE n \in ns : \A m \in ns : key[n] <= key[m]
NodeOfGreatest(keys) ==
    LET ns == WithKeyIn(keys)
    IN  IF ns = {} THEN NULL ELSE CHOOSE n \in ns : \A m \in ns : key[m] <= key[n]

\* The ordered searches find the nearest key on their side, for every key asked.
SearchesExact ==
    node = NULL => \A k \in Key :
        /\ NodeFindGEQ(k) = NodeOfLeast({j \in Key : k <= j})
        /\ NodeFindLEQ(k) = NodeOfGreatest({j \in Key : j <= k})

\* Going from node to node by their links visits the keys in order.
NeighboursExact ==
    node = NULL => \A n \in linked :
        /\ Neighbour(n, "left") = NodeOfGreatest({j \in Key : j < key[n]})
        /\ Neighbour(n, "right") = NodeOfLeast({j \in Key : key[n] < j})
=============================================================================
