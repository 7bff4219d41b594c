------------------------------ MODULE CURadix ------------------------------
(***************************************************************************)
(* The CUDA radix tree of radix.c: a binary trie over the bits of the key, *)
(* whose nodes are the caller's, sit at any level of their path and are    *)
(* kept in heap order, a parent's key below its children's.  The nodes     *)
(* with one key form a ring, of which only the first, the primary, is      *)
(* linked into the trie.                                                   *)
(*                                                                         *)
(* Insert walks down and may swap the node in hand with the one it meets;  *)
(* remove swaps a node down until it is a leaf.  Both are modelled one     *)
(* iteration (one recursive call) per step.                                *)
(***************************************************************************)
EXTENDS Integers, Sequences, FiniteSets

CONSTANTS Node,       \* the caller's nodes
          KeyBits,    \* tree->key_bits
          NULL

ASSUME NodeAssumption ==
    /\ IsFiniteSet(Node)
    /\ NULL \notin Node /\ NULL \notin (Node \union {NULL}) \X {0, 1}
ASSUME KeyBitsAssumption ==
    /\ KeyBits \in Nat \ {0}
    /\ 2 ^ 0 = 1
    /\ \A b \in 0..KeyBits : 2 ^ b \in Nat \ {0} /\ 2 ^ (b + 1) = 2 * 2 ^ b

VARIABLES root, child, parent, selfPtr,    \* the trie's links
          next, prev,                      \* the rings
          key,
          linked,     \* the nodes the caller has in the tree
          pc,
          new,        \* the node an insert was called with
          node,       \* the node in hand
          slot,       \* the pointer the insert has come to, the code's
                      \* parent_to_self_ptr
          bit         \* cur_key_bit

treeVars == <<root, child, parent, selfPtr, next, prev, key>>
callVars == <<pc, new, node, slot, bit>>
vars == <<treeVars, linked, callVars>>

Key == 0..(2 ^ KeyBits - 1)
Side == {0, 1}

\* A pointer to a pointer: &tree->root, or &n->child[i] as <<n, i>>.
RootSlot == <<NULL, 0>>
SlotSet == {RootSlot} \union (Node \X Side)
At(s) == IF s = RootSlot THEN root ELSE child[s[1]][s[2]]

IsBitSet(k, b) == (k \div (2 ^ b)) % 2

NoChild == [i \in Side |-> NULL]

Idle == pc = "idle" /\ new = NULL /\ node = NULL /\ slot = RootSlot /\ bit = 0

\* radixTreeInit.  The nodes are the caller's memory, here zeroed.
Init ==
    /\ root = NULL
    /\ child = [n \in Node |-> NoChild]
    /\ parent = [n \in Node |-> NULL]
    /\ selfPtr = [n \in Node |-> NULL]
    /\ next = [n \in Node |-> NULL] /\ prev = [n \in Node |-> NULL]
    /\ key = [n \in Node |-> 0]
    /\ linked = {}
    /\ Idle

Finish == pc' = "idle" /\ new' = NULL /\ node' = NULL /\ slot' = RootSlot /\ bit' = 0

-----------------------------------------------------------------------------
\* *s = n, where the nodes' other children are "children".
SetSlot(s, n, children) ==
    /\ root' = IF s = RootSlot THEN n ELSE root
    /\ child' = [m \in Node |-> [i \in Side |-> IF <<m, i>> = s THEN n ELSE children[m][i]]]

\* Whether, and on which side, the children c of a node have m.
ChildOf(c, m) == \E i \in Side : c[i] = m
SideOf(c, m) == IF c[0] = m THEN 0 ELSE 1

\* radixTreeReplaceNode asserts that repl has no links.
Unlinked(n) == child[n] = NoChild /\ parent[n] = NULL /\ selfPtr[n] = NULL

\* A mutant of LinksAfter: an insert leaves the displaced node its children.
LinksKept(resetLinks, links) == links

\* The children of a replaced node after its caller has reset it, or not.
LinksAfter(resetLinks, links) == IF resetLinks THEN NoChild ELSE links

\* radixTreeReplaceNode: repl takes the place of orig, whose children learn
\* their new parent.  The callers then set orig's own fields to NULL: the
\* insert all of them (resetLinks), the remove the selfPtr alone.
ReplaceNode(orig, repl, resetLinks) ==
    LET kids == child[orig]
    IN  /\ SetSlot(selfPtr[orig], repl,
                   [child EXCEPT ![repl] = kids,
                                 ![orig] = LinksAfter(resetLinks, @)])
        /\ parent' = [m \in Node |->
               IF m = repl THEN parent[orig]
               ELSE IF m = orig THEN (IF resetLinks THEN NULL ELSE parent[m])
               ELSE IF ChildOf(kids, m) THEN repl ELSE parent[m]]
        /\ selfPtr' = [m \in Node |->
               IF m = repl THEN selfPtr[orig]
               ELSE IF m = orig THEN NULL
               ELSE IF ChildOf(kids, m) THEN <<repl, SideOf(kids, m)>> ELSE selfPtr[m]]

\* radixTreeSwapParentWithChild: c takes the place of its parent p and has p as
\* its child, on the side where it was.
SwapParentWithChild(p, c) ==
    LET side == SideOf(child[p], c)
        other == child[p][1 - side]
        kids == child[c]
    IN  /\ SetSlot(selfPtr[p], c,
                   [child EXCEPT ![c] = [i \in Side |-> IF i = side THEN p ELSE other],
                                 ![p] = kids])
        /\ parent' = [m \in Node |->
               IF m = p THEN c
               ELSE IF m = c THEN parent[p]
               ELSE IF m = other THEN c
               ELSE IF ChildOf(kids, m) THEN p ELSE parent[m]]
        /\ selfPtr' = [m \in Node |->
               IF m = p THEN <<c, side>>
               ELSE IF m = c THEN selfPtr[p]
               ELSE IF m = other THEN <<c, 1 - side>>
               ELSE IF ChildOf(kids, m) THEN <<p, SideOf(kids, m)>> ELSE selfPtr[m]]

\* A mutant of JoinRing: the node becomes the first after the head.
JoinRingSecond(n, head) ==
    /\ prev' = [prev EXCEPT ![next[head]] = n, ![n] = head]
    /\ next' = [next EXCEPT ![n] = next[head], ![head] = n]

\* radixListInsert: the ring's last node is the one before its head.
JoinRing(n, head) ==
    /\ next' = [next EXCEPT ![prev[head]] = n, ![n] = head]
    /\ prev' = [prev EXCEPT ![n] = prev[head], ![head] = n]

\* A mutant of LeaveRing: the next node keeps its way back.
LeaveForward(n) ==
    /\ next' = [next EXCEPT ![prev[n]] = next[n]]
    /\ UNCHANGED prev

\* radixListRemove.
LeaveRing(n) ==
    /\ prev' = [prev EXCEPT ![next[n]] = prev[n]]
    /\ next' = [next EXCEPT ![prev[n]] = next[n]]

-----------------------------------------------------------------------------
(* radixTreeInsert.                                                         *)

\* The node given to insert is not in the tree; whatever it holds is cleared.
BeginInsert(n, k) ==
    /\ pc = "idle" /\ n \notin linked
    /\ child' = [child EXCEPT ![n] = NoChild]
    /\ parent' = [parent EXCEPT ![n] = NULL]
    /\ selfPtr' = [selfPtr EXCEPT ![n] = NULL]
    /\ next' = [next EXCEPT ![n] = n] /\ prev' = [prev EXCEPT ![n] = n]
    /\ key' = [key EXCEPT ![n] = k]
    /\ pc' = "insert" /\ new' = n /\ node' = n /\ slot' = RootSlot /\ bit' = KeyBits
    /\ linked' = linked \union {n}
    /\ UNCHANGED root

\* A mutant of GoDown: the bits are counted upwards.
GoUp(from, taken) ==
    /\ bit' = bit + 1
    /\ slot' = <<from, IsBitSet(key[taken], bit + 1)>>

\* The walk goes on below a node, to the side of the next bit of a key.
GoDown(from, taken) ==
    /\ bit' = bit - 1
    /\ slot' = <<from, IsBitSet(key[taken], bit - 1)>>

\* The loop of the insert goes on while it meets a node with another key.
Meets(cur) == pc = "insert" /\ At(slot) = cur /\ cur # NULL /\ key[cur] # key[new]

\* It passes a node with a smaller key than the one in hand ...
InsertPass(cur) ==
    /\ Meets(cur) /\ key[node] >= key[cur]
    /\ GoDown(cur, node)
    /\ UNCHANGED <<treeVars, linked, pc, new, node>>

\* ... and swaps places with a larger one, which it then carries on.
InsertSwap(cur) ==
    /\ Meets(cur) /\ key[node] < key[cur]
    /\ ReplaceNode(cur, node, TRUE)
    /\ GoDown(node, cur)
    /\ node' = cur
    /\ UNCHANGED <<next, prev, key, linked, pc, new>>

\* It ends at a node with the key, whose ring the node joins as the last, ...
InsertDuplicate(head) ==
    /\ pc = "insert" /\ At(slot) = head /\ head # NULL /\ key[head] = key[new]
    /\ JoinRing(node, head)
    /\ Finish
    /\ UNCHANGED <<root, child, parent, selfPtr, key, linked>>

\* ... or at an empty place.
InsertLink ==
    /\ pc = "insert" /\ At(slot) = NULL
    /\ SetSlot(slot, node, child)
    /\ selfPtr' = [selfPtr EXCEPT ![node] = slot]
    /\ parent' = [parent EXCEPT ![node] = slot[1]]
    /\ Finish
    /\ UNCHANGED <<next, prev, key, linked>>

-----------------------------------------------------------------------------
(* radixTreeRemove.                                                         *)

BeginRemove(n) ==
    /\ pc = "idle" /\ n \in linked
    /\ pc' = "remove" /\ node' = n
    /\ UNCHANGED <<treeVars, linked, new, slot, bit>>

\* A mutant of SmallerChild: it prefers child[1].
LargerChild(n) == IF child[n][1] # NULL THEN child[n][1] ELSE child[n][0]

\* radixTreeGetSmallerChild: keys under child[0] are the smaller ones.
SmallerChild(n) == IF child[n][0] # NULL THEN child[n][0] ELSE child[n][1]
Alone(n) == next[n] = n

Removed == linked' = linked \ {node} /\ Finish

\* A node without duplicates is cut off when it is a leaf ...
RemoveLeaf ==
    /\ pc = "remove" /\ Alone(node) /\ SmallerChild(node) = NULL
    /\ SetSlot(selfPtr[node], NULL, child)
    /\ Removed
    /\ UNCHANGED <<parent, selfPtr, next, prev, key>>

\* ... and pushed down below its smaller child otherwise.
RemovePushDown ==
    /\ pc = "remove" /\ Alone(node) /\ SmallerChild(node) # NULL
    /\ SwapParentWithChild(node, SmallerChild(node))
    /\ UNCHANGED <<next, prev, key, linked, callVars>>

\* Of a ring, the primary hands its place to the next node; another just
\* leaves.
RemovePrimary ==
    /\ pc = "remove" /\ ~Alone(node) /\ selfPtr[node] # NULL
    /\ ReplaceNode(node, next[node], FALSE)
    /\ LeaveRing(node) /\ Removed
    /\ UNCHANGED key

RemoveDuplicate ==
    /\ pc = "remove" /\ ~Alone(node) /\ selfPtr[node] = NULL
    /\ LeaveRing(node) /\ Removed
    /\ UNCHANGED <<root, child, parent, selfPtr, key>>

Next ==
    \/ \E n \in Node, k \in Key : BeginInsert(n, k)
    \/ \E cur \in Node : InsertPass(cur) \/ InsertSwap(cur) \/ InsertDuplicate(cur)
    \/ InsertLink
    \/ \E n \in linked : BeginRemove(n)
    \/ RemoveLeaf \/ RemovePushDown \/ RemovePrimary \/ RemoveDuplicate

Spec == Init /\ [][Next]_vars

-----------------------------------------------------------------------------
(* radixTreeFindGEQ.                                                        *)

\* A mutant of SmallerNode: the last larger node of the path is taken.
LastNode(first, second) == first

\* radixTreeGetSmallerNode.
SmallerNode(first, second) ==
    IF second = NULL \/ key[first] < key[second] THEN first ELSE second

\* The bit below the last, reached only at a node without children, is any.
QueryBit(k, b) == IF b < 0 THEN 0 ELSE IsBitSet(k, b)

\* The loop stays where it is once it has found the key or come to an end.
Walk(k, w, b) ==
    LET n == w.node
        side == QueryBit(k, b)
    IN  IF n = NULL \/ key[n] = k THEN w
        ELSE [node |-> child[n][side],
              found |-> IF key[n] > k THEN SmallerNode(n, w.found) ELSE w.found,
              gtTree |-> IF side = 0 /\ child[n][1] # NULL THEN child[n][1] ELSE w.gtTree]

FindGEQ(k) ==
    LET walk[i \in 0..(KeyBits + 1)] ==
            IF i = 0 THEN [node |-> root, found |-> NULL, gtTree |-> NULL]
            ELSE Walk(k, walk[i - 1], KeyBits - i)
        end == walk[KeyBits + 1]
    IN  IF end.node # NULL THEN end.node
        ELSE IF end.found # NULL THEN end.found ELSE end.gtTree

-----------------------------------------------------------------------------
(* Properties.                                                              *)

TypeOK ==
    LET Some == Node \union {NULL}
    IN  /\ root \in Some /\ node \in Some /\ new \in Some
        /\ child \in [Node -> [Side -> Some]]
        /\ parent \in [Node -> Some] /\ next \in [Node -> Some] /\ prev \in [Node -> Some]
        /\ selfPtr \in [Node -> SlotSet \union {NULL}]
        /\ key \in [Node -> Key]
        /\ linked \subseteq Node
        /\ pc \in {"idle", "insert", "remove"}
        /\ slot \in SlotSet /\ bit \in 0..KeyBits

\* The nodes of the trie, depth by depth.
AtDepth[d \in 0..KeyBits] ==
    (IF d = 0 THEN {root} ELSE {child[n][i] : n \in AtDepth[d - 1], i \in Side}) \ {NULL}

InTrie == UNION {AtDepth[d] : d \in 0..KeyBits}

\* During and between calls the trie is linked both ways, no path is longer
\* than the key, and every node lies under the bits of its key and below a
\* smaller key, but for a node that a remove is pushing down.
TrieWellFormed ==
    \A d \in 0..KeyBits : \A n \in AtDepth[d] :
        /\ At(selfPtr[n]) = n
        /\ parent[n] = selfPtr[n][1]
        /\ \A i \in Side : child[n][i] # NULL =>
              LET c == child[n][i]
                  under == 2 ^ (KeyBits - d - 1)
              IN  /\ d < KeyBits
                  /\ \/ pc = "remove" /\ node \in {n, c}
                     \/ /\ key[n] < key[c]
                        /\ key[c] \div under = 2 * (key[n] \div (2 * under)) + i

\* The assertions of radix.c: an insert does not run out of key bits, a node
\* that takes another's place has no links of its own, and the child a node is
\* swapped with is its child.
AssertionsHold ==
    /\ \A cur \in Node : Meets(cur) =>
          bit > 0 /\ (key[node] < key[cur] => Unlinked(node))
    /\ pc = "remove" /\ ~Alone(node) /\ selfPtr[node] # NULL => Unlinked(next[node])
    /\ pc = "remove" /\ Alone(node) /\ SmallerChild(node) # NULL =>
          parent[SmallerChild(node)] = node

\* The nodes of a ring from its primary on, in the order of next.
RingOf(p) ==
    LET at[i \in 1..Cardinality(Node)] == IF i = 1 THEN p ELSE next[at[i - 1]]
        last == CHOOSE i \in DOMAIN at :
                    next[at[i]] = p /\ \A j \in 1..(i - 1) : next[at[j]] # p
    IN  [i \in 1..last |-> at[i]]

\* The primaries: the nodes of the trie, and the one an insert carries after it
\* has displaced it.
Primary == InTrie \union (IF pc = "insert" /\ node # new THEN {node} ELSE {})

\* The queue of a key is the ring of the one primary with that key.
Queues ==
    [k \in Key |->
        LET p == {n \in Primary : key[n] = k}
        IN  IF p = {} THEN <<>> ELSE RingOf(CHOOSE n \in p : TRUE)]

MMap == INSTANCE MultiMap WITH queue <- Queues

\* The tree is a multimap: at one step of each call its node joins or leaves the
\* queue of its key, and no other node or key is touched, whichever nodes were
\* swapped on the way.
ImplementsMultiMap == MMap!Spec

\* Between calls the caller's nodes are in the queues of their keys, each
\* once and no other: none has been dropped on the way and none lingers.
EveryNodeQueued ==
    pc = "idle" =>
        \A k \in Key :
            /\ {n \in linked : key[n] = k} = MMap!Nodes(Queues[k])
            /\ Len(Queues[k]) = Cardinality(MMap!Nodes(Queues[k]))

\* radixTreeFindGEQ returns the first of the nodes with the least key from the
\* one asked for, of those of equal keys the one inserted first.
GEQExact ==
    pc = "idle" =>
        \A k \in Key :
            LET after == {j \in Key : j >= k /\ Queues[j] # <<>>}
            IN  FindGEQ(k) = IF after = {} THEN NULL
                             ELSE Head(Queues[CHOOSE j \in after : \A i \in after : j <= i])
=============================================================================
