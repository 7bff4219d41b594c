------------------------------ MODULE WideRadix ------------------------------
(***************************************************************************)
(* The wide radix tree of wide_radix.c: every node is allocated on its own *)
(* with calloc and has a mask of the children that exist and an array of   *)
(* pointers to them.  A key is looked up by one byte per level; a leaf     *)
(* holds the value.                                                        *)
(*                                                                         *)
(* An update is modelled one loop iteration per step, so that calloc can   *)
(* fail at any level; so is the destruction of the tree.  The searches are *)
(* functions of the state.                                                 *)
(***************************************************************************)
EXTENDS Integers, Sequences, FiniteSets

CONSTANTS Depth,          \* bytes of a key, 8 in the code
          Radix,          \* values of a byte, 256 in the code
          Value,          \* the values stored
          NULL,
          HeapMayFail     \* whether calloc may return NULL

Key == 0..(Radix ^ Depth - 1)
Byte == 0..(Radix - 1)
LastLevel == Depth - 1

\* A mutant of extract_byte: the bytes above are not masked away.
ShiftOnly(k, lev) == k \div (Radix ^ (LastLevel - lev))

extract_byte(k, lev) == (k \div (Radix ^ (LastLevel - lev))) % Radix

ASSUME ShapeAssumption ==
    /\ Depth \in Nat \ {0} /\ Radix \in Nat \ {0}
    /\ Radix ^ 0 = 1
    /\ \A i \in 0..Depth : Radix ^ i \in Nat \ {0} /\ Radix ^ (i + 1) = Radix * Radix ^ i
ASSUME DataAssumption ==
    /\ Value \subseteq Nat \ {0}
    /\ HeapMayFail \in BOOLEAN
    /\ NULL \notin Seq(Byte) /\ NULL \notin BOOLEAN
    /\ \A op \in {"insert", "delete"}, k \in Key, v \in Value \union {0} :
          NULL # [op |-> op, key |-> k, value |-> v]

VARIABLES root,        \* tree->root
          heap,        \* what every allocated node holds
          pc, key, value,
          current, level,
          i,           \* the loop index of free_node
          answer       \* what the call returns, NULL before

treeVars == <<root, heap>>
callVars == <<pc, key, value, current, level, i, answer>>
vars == <<treeVars, callVars>>

\* The address of a node is any that calloc finds free; here it is the path on
\* which the node is made, which is free unless a node made there before was
\* lost.
Address == Seq(Byte)

create_node(isLeaf) ==
    [child_mask |-> {}, children |-> [b \in Byte |-> NULL], value |-> 0, is_leaf |-> isLeaf]

Idle ==
    /\ pc = "idle" /\ key = 0 /\ value = 0 /\ current = <<>> /\ level = 0 /\ i = 0
    /\ answer = NULL

Answer(a) == answer' = a /\ UNCHANGED <<pc, key, value, current, level, i>>

NoNodes == [a \in {} |-> create_node(FALSE)]

\* Before wide_radix_init.
Init == root = NULL /\ heap = NoNodes /\ Idle

\* wide_radix_init; if calloc fails, the tree has no root and no call but empty
\* and destroy may be made.
InitTree ==
    /\ pc = "idle" /\ root = NULL
    /\ root' = <<>>
    /\ heap' = [a \in DOMAIN heap \union {<<>>} |->
                   IF a = <<>> THEN create_node(FALSE) ELSE heap[a]]
    /\ UNCHANGED callVars

Begin(op, k, v) ==
    /\ pc = "idle" /\ root # NULL
    /\ pc' = op /\ key' = k /\ value' = v
    /\ current' = root /\ level' = 0
    /\ UNCHANGED <<treeVars, i, answer>>

Return ==
    /\ answer # NULL
    /\ pc' = "idle" /\ key' = 0 /\ value' = 0 /\ current' = <<>> /\ level' = 0 /\ i' = 0
    /\ answer' = NULL
    /\ UNCHANGED treeVars

Running(op) == pc = op /\ answer = NULL

TheByte == extract_byte(key, level)
HasChild == TheByte \in heap[current].child_mask
TheChild == heap[current].children[TheByte]

\* One iteration of the loop over the levels but the last, where the child
\* exists; insert and delete have the same.
Descend ==
    /\ Running("insert") \/ Running("delete")
    /\ level < LastLevel /\ HasChild
    /\ current' = TheChild
    /\ level' = level + 1
    /\ UNCHANGED <<treeVars, pc, key, value, i, answer>>

-----------------------------------------------------------------------------
(* wide_radix_insert.                                                       *)

\* The node "current" after a child has been hung into it.
WithChild(node, b, child) ==
    [node EXCEPT !.child_mask = @ \union {b}, !.children[b] = child]

\* The heap after calloc has made a child of the current node.
Grown(child, contents) ==
    [a \in DOMAIN heap \union {child} |->
        IF a = child THEN contents
        ELSE IF a = current THEN WithChild(heap[a], TheByte, child)
        ELSE heap[a]]

NewChild == Append(current, TheByte)

\* A mutant of WithValue: a value once stored stays.
FirstValue(node, v) == IF node.value = 0 THEN [node EXCEPT !.value = v] ELSE node

WithValue(node, v) == [node EXCEPT !.value = v]

\* A missing inner node is made and entered, ...
InsertNode ==
    /\ Running("insert") /\ level < LastLevel /\ ~HasChild
    /\ heap' = Grown(NewChild, create_node(FALSE))
    /\ current' = NewChild
    /\ level' = level + 1
    /\ UNCHANGED <<root, pc, key, value, i, answer>>

\* ... and at the last level a leaf with the value.
InsertLeaf ==
    /\ Running("insert") /\ level = LastLevel /\ ~HasChild
    /\ heap' = Grown(NewChild, WithValue(create_node(TRUE), value))
    /\ Answer(TRUE)
    /\ UNCHANGED root

\* A leaf that is there gets the value.
UpdateLeaf ==
    /\ Running("insert") /\ level = LastLevel /\ HasChild
    /\ heap' = [heap EXCEPT ![TheChild] = WithValue(@, value)]
    /\ Answer(TRUE)
    /\ UNCHANGED root

\* Without memory the insert returns false; nodes it has made stay.
InsertFails ==
    /\ HeapMayFail
    /\ Running("insert") /\ ~HasChild
    /\ Answer(FALSE)
    /\ UNCHANGED treeVars

-----------------------------------------------------------------------------
(* wide_radix_delete.                                                       *)

DeleteMissing ==
    /\ Running("delete") /\ ~HasChild
    /\ Answer(FALSE)
    /\ UNCHANGED treeVars

\* A mutant of WithoutChild: the bit in the mask stays.
ChildCleared(node, b) == [node EXCEPT !.children[b] = NULL]

\* The node "current" after its child at b is gone.
WithoutChild(node, b) ==
    [node EXCEPT !.child_mask = @ \ {b}, !.children[b] = NULL]

\* The leaf is freed; inner nodes are left even if they become empty.
DeleteLeaf ==
    /\ Running("delete") /\ level = LastLevel /\ HasChild
    /\ heap' = [a \in DOMAIN heap \ {TheChild} |->
                   IF a = current THEN WithoutChild(heap[a], TheByte) ELSE heap[a]]
    /\ Answer(TRUE)
    /\ UNCHANGED root

-----------------------------------------------------------------------------
(* wide_radix_destroy.  free_node goes through the children of a node in    *)
(* the order of their bytes and then frees the node; the frames of its      *)
(* recursion are the nodes on the path of the one at hand.                  *)

ToFree(node) ==
    IF node.is_leaf THEN {}
    ELSE {b \in node.child_mask : node.children[b] # NULL}

Ahead == {b \in ToFree(heap[current]) : b >= i}

BeginDestroy ==
    /\ pc = "idle" /\ root # NULL
    /\ pc' = "destroy" /\ current' = root /\ i' = 0
    /\ UNCHANGED <<treeVars, key, value, level, answer>>

FreeChild ==
    /\ pc = "destroy"
    /\ \E b \in Ahead :
          /\ \A c \in Ahead : b <= c
          /\ current' = heap[current].children[b]
    /\ i' = 0
    /\ UNCHANGED <<treeVars, pc, key, value, level, answer>>

free(node) == [a \in DOMAIN heap \ {node} |-> heap[a]]

FreeNode ==
    /\ pc = "destroy" /\ current # root /\ Ahead = {}
    /\ heap' = free(current)
    /\ current' = SubSeq(current, 1, Len(current) - 1)
    /\ i' = current[Len(current)] + 1
    /\ UNCHANGED <<root, pc, key, value, level, answer>>

FreeRoot ==
    /\ pc = "destroy" /\ current = root /\ Ahead = {}
    /\ heap' = free(root)
    /\ root' = NULL
    /\ pc' = "idle" /\ current' = <<>> /\ i' = 0
    /\ UNCHANGED <<key, value, level, answer>>

Next ==
    \/ InitTree
    \/ \E k \in Key, v \in Value : Begin("insert", k, v)
    \/ \E k \in Key : Begin("delete", k, 0)
    \/ Descend
    \/ InsertNode \/ InsertLeaf \/ UpdateLeaf \/ InsertFails
    \/ DeleteMissing \/ DeleteLeaf
    \/ Return
    \/ BeginDestroy \/ FreeChild \/ FreeNode \/ FreeRoot

Spec == Init /\ [][Next]_vars

-----------------------------------------------------------------------------
(* The searches, of a tree with a root.                                     *)

\* The child of a node at a byte, NULL if there is none.
ChildAt(a, b) ==
    IF a # NULL /\ b \in heap[a].child_mask THEN heap[a].children[b] ELSE NULL

\* The node a search for k comes to after so many levels, NULL from the first
\* that is missing.
NodeAt(k) ==
    LET at[d \in 0..Depth] ==
            IF d = 0 THEN root ELSE ChildAt(at[d - 1], extract_byte(k, d - 1))
    IN  at

\* The value in a node, 0 if there is no node.
ValueIn(a) == IF a = NULL THEN 0 ELSE heap[a].value

\* A mutant of lookup: the last level is not entered.
LookupShort(k) == ValueIn(NodeAt(k)[LastLevel])

lookup(k) == ValueIn(NodeAt(k)[Depth])

Least(S) == CHOOSE b \in S : \A c \in S : b <= c

\* A mutant of Smallest: the last child is taken.
Largest(a) ==
    IF heap[a].child_mask = {} THEN a
    ELSE heap[a].children[CHOOSE b \in heap[a].child_mask : \A c \in heap[a].child_mask : b >= c]

\* The child a search for the leftmost leaf goes into; it stays where there is
\* none.
Smallest(a) ==
    IF heap[a].child_mask = {} THEN a ELSE heap[a].children[Least(heap[a].child_mask)]

\* The leftmost nodes below a node at level d, level by level.
Leftmost(a, d) ==
    LET left[e \in d..Depth] == IF e = d THEN a ELSE Smallest(left[e - 1])
    IN  left

\* How many levels a search for k finds.
Matched(k) ==
    CHOOSE d \in 0..Depth : NodeAt(k)[d] # NULL /\ (d < Depth => NodeAt(k)[d + 1] = NULL)

\* wide_radix_find_geq: the leaf of k, or else, below the deepest node on the
\* path of k, the leftmost one of the next child.
find_geq(k) ==
    LET d == Matched(k)
        node == heap[NodeAt(k)[d]]
        larger == {b \in node.child_mask : b > extract_byte(k, d)}
        left == Leftmost(node.children[Least(larger)], d + 1)[Depth]
    IN  IF d = Depth THEN node.value
        ELSE IF larger = {} THEN 0
        ELSE IF heap[left].is_leaf THEN heap[left].value ELSE 0

empty == root = NULL \/ heap[root].child_mask = {}

-----------------------------------------------------------------------------
(* Properties.                                                              *)

Node == [child_mask : SUBSET Byte, children : [Byte -> Address \union {NULL}],
         value : Value \union {0}, is_leaf : BOOLEAN]

TypeOK ==
    /\ root \in {NULL, <<>>}
    /\ \A a \in DOMAIN heap : a \in Address /\ heap[a] \in Node
    /\ pc \in {"idle", "insert", "delete", "destroy"}
    /\ key \in Key /\ value \in Value \union {0}
    /\ current \in Address /\ level \in 0..LastLevel /\ i \in 0..Radix
    /\ answer \in {NULL, TRUE, FALSE}

Parent(a) == SubSeq(a, 1, Len(a) - 1)

\* Every allocated node is a child of exactly one other, by a pointer whose bit
\* is set in the mask, or the root; the leaves are those of the last level; and
\* no pointer or bit is left of a node that has been freed.  A call is never at a
\* node that has been freed, and wide_radix_destroy frees every node there is,
\* whatever inserts have failed.
TreeOwnsNodes ==
    /\ root = NULL => DOMAIN heap = {}
    /\ root # NULL => root \in DOMAIN heap
    /\ pc # "idle" => current \in DOMAIN heap
    /\ \A a \in DOMAIN heap :
          /\ Len(a) <= Depth /\ (heap[a].is_leaf <=> Len(a) = Depth)
          /\ a # <<>> => /\ Parent(a) \in DOMAIN heap
                         /\ a[Len(a)] \in heap[Parent(a)].child_mask
          /\ \A b \in Byte :
                IF b \in heap[a].child_mask
                THEN /\ heap[a].children[b] = Append(a, b)
                     /\ pc # "destroy" => Append(a, b) \in DOMAIN heap
                ELSE heap[a].children[b] = NULL

\* The map the tree stands for: a key's value is in the leaf on its path.
PathOf(k) == [d \in 1..Depth |-> extract_byte(k, d - 1)]
Dict ==
    IF pc = "destroy" THEN [k \in Key |-> 0]
    ELSE [k \in Key |-> IF PathOf(k) \in DOMAIN heap THEN heap[PathOf(k)].value ELSE 0]

TheCall ==
    IF pc \in {"insert", "delete"} THEN [op |-> pc, key |-> key, value |-> value] ELSE NULL

Map == INSTANCE PutMap WITH dict <- Dict, call <- TheCall, NoValue <- 0

\* The tree is a map: an insert that returns true has put its key at one step,
\* a delete has taken its key out and tells whether it was there, one that
\* fails changes nothing, and no call touches another key.
ImplementsMap == Map!Spec

InUse == pc = "idle" /\ root # NULL

\* wide_radix_lookup finds what is stored and nothing else, and nothing in a tree
\* that wide_radix_empty says is empty.  It need not say so of one without keys:
\* the inner nodes that deletes and failed inserts leave are children of the root.
LookupExact ==
    InUse => /\ \A k \in Key : lookup(k) = Dict[k]
             /\ empty => Map!Keys(Dict) = {}

\* The keys from k on that share with k what the search for k finds of it.
NextOfMatch(k) ==
    {j \in Map!Keys(Dict) : j >= k /\ \A lev \in 0..(Matched(k) - 1) :
                                          extract_byte(j, lev) = extract_byte(k, lev)}

\* What wide_radix_find_geq returns is the value of the next key.  It returns
\* one if the next key shares the longest path that k has in the tree, unless a
\* delete or a failed insert has left an inner node empty.
GEQSound ==
    InUse => \A k \in Key :
        /\ find_geq(k) # 0 => /\ \E j \in Map!Keys(Dict) : j >= k
                              /\ find_geq(k) = Dict[Map!NextKey(Dict, k)]
        /\ find_geq(k) = 0 =>
              \/ NextOfMatch(k) = {}
              \/ \E a \in DOMAIN heap : Len(a) < Depth /\ heap[a].child_mask = {}

\* wide_radix.c: find_geq is "a basic version that finds the next key".
GEQFindsNext ==
    InUse => \A k \in Key : find_geq(k) = 0 => \A j \in Map!Keys(Dict) : j < k
=============================================================================
