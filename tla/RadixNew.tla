------------------------------ MODULE RadixNew ------------------------------
(***************************************************************************)
(* The wide radix tree of radix_new.c.  A key is cut into levels; a node   *)
(* has one bit per child it may have, in Words words, and per word a       *)
(* pointer to an array of WordBits children: nodes, or values at the last  *)
(* level.  Arrays come from two object pools, which ObjectPool models and  *)
(* which are used here through what they promise (ObjectAllocator); what   *)
(* an array holds survives its being freed and handed out again.           *)
(*                                                                         *)
(* The updates are modelled one loop iteration per step, so that a failing *)
(* allocation can strike at any level; the searches, which change nothing, *)
(* are functions of the state.                                             *)
(***************************************************************************)
EXTENDS Integers, Sequences, FiniteSets

CONSTANTS Words, WordBits,       \* 4 and 64 in the code
          Log2Max, Log2Align,    \* the arguments of treeInit
          LevelBits,             \* bits of the key per level, 8 in the code
          Key,                   \* the keys used, numbers
          Value,                 \* the values stored, numbers; 0 is "none"
          NonLeafArray,          \* the objects of nonLeafPool
          LeafArray,             \* the objects of leafPool
          NULL,
          HeapMayFail,           \* whether objectPoolAlloc may return NULL
          NoCall, Pending, Failed, Undefined

ASSUME ShapeAssumption ==
    /\ Words \in Nat \ {0} /\ WordBits \in Nat \ {0} /\ LevelBits \in Nat \ {0}
    /\ Log2Max \in Nat /\ Log2Align \in Nat /\ Log2Align < Log2Max
    /\ Words * WordBits = 2 ^ LevelBits
ASSUME DataAssumption ==
    /\ Key \subseteq Nat /\ Value \subseteq Nat \ {0}
    /\ NonLeafArray \intersect LeafArray = {}
    /\ NULL \notin NonLeafArray \union LeafArray
    /\ HeapMayFail \in BOOLEAN
    /\ Pending # Failed /\ {Pending, Failed} \intersect (Value \union {0}) = {}
    /\ \A k \in Key : /\ NoCall # [op |-> "remove", key |-> k]
                      /\ \A v \in Value : NoCall # [op |-> "insert", key |-> k, value |-> v]

VARIABLES numLevels,      \* 0 before treeInit and after treeDestroy
          bits,           \* bits[n]: the bits set in the four words of node n
          children,       \* children[n][w]: the child array of word w of node n
          leaf,           \* leaf[a][s]: the value in slot s of leaf array a
          nonLeafLive,    \* the objects nonLeafPool has handed out
          leafLive,       \* the objects leafPool has handed out
          pc,             \* where the running call is
          call,           \* the running call and its arguments
          path,           \* the nodes from the root to the one at hand
          answer          \* what the call returns

treeVars == <<bits, children, leaf, nonLeafLive, leafLive>>
callVars == <<pc, call, path, answer>>
vars == <<numLevels, treeVars, callVars>>

Fanout == Words * WordBits
Child == 0..(Fanout - 1)
Word == 0..(Words - 1)
Slot == 0..(WordBits - 1)

Root == <<"root", 0>>
Node == {Root} \union (NonLeafArray \X Slot)

ASSUME NodeAssumption == "root" \notin NonLeafArray /\ NULL \notin Node /\ Undefined \notin (Node \X Child)

\* treeInit: enough levels for the bits between log2Align and log2Max.
NumLevels == (Log2Max - Log2Align + LevelBits - 1) \div LevelBits
LastLevel == NumLevels - 1

ASSUME PowerAssumption ==
    /\ Fanout ^ 0 = 1
    /\ \A i \in 0..NumLevels : Fanout ^ i \in Nat \ {0} /\ Fanout ^ (i + 1) = Fanout * Fanout ^ i

\* The part of the key that selects the child at a level, as a bit number of
\* the node, and the word and the slot it is in.
KeyLevelBits(k, level) == (k \div (Fanout ^ (LastLevel - level))) % Fanout
WordOf(c) == c \div WordBits
SlotOf(c) == c % WordBits

NonLeafPool == INSTANCE ObjectAllocator WITH Object <- NonLeafArray, live <- nonLeafLive
LeafPool == INSTANCE ObjectAllocator WITH Object <- LeafArray, live <- leafLive

EmptyChildren == [w \in Word |-> NULL]

Zeroed ==
    /\ bits = [n \in Node |-> {}]
    /\ children = [n \in Node |-> EmptyChildren]
    /\ leaf = [a \in LeafArray |-> [s \in Slot |-> 0]]
    /\ nonLeafLive = {} /\ leafLive = {}

Idle == pc = "idle" /\ call = NoCall /\ path = <<>> /\ answer = Pending

Init == numLevels = 0 /\ Zeroed /\ Idle

-----------------------------------------------------------------------------
\* treeInit on a zeroed or destroyed tree.  It ignores a failure of
\* objectPoolInit, after which a pool still grows when it is first used.
treeInit ==
    /\ pc = "idle" /\ numLevels = 0
    /\ numLevels' = NumLevels
    /\ UNCHANGED <<treeVars, callVars>>

\* treeDestroy frees every block of both pools and zeroes the tree.
treeDestroy ==
    /\ pc = "idle"
    /\ numLevels' = 0
    /\ NonLeafPool!Destroy /\ LeafPool!Destroy
    /\ bits' = [n \in Node |-> {}]
    /\ children' = [n \in Node |-> EmptyChildren]
    /\ leaf' = [a \in LeafArray |-> [s \in Slot |-> 0]]
    /\ UNCHANGED callVars

-----------------------------------------------------------------------------
(* A running call: only between treeInit and treeDestroy, before and after    *)
(* which treeInsertOrReturnExisting succeeds and stores nothing and           *)
(* treeRemove reads arrays it has not filled.  path[l + 1] is the code's nodes[l], so the level at      *)
(* hand is Level and the node Here.                                          *)
Level == Len(path) - 1
Here == path[Len(path)]
KeyBits == KeyLevelBits(call.key, Level)
ChildArray == children[Here][WordOf(KeyBits)]

Begin(c, start) ==
    /\ pc = "idle"
    /\ pc' = start
    /\ call' = c
    /\ path' = <<Root>>
    /\ UNCHANGED <<numLevels, treeVars, answer>>

ReturnWith(a) == pc' = "return" /\ answer' = a /\ UNCHANGED <<call, path>>

Return ==
    /\ pc = "return"
    /\ pc' = "idle" /\ call' = NoCall /\ path' = <<>> /\ answer' = Pending
    /\ UNCHANGED <<numLevels, treeVars>>

-----------------------------------------------------------------------------
(* treeInsertOrReturnExisting.                                              *)

BeginInsert(k, v) ==
    numLevels > 0 /\ Begin([op |-> "insert", key |-> k, value |-> v], "insert")

\* Take the child array of the node at hand, from the pool if there is none.
FetchChildArray(a) ==
    IF ChildArray # NULL
    THEN a = ChildArray /\ UNCHANGED <<nonLeafLive, leafLive>>
    ELSE IF Level = LastLevel
         THEN a \in LeafArray /\ LeafPool!Alloc(a) /\ UNCHANGED nonLeafLive
         ELSE a \in NonLeafArray /\ NonLeafPool!Alloc(a) /\ UNCHANGED leafLive

\* At the last level the value is stored only into an empty slot.
StoreOverExisting(a) ==    \* a mutant of StoreIfEmpty
    leaf' = [leaf EXCEPT ![a][SlotOf(KeyBits)] = call.value]

StoreIfEmpty(a) ==
    leaf' = IF leaf[a][SlotOf(KeyBits)] = 0
            THEN [leaf EXCEPT ![a][SlotOf(KeyBits)] = call.value]
            ELSE leaf

\* One iteration: link the array, set the bit, and store or go down.
InsertLevel(a) ==
    /\ pc = "insert"
    /\ FetchChildArray(a)
    /\ children' = [children EXCEPT ![Here][WordOf(KeyBits)] = a]
    /\ bits' = [bits EXCEPT ![Here] = @ \union {KeyBits}]
    /\ \/ /\ Level = LastLevel
          /\ StoreIfEmpty(a)
          /\ ReturnWith(leaf[a][SlotOf(KeyBits)])
       \/ /\ Level < LastLevel
          /\ path' = Append(path, <<a, SlotOf(KeyBits)>>)
          /\ UNCHANGED <<pc, call, answer, leaf>>
    /\ UNCHANGED numLevels

\* objectPoolAlloc returns NULL: the call fails and undoes nothing.
InsertFails ==
    /\ HeapMayFail
    /\ pc = "insert"
    /\ ChildArray = NULL
    /\ ReturnWith(Failed)
    /\ UNCHANGED <<numLevels, treeVars>>

-----------------------------------------------------------------------------
(* treeRemove.                                                              *)

BeginRemove(k) == numLevels > 0 /\ Begin([op |-> "remove", key |-> k], "remove")

\* The first loop follows the pointers, whatever the bits say, ...
RemoveDescend ==
    /\ pc = "remove" /\ Level < LastLevel /\ ChildArray # NULL
    /\ path' = Append(path, <<ChildArray, SlotOf(KeyBits)>>)
    /\ UNCHANGED <<numLevels, treeVars, pc, call, answer>>

\* ... and stops where there is none.
RemoveAbsent ==
    /\ pc = "remove" /\ ChildArray = NULL
    /\ pc' = "clean"
    /\ answer' = 0
    /\ UNCHANGED <<numLevels, treeVars, call, path>>

RemoveValueKept ==    \* a mutant of RemoveValue
    /\ pc = "remove" /\ Level = LastLevel /\ ChildArray # NULL
    /\ pc' = "clean"
    /\ answer' = leaf[ChildArray][SlotOf(KeyBits)]
    /\ UNCHANGED <<numLevels, treeVars, call, path>>

RemoveValue ==
    /\ pc = "remove" /\ Level = LastLevel /\ ChildArray # NULL
    /\ pc' = "clean"
    /\ answer' = leaf[ChildArray][SlotOf(KeyBits)]
    /\ leaf' = [leaf EXCEPT ![ChildArray][SlotOf(KeyBits)] = 0]
    /\ UNCHANGED <<numLevels, bits, children, nonLeafLive, leafLive, call, path>>

\* The bits of a node that are in word w.
InWord(set, w) == {c \in set : WordOf(c) = w}

WordFreedWithNode(left, w) == left = {}    \* a mutant of WordEmpty
WordEmpty(left, w) == InWord(left, w) = {}

StopAnyway(left) == TRUE    \* a mutant of StopHere
StopHere(left) == left # {}

PointerLeft == UNCHANGED children    \* a mutant of ClearPointer
ClearPointer == children' = [children EXCEPT ![Here][WordOf(KeyBits)] = NULL]

\* One iteration of the loop that clears the bits on the way back, from the
\* bits that will be left: the array of a word that has become empty is freed,
\* and the way ends at the first node that has another bit.
CleanNode(left) ==
    /\ bits' = [bits EXCEPT ![Here] = left]
    /\ IF WordEmpty(left, WordOf(KeyBits)) /\ ChildArray # NULL
       THEN /\ ClearPointer
            /\ IF Level = LastLevel
               THEN LeafPool!Free(ChildArray) /\ UNCHANGED nonLeafLive
               ELSE NonLeafPool!Free(ChildArray) /\ UNCHANGED leafLive
       ELSE UNCHANGED <<children, nonLeafLive, leafLive>>
    /\ IF StopHere(left)
       THEN pc' = "return" /\ UNCHANGED path
       ELSE path' = SubSeq(path, 1, Len(path) - 1) /\ UNCHANGED pc
    /\ UNCHANGED <<numLevels, leaf, call, answer>>

CleanRootToo ==    \* a mutant of Clean
    pc = "clean" /\ CleanNode(bits[Here] \ {KeyBits})

\* The loop stops below the root, whose bits stay.
Clean == pc = "clean" /\ Level > 0 /\ CleanNode(bits[Here] \ {KeyBits})

CleanDone ==
    /\ pc = "clean" /\ Level = 0
    /\ ReturnWith(answer)
    /\ UNCHANGED <<numLevels, treeVars>>

-----------------------------------------------------------------------------
Next ==
    \/ treeInit \/ treeDestroy
    \/ \E k \in Key, v \in Value : BeginInsert(k, v)
    \/ \E a \in LeafArray \union NonLeafArray : InsertLevel(a)
    \/ InsertFails
    \/ \E k \in Key : BeginRemove(k)
    \/ RemoveDescend \/ RemoveAbsent \/ RemoveValue
    \/ Clean \/ CleanDone
    \/ Return

Spec == Init /\ [][Next]_vars

-----------------------------------------------------------------------------
(* The searches.                                                            *)

ChildNode(n, c) == <<children[n][WordOf(c)], SlotOf(c)>>
ValueAt(n, c) == leaf[children[n][WordOf(c)]][SlotOf(c)]

\* Whether a search goes through child c of a node: its bit is set, and the
\* pointer of its word too.
HasChild(n, c) == c \in bits[n] /\ children[n][WordOf(c)] # NULL

\* The nodes[] of a search for a key: the node it comes to at each level, NULL
\* below where it stops.
NodesFor(k) ==
    LET nodes[level \in 0..LastLevel] ==
            IF level = 0 THEN Root
            ELSE LET n == nodes[level - 1]
                     c == KeyLevelBits(k, level - 1)
                 IN  IF n # NULL /\ HasChild(n, c) THEN ChildNode(n, c) ELSE NULL
    IN  nodes

treeFind(k) ==
    LET n == NodesFor(k)[LastLevel]
        c == KeyLevelBits(k, LastLevel)
    IN  IF numLevels # 0 /\ n # NULL /\ HasChild(n, c) THEN ValueAt(n, c) ELSE 0

\* The map the tree stands for: what treeFind returns for each key.
Map == INSTANCE OrderedMap WITH dict <- [k \in Key |-> treeFind(k)]

\* getFirstSetBitInRange(node->bits, from, 255): BitScan shows that it returns
\* the lowest set bit of the range, and 256 when there is none.
FirstSetBit(n, from) ==
    LET set == {c \in bits[n] : c >= from}
    IN  IF set = {} THEN Fanout ELSE CHOOSE c \in set : \A d \in set : c <= d

FromHere(n, c) == FirstSetBit(n, c)    \* a mutant of After
After(n, c) == FirstSetBit(n, c + 1)

\* A node and its child to go on with.  The code does not look whether there is
\* one: with none, c is 256 and children[4] is read.
Entry(n, c) ==
    IF c = Fanout \/ children[n][WordOf(c)] = NULL THEN Undefined ELSE <<n, c>>

\* The second half of treeFindGEQ: from child c of a node down by the first bit
\* of every node.
Leftmost(top, n, c) ==
    LET down[level \in top..LastLevel] ==
            IF level = top THEN Entry(n, c)
            ELSE IF down[level - 1] = Undefined THEN Undefined
            ELSE LET m == ChildNode(down[level - 1][1], down[level - 1][2])
                 IN  Entry(m, FirstSetBit(m, 0))
        last == down[LastLevel]
    IN  IF last = Undefined THEN Undefined ELSE ValueAt(last[1], last[2])

\* The level at which a search for a key stops.
StopsAt(k) ==
    CHOOSE level \in 0..LastLevel :
        /\ NodesFor(k)[level] # NULL
        /\ level < LastLevel => NodesFor(k)[level + 1] = NULL

\* The first half: along the key, and where its bit is not set back up to the
\* first node that has a bit after the key's.
treeFindGEQ(k) ==
    LET stop == StopsAt(k)
        next(level) == After(NodesFor(k)[level], KeyLevelBits(k, level))
        found == KeyLevelBits(k, stop) \in bits[NodesFor(k)[stop]]
        up == {level \in 0..stop : next(level) # Fanout}
        turn == CHOOSE level \in up : \A l \in up : l <= level
    IN  IF numLevels = 0 THEN 0
        ELSE IF found THEN treeFind(k)
        ELSE IF up = {} THEN 0
        ELSE Leftmost(turn, NodesFor(k)[turn], next(turn))

-----------------------------------------------------------------------------
(* Properties.                                                              *)

TypeOK ==
    /\ numLevels \in {0, NumLevels}
    /\ bits \in [Node -> SUBSET Child]
    /\ children \in [Node -> [Word -> NonLeafArray \union LeafArray \union {NULL}]]
    /\ leaf \in [LeafArray -> [Slot -> Value \union {0}]]
    /\ NonLeafPool!TypeOK /\ LeafPool!TypeOK
    /\ pc \in {"idle", "insert", "remove", "clean", "return"}
    /\ path \in Seq(Node) /\ Len(path) <= NumLevels
    /\ (pc = "idle") = (path = <<>>)
    /\ answer \in Value \union {0, Pending, Failed}

\* A pool does not clear what it hands out again: the tree relies on every
\* array it frees being empty at that moment, nodes without bits and pointers,
\* slots without values.
FreeArraysAreClean ==
    /\ \A a \in NonLeafArray \ nonLeafLive, s \in Slot :
          bits[<<a, s>>] = {} /\ children[<<a, s>>] = EmptyChildren
    /\ \A a \in LeafArray \ leafLive, s \in Slot : leaf[a][s] = 0

\* The child arrays of a set of nodes, and the nodes at each level.
ArraysUnder(nodes) == {children[n][w] : n \in nodes, w \in Word} \ {NULL}

NodesAt[level \in 0..LastLevel] ==
    IF level = 0 THEN {Root} ELSE ArraysUnder(NodesAt[level - 1]) \X Slot

\* The arrays the pools have handed out are those the tree reaches, leaf arrays
\* from the last level and node arrays from the others, each by one pointer:
\* no failed insert and no remove loses an array or leaves a pointer to one it
\* freed, and no two words share one.
TreeOwnsItsArrays ==
    /\ leafLive = ArraysUnder(NodesAt[LastLevel])
    /\ nonLeafLive = UNION {ArraysUnder(NodesAt[l]) : l \in 0..(LastLevel - 1)}
    /\ LET used == {Root} \union (nonLeafLive \X Slot)
       IN  \A n, m \in used : \A v, w \in Word :
               children[n][v] = children[m][w] /\ children[n][v] # NULL
                   => n = m /\ v = w

\* Whether a set bit stands for nothing: no value, or a node without bits.
Hollow(level, n, c) ==
    IF level = LastLevel THEN ValueAt(n, c) = 0 ELSE bits[ChildNode(n, c)] = {}

\* Between calls, below the root a word has an array exactly while it has a
\* bit, and every bit leads to a value: what treeRemove clears on its way back
\* is all there is to clear.  Only root bits, which it never clears, are left
\* hollow.
NothingHollowBelowRoot ==
    pc = "idle" =>
        \A level \in 1..LastLevel : \A n \in NodesAt[level] :
            /\ \A w \in Word : children[n][w] # NULL <=> InWord(bits[n], w) # {}
            /\ \A c \in bits[n] : ~Hollow(level, n, c)

\* treeFindGEQ returns the value of the least key from k on, if no root bit
\* after k's is hollow.
GEQExactUnlessHollow ==
    LET dict == [k \in Key |-> treeFind(k)]
        solid(k) == \A c \in bits[Root] : c > KeyLevelBits(k, 0) => ~Hollow(0, Root, c)
    IN  pc = "idle" =>
            \A k \in Key : solid(k) => treeFindGEQ(k) = Map!ValueAtOrAfter(dict, k)

\* A tree all of whose keys were removed keeps no array but those of the root's
\* words.
EmptiedTreeIsSmall ==
    pc = "idle" /\ (\A k \in Key : treeFind(k) = 0) =>
        leafLive \union nonLeafLive = ArraysUnder({Root})

\* Whatever the pools hand out and whenever they fail, the tree is a map: an
\* update takes effect once, between its call and its return, on its own key,
\* and treeFind sees its effect and no other.
ImplementsMap == Map!Spec

\* README.md: "Comprehensive safety checks prevent memory corruption", "bounds
\* checking throughout".  treeFindGEQ reads no word a node does not have.
GEQStaysInBounds == pc = "idle" => \A k \in Key : treeFindGEQ(k) # Undefined
=============================================================================
