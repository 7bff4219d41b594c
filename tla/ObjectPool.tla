----------------------------- MODULE ObjectPool -----------------------------
(***************************************************************************)
(* The growing object pool of radix_new.c: a linked list of blocks, each   *)
(* with a stack of its free objects, a pointer to the block used last, and *)
(* the three calls objectPoolInit, objectPoolAlloc / objectPoolFree and    *)
(* objectPoolDestroy.                                                      *)
(*                                                                         *)
(* An object is <<b, i>>: slot i of block b.  The code finds the block of  *)
(* an object from its address; the blocks are disjoint pieces of memory,   *)
(* appended at the end of the list and never unlinked, so b is the block's *)
(* place in the list.                                                      *)
(***************************************************************************)
EXTENDS Integers, Sequences, FiniteSets

CONSTANTS MaxCapacity,  \* bound on the capacity given to objectPoolInit
          MaxBlocks     \* bound on the blocks the heap can supply

ASSUME MaxCapacityAssumption == MaxCapacity \in Nat \ {0}
ASSUME MaxBlocksAssumption == MaxBlocks \in Nat

VARIABLES initialCapacity,  \* pool->initialCapacity
          pools,            \* pool->pools, in list order
          currentPool,      \* pool->currentPool, NoBlock for NULL
          held              \* the objects the caller got and has not freed

vars == <<initialCapacity, pools, currentPool, held>>

NoBlock == 0

Object == (1..MaxBlocks) \X (0..2 * MaxCapacity - 1)

-----------------------------------------------------------------------------
(* Blocks.  freeList is the stack below freeListTop: freeListTop is its     *)
(* length and the last element is the one popped next.                      *)

ObjectPoolBlock == [capacity : Nat, used : Nat, freeList : Seq(Object)]

NewBlockOneShort(b, c) ==    \* a mutant of NewBlock
    [capacity |-> c, used |-> 0, freeList |-> [i \in 1..(c - 1) |-> <<b, i - 1>>]]

\* A new block: every object free, the one with the highest address on top.
NewBlock(b, c) ==
    [capacity |-> c, used |-> 0, freeList |-> [i \in 1..c |-> <<b, i - 1>>]]

Top(block) == block.freeList[Len(block.freeList)]

PopKeepsTop(block) == [block EXCEPT !.used = @ + 1]    \* a mutant of Pop

Pop(block) ==
    [block EXCEPT !.used = @ + 1,
                  !.freeList = SubSeq(@, 1, Len(@) - 1)]

PushKeepsUsed(block, o) ==    \* a mutant of Push
    [block EXCEPT !.freeList = Append(@, o)]

Push(block, o) ==
    [block EXCEPT !.used = @ - 1, !.freeList = Append(@, o)]

HasFree(block) == block.freeList # <<>>

-----------------------------------------------------------------------------
\* The zeroed structure before objectPoolInit and after objectPoolDestroy.
Init ==
    /\ initialCapacity = 0
    /\ pools = <<>>
    /\ currentPool = NoBlock
    /\ held = {}

\* objectPoolInit with a non-zero capacity (a zero one is refused and
\* changes nothing).  Initialising over live blocks would only lose them.
InitPool(c) ==
    /\ pools = <<>>
    /\ MaxBlocks > 0
    /\ initialCapacity' = c
    /\ pools' = <<NewBlock(1, c)>>
    /\ currentPool' = 1
    /\ held' = held

InitPoolFailsLate(c) ==    \* a mutant of InitPoolFails
    /\ pools = <<>>
    /\ initialCapacity' = c
    /\ currentPool' = 1
    /\ UNCHANGED <<pools, held>>

\* One of the three callocs of objectPoolInit fails: it returns -1, but the
\* capacity is set and the pool is as usable as an empty one.
InitPoolFails(c) ==
    /\ pools = <<>>
    /\ initialCapacity' = c
    /\ currentPool' = NoBlock
    /\ UNCHANGED <<pools, held>>

\* The block an allocation takes from: the current one while it has objects,
\* otherwise the first in the list that has any.
PoolToUse(b) ==
    /\ HasFree(pools[b])
    /\ \/ b = currentPool
       \/ /\ currentPool # NoBlock => ~HasFree(pools[currentPool])
          /\ \A c \in 1..(b - 1) : ~HasFree(pools[c])

AllocFromBlock(b) ==
    /\ PoolToUse(b)
    /\ pools' = [pools EXCEPT ![b] = Pop(@)]
    /\ currentPool' = b
    /\ held' = held \union {Top(pools[b])}
    /\ UNCHANGED initialCapacity

CurrentExhausted ==    \* a mutant of AllExhausted
    currentPool # NoBlock => ~HasFree(pools[currentPool])

AllExhausted == \A b \in DOMAIN pools : ~HasFree(pools[b])

\* No block has a free object: a block of twice the initial capacity is
\* appended and becomes the current one.  After objectPoolDestroy the
\* capacity is 0: the new block is empty and the call returns NULL.
AllocFromNewBlock ==
    LET b == Len(pools) + 1
        block == NewBlock(b, 2 * initialCapacity)
    IN  /\ AllExhausted
        /\ b <= MaxBlocks
        /\ currentPool' = b
        /\ \/ /\ HasFree(block)
              /\ pools' = Append(pools, Pop(block))
              /\ held' = held \union {Top(block)}
           \/ /\ ~HasFree(block)
              /\ pools' = Append(pools, block)
              /\ held' = held
        /\ UNCHANGED initialCapacity

\* objectPoolFree of an object the caller holds; the code returns it to its
\* block only while the block's free list has room.
Free(o) ==
    /\ o \in held
    /\ LET block == pools[o[1]]
       IN  pools' = IF Len(block.freeList) < block.capacity
                    THEN [pools EXCEPT ![o[1]] = Push(@, o)]
                    ELSE pools
    /\ held' = held \ {o}
    /\ UNCHANGED <<initialCapacity, currentPool>>

\* objectPoolDestroy frees every block and zeroes the structure.
Destroy ==
    /\ initialCapacity' = 0
    /\ pools' = <<>>
    /\ currentPool' = NoBlock
    /\ held' = {}

Next ==
    \/ \E c \in 1..MaxCapacity : InitPool(c) \/ InitPoolFails(c)
    \/ \E b \in DOMAIN pools : AllocFromBlock(b)
    \/ AllocFromNewBlock
    \/ \E o \in held : Free(o)
    \/ Destroy

Spec == Init /\ [][Next]_vars

-----------------------------------------------------------------------------
(* Properties.                                                              *)

\* The state has the shape the structures of radix_new.h give it, and the
\* current block is one of the list.
TypeOK ==
    /\ initialCapacity \in 0..MaxCapacity
    /\ pools \in Seq(ObjectPoolBlock)
    /\ Len(pools) <= MaxBlocks
    /\ currentPool \in 0..Len(pools)
    /\ held \subseteq Object

ObjectsOf(b, block) == {<<b, i>> : i \in 0..(block.capacity - 1)}
FreeObjects(block) == {block.freeList[i] : i \in 1..Len(block.freeList)}
HeldOf(b) == {o \in held : o[1] = b}

\* No object is on a free list twice.
NoDuplicates(block) ==
    \A i, j \in 1..Len(block.freeList) :
        block.freeList[i] = block.freeList[j] => i = j

\* Over every sequence of allocations, frees and growths each object of each
\* block is either held by exactly one caller or on its own block's free list
\* exactly once: nothing is handed out twice (objectPoolAlloc's range check
\* never fires) and nothing freed is lost.
EachObjectOnce ==
    /\ \A b \in DOMAIN pools :
          /\ NoDuplicates(pools[b])
          /\ FreeObjects(pools[b]) \intersect held = {}
          /\ FreeObjects(pools[b]) \union HeldOf(b) = ObjectsOf(b, pools[b])
    /\ \A o \in held : o[1] \in DOMAIN pools

\* A block's "used" counts its objects that callers hold, and with the free
\* list makes up its capacity, so objectPoolFree never finds the list full.
UsedIsExact ==
    \A b \in DOMAIN pools :
        /\ pools[b].used = Cardinality(HeldOf(b))
        /\ pools[b].used + Len(pools[b].freeList) = pools[b].capacity

\* The list of blocks grows only when callers hold every object there is,
\* whichever blocks they came from and in whatever order others were freed.
GrowsOnlyWhenAllHeld ==
    [][Len(pools') > Len(pools) =>
          \A b \in DOMAIN pools : ObjectsOf(b, pools[b]) \subseteq held]_vars

\* The objects that are on no free list.
Taken == UNION {ObjectsOf(b, pools[b]) \ FreeObjects(pools[b]) : b \in DOMAIN pools}

Allocator == INSTANCE ObjectAllocator WITH live <- Taken

\* The pool is an allocator: a step takes one object that was free, gives one
\* back, takes all back, or leaves the objects in use as they are.
ImplementsAllocator == Allocator!Spec
=============================================================================
