-------------------------- MODULE ObjectPoolProofs --------------------------
(***************************************************************************)
(* Proofs about ObjectPool for every MaxCapacity and MaxBlocks.            *)
(*                                                                         *)
(* The inductive invariant PoolOK states, block by block (BlockOK), that   *)
(* the free list is a duplicate-free list of exactly those objects of the  *)
(* block that no caller holds, and that "used" counts the others.  It is   *)
(* stated of a block and a set of held objects, so that one lemma per      *)
(* operation on a block (NewBlock, Pop, Push) and one for the blocks an    *)
(* operation does not touch (OtherBlock) carry the whole proof.            *)
(***************************************************************************)
EXTENDS ObjectPool, FiniteSetTheorems, TLAPS

HeldIn(b, H) == {o \in H : o[1] = b}

BlockOK(b, block, H) ==
    /\ block \in ObjectPoolBlock
    /\ block.capacity <= 2 * MaxCapacity
    /\ NoDuplicates(block)
    /\ FreeObjects(block) \intersect H = {}
    /\ FreeObjects(block) \union HeldIn(b, H) = ObjectsOf(b, block)
    /\ IsFiniteSet(HeldIn(b, H))
    /\ block.used = Cardinality(HeldIn(b, H))
    /\ block.used + Len(block.freeList) = block.capacity

\* The inductive invariant.
PoolOK ==
    /\ TypeOK
    /\ \A b \in 1..Len(pools) : BlockOK(b, pools[b], held)
    /\ \A o \in held : o[1] \in 1..Len(pools)

-----------------------------------------------------------------------------
(* The operations on one block.                                             *)

\* createNewPool: a new block none of whose objects is held is well formed.
LEMMA NewBlockOK ==
    ASSUME NEW b \in 1..MaxBlocks, NEW c \in 0..2 * MaxCapacity, NEW H,
           HeldIn(b, H) = {}
    PROVE  BlockOK(b, NewBlock(b, c), H)
<1> DEFINE block == NewBlock(b, c)
<1>1. /\ block.capacity = c /\ block.used = 0
      /\ block.freeList = [i \in 1..c |-> <<b, i - 1>>]
  BY DEF NewBlock
<1>2. /\ block.freeList \in Seq(Object) /\ Len(block.freeList) = c
      /\ \A i \in 1..c : block.freeList[i] = <<b, i - 1>>
  BY <1>1, MaxCapacityAssumption, MaxBlocksAssumption DEF Object
<1>3. block \in ObjectPoolBlock /\ block.capacity <= 2 * MaxCapacity
  BY <1>2, MaxCapacityAssumption DEF ObjectPoolBlock, NewBlock
<1>4. NoDuplicates(block)
  BY <1>2, MaxCapacityAssumption DEF NoDuplicates
<1>5. FreeObjects(block) = ObjectsOf(b, block)
  <2>1. FreeObjects(block) \subseteq ObjectsOf(b, block)
    BY <1>1, <1>2, MaxCapacityAssumption DEF FreeObjects, ObjectsOf
  <2>2. ASSUME NEW j \in 0..(c - 1) PROVE <<b, j>> \in FreeObjects(block)
    <3>1. j + 1 \in 1..c /\ (j + 1) - 1 = j
      BY MaxCapacityAssumption
    <3> QED BY <3>1, <1>2 DEF FreeObjects
  <2> QED BY <1>1, <2>1, <2>2 DEF ObjectsOf
<1>6. FreeObjects(block) \intersect H = {}
  BY <1>5 DEF ObjectsOf, HeldIn
<1>7. block.used = Cardinality({}) /\ IsFiniteSet({})
  BY <1>1, FS_EmptySet
<1>8. block.used + Len(block.freeList) = block.capacity
  BY <1>1, <1>2, MaxCapacityAssumption
<1> QED BY <1>3, <1>4, <1>5, <1>6, <1>7, <1>8 DEF BlockOK

\* objectPoolAlloc: the object popped was held by nobody, and the block is
\* well formed once the caller holds it.
LEMMA PopOK ==
    ASSUME NEW b \in 1..MaxBlocks, NEW block, NEW H,
           BlockOK(b, block, H), HasFree(block)
    PROVE  /\ Top(block) \in ObjectsOf(b, block)
           /\ Top(block) \in Object
           /\ Top(block)[1] = b
           /\ Top(block) \notin H
           /\ Top(block) \in FreeObjects(block)
           /\ FreeObjects(Pop(block)) = FreeObjects(block) \ {Top(block)}
           /\ ObjectsOf(b, Pop(block)) = ObjectsOf(b, block)
           /\ BlockOK(b, Pop(block), H \union {Top(block)})
<1> DEFINE n == Len(block.freeList)
           o == Top(block)
           popped == Pop(block)
           K == H \union {o}
<1>1. /\ block \in ObjectPoolBlock /\ block.freeList \in Seq(Object)
      /\ block.capacity \in Nat /\ block.used \in Nat /\ n \in Nat
  BY DEF BlockOK, ObjectPoolBlock
<1>2. n \in Nat \ {0} /\ n \in 1..n
  BY <1>1 DEF HasFree
<1>3. o = block.freeList[n] /\ o \in Object /\ o \in FreeObjects(block)
  BY <1>1, <1>2 DEF Top, FreeObjects
<1>4. o \in ObjectsOf(b, block) /\ o \notin H
  BY <1>3 DEF BlockOK
<1>5. o[1] = b
  BY <1>4 DEF ObjectsOf
<1>6. /\ popped.capacity = block.capacity /\ popped.used = block.used + 1
      /\ popped.freeList = SubSeq(block.freeList, 1, n - 1)
      /\ popped \in ObjectPoolBlock
  <2>1. SubSeq(block.freeList, 1, n - 1) \in Seq(Object)
    BY <1>1, <1>2
  <2>2. block.used + 1 \in Nat
    BY <1>1
  <2> DEFINE u == block.used + 1
             f == SubSeq(block.freeList, 1, n - 1)
  <2>3. popped = [block EXCEPT !.used = u, !.freeList = f]
    BY DEF Pop
  <2> HIDE DEF u, f
  <2>4. popped.capacity = block.capacity /\ popped.used = u /\ popped.freeList = f
    BY <1>1, <2>3 DEF ObjectPoolBlock
  <2>5. popped \in ObjectPoolBlock
    BY <1>1, <2>1, <2>2, <2>3 DEF ObjectPoolBlock, u, f
  <2> QED BY <2>4, <2>5 DEF u, f
<1>7. /\ popped.freeList \in Seq(Object) /\ Len(popped.freeList) = n - 1
      /\ \A i \in 1..(n - 1) : popped.freeList[i] = block.freeList[i]
  BY <1>1, <1>2, <1>6
<1>8. NoDuplicates(popped)
  BY <1>2, <1>7 DEF BlockOK, NoDuplicates
<1>9. FreeObjects(popped) = FreeObjects(block) \ {o}
  <2>1. \A i \in 1..(n - 1) : block.freeList[i] # o
    BY <1>2, <1>3 DEF BlockOK, NoDuplicates
  <2>2. FreeObjects(popped) \subseteq FreeObjects(block) \ {o}
    BY <1>2, <1>7, <2>1 DEF FreeObjects
  <2>3. FreeObjects(block) \ {o} \subseteq FreeObjects(popped)
    <3> SUFFICES ASSUME NEW i \in 1..n, block.freeList[i] # o
                 PROVE  block.freeList[i] \in FreeObjects(popped)
      BY DEF FreeObjects
    <3>1. i \in 1..(n - 1)
      BY <1>2, <1>3
    <3> QED BY <3>1, <1>7 DEF FreeObjects
  <2> QED BY <2>2, <2>3
<1>10. ObjectsOf(b, popped) = ObjectsOf(b, block)
  BY <1>6 DEF ObjectsOf
<1>11. HeldIn(b, K) = HeldIn(b, H) \union {o} /\ o \notin HeldIn(b, H)
  BY <1>4, <1>5 DEF HeldIn
<1>12. /\ FreeObjects(popped) \intersect K = {}
       /\ FreeObjects(popped) \union HeldIn(b, K) = ObjectsOf(b, popped)
  BY <1>3, <1>9, <1>10, <1>11 DEF BlockOK
<1>13. /\ IsFiniteSet(HeldIn(b, K))
       /\ Cardinality(HeldIn(b, K)) = Cardinality(HeldIn(b, H)) + 1
  BY <1>11, FS_AddElement DEF BlockOK
<1>14. /\ popped.used = Cardinality(HeldIn(b, K))
       /\ popped.used + Len(popped.freeList) = popped.capacity
  BY <1>1, <1>2, <1>6, <1>7, <1>13 DEF BlockOK
<1>15. BlockOK(b, popped, K)
  BY <1>6, <1>8, <1>12, <1>13, <1>14 DEF BlockOK
<1> QED BY <1>3, <1>4, <1>5, <1>9, <1>10, <1>15

\* objectPoolFree: a held object's block has room for it, and is well formed
\* once the object is on its free list.
LEMMA PushOK ==
    ASSUME NEW b \in 1..MaxBlocks, NEW block, NEW H,
           BlockOK(b, block, H), NEW o \in H, o[1] = b, o \in Object
    PROVE  /\ Len(block.freeList) < block.capacity
           /\ o \notin FreeObjects(block)
           /\ o \in ObjectsOf(b, block)
           /\ FreeObjects(Push(block, o)) = FreeObjects(block) \union {o}
           /\ ObjectsOf(b, Push(block, o)) = ObjectsOf(b, block)
           /\ BlockOK(b, Push(block, o), H \ {o})
<1> DEFINE n == Len(block.freeList)
           pushed == Push(block, o)
           K == H \ {o}
<1>1. /\ block \in ObjectPoolBlock /\ block.freeList \in Seq(Object)
      /\ block.capacity \in Nat /\ block.used \in Nat /\ n \in Nat
  BY DEF BlockOK, ObjectPoolBlock
<1>2. o \in HeldIn(b, H) /\ HeldIn(b, K) = HeldIn(b, H) \ {o}
  BY DEF HeldIn
<1>3. Cardinality(HeldIn(b, H)) # 0
  BY <1>2, FS_EmptySet DEF BlockOK
<1>4. /\ IsFiniteSet(HeldIn(b, K))
      /\ Cardinality(HeldIn(b, K)) = Cardinality(HeldIn(b, H)) - 1
  <2>1. IsFiniteSet(HeldIn(b, H))
    BY DEF BlockOK
  <2>2. /\ IsFiniteSet(HeldIn(b, H) \ {o})
        /\ Cardinality(HeldIn(b, H) \ {o}) = Cardinality(HeldIn(b, H)) - 1
    BY <1>2, <2>1, FS_RemoveElement
  <2> QED BY <1>2, <2>2
<1>5. n < block.capacity /\ block.used \in Nat \ {0}
  BY <1>1, <1>3 DEF BlockOK
<1>6. o \notin FreeObjects(block) /\ o \in ObjectsOf(b, block)
  BY <1>2 DEF BlockOK
<1>7. /\ pushed.capacity = block.capacity /\ pushed.used = block.used - 1
      /\ pushed.freeList = Append(block.freeList, o)
      /\ pushed \in ObjectPoolBlock
  <2>1. Append(block.freeList, o) \in Seq(Object)
    BY <1>1
  <2>2. block.used - 1 \in Nat
    BY <1>5
  <2> DEFINE u == block.used - 1
             f == Append(block.freeList, o)
  <2>3. pushed = [block EXCEPT !.used = u, !.freeList = f]
    BY DEF Push
  <2> HIDE DEF u, f
  <2>4. pushed.capacity = block.capacity /\ pushed.used = u /\ pushed.freeList = f
    BY <1>1, <2>3 DEF ObjectPoolBlock
  <2>5. pushed \in ObjectPoolBlock
    BY <1>1, <2>1, <2>2, <2>3 DEF ObjectPoolBlock, u, f
  <2> QED BY <2>4, <2>5 DEF u, f
<1>8. /\ Len(pushed.freeList) = n + 1 /\ pushed.freeList[n + 1] = o
      /\ \A i \in 1..n : pushed.freeList[i] = block.freeList[i]
  BY <1>1, <1>7
<1>9. NoDuplicates(pushed)
  <2> SUFFICES ASSUME NEW i \in 1..(n + 1), NEW j \in 1..(n + 1),
                      pushed.freeList[i] = pushed.freeList[j]
               PROVE  i = j
    BY <1>8 DEF NoDuplicates
  <2>1. \A k \in 1..n : pushed.freeList[k] # o
    BY <1>6, <1>8 DEF FreeObjects
  <2>2. (i \in 1..n \/ i = n + 1) /\ (j \in 1..n \/ j = n + 1)
    BY <1>1
  <2> QED BY <1>8, <2>1, <2>2 DEF BlockOK, NoDuplicates
<1>10. FreeObjects(pushed) = FreeObjects(block) \union {o}
  <2>1. 1..(n + 1) = 1..n \union {n + 1}
    BY <1>1
  <2> QED BY <1>8, <2>1 DEF FreeObjects
<1>11. ObjectsOf(b, pushed) = ObjectsOf(b, block)
  BY <1>7 DEF ObjectsOf
<1>12. /\ FreeObjects(pushed) \intersect K = {}
       /\ FreeObjects(pushed) \union HeldIn(b, K) = ObjectsOf(b, pushed)
  BY <1>2, <1>10, <1>11 DEF BlockOK
<1>13. /\ pushed.used = Cardinality(HeldIn(b, K))
       /\ pushed.used + Len(pushed.freeList) = pushed.capacity
  BY <1>1, <1>4, <1>7, <1>8 DEF BlockOK
<1>14. BlockOK(b, pushed, K)
  BY <1>4, <1>7, <1>9, <1>12, <1>13 DEF BlockOK
<1> QED BY <1>5, <1>6, <1>10, <1>11, <1>14

\* A block is not disturbed by what happens to the objects of other blocks.
LEMMA OtherBlock ==
    ASSUME NEW b, NEW block, NEW H, NEW K,
           BlockOK(b, block, H), HeldIn(b, K) = HeldIn(b, H)
    PROVE  BlockOK(b, block, K)
<1>1. \A o \in FreeObjects(block) : o[1] = b
  BY DEF BlockOK, ObjectsOf
<1>2. FreeObjects(block) \intersect K = {}
  BY <1>1 DEF BlockOK, HeldIn
<1> QED BY <1>2 DEF BlockOK
-----------------------------------------------------------------------------
(* The invariant of the pool.                                               *)

\* The zeroed structure satisfies the invariant.
LEMMA InitOK == Init => PoolOK
<1> SUFFICES ASSUME Init PROVE PoolOK
  OBVIOUS
<1>1. TypeOK
  BY MaxCapacityAssumption, MaxBlocksAssumption DEF Init, TypeOK, NoBlock, Object
<1> QED BY <1>1 DEF Init, PoolOK

\* An operation that replaces block b by one that is well formed with the new
\* set of held objects, and changes no holding of another block's objects,
\* preserves the per-block part of the invariant.
LEMMA ReplaceBlockOK ==
    ASSUME PoolOK, NEW b \in 1..Len(pools), NEW block, NEW H,
           BlockOK(b, block, H),
           \A c \in 1..Len(pools) : c # b => HeldIn(c, H) = HeldIn(c, held)
    PROVE  LET newPools == [pools EXCEPT ![b] = block]
           IN  /\ newPools \in Seq(ObjectPoolBlock)
               /\ Len(newPools) = Len(pools)
               /\ newPools[b] = block
               /\ \A c \in 1..Len(pools) : c # b => newPools[c] = pools[c]
               /\ \A c \in 1..Len(pools) : BlockOK(c, newPools[c], H)
<1> DEFINE newPools == [pools EXCEPT ![b] = block]
<1>1. pools \in Seq(ObjectPoolBlock) /\ block \in ObjectPoolBlock
  BY DEF PoolOK, TypeOK, BlockOK
<1>2. /\ newPools \in Seq(ObjectPoolBlock) /\ Len(newPools) = Len(pools)
      /\ newPools[b] = block
      /\ \A c \in 1..Len(pools) : c # b => newPools[c] = pools[c]
  BY <1>1
<1>3. ASSUME NEW c \in 1..Len(pools) PROVE BlockOK(c, newPools[c], H)
  <2>1. CASE c = b
    BY <1>2, <2>1
  <2>2. CASE c # b
    <3>1. BlockOK(c, pools[c], held) /\ HeldIn(c, H) = HeldIn(c, held)
      BY <2>2 DEF PoolOK
    <3> QED BY <1>2, <2>2, <3>1, OtherBlock
  <2> QED BY <2>1, <2>2
<1> QED BY <1>2, <1>3

\* Every operation preserves the invariant.
LEMMA NextOK == PoolOK /\ [Next]_vars => PoolOK'
<1> SUFFICES ASSUME PoolOK, [Next]_vars PROVE PoolOK'
  OBVIOUS
<1> USE MaxCapacityAssumption, MaxBlocksAssumption
<1>0. /\ initialCapacity \in 0..MaxCapacity
      /\ pools \in Seq(ObjectPoolBlock) /\ Len(pools) \in Nat
      /\ Len(pools) <= MaxBlocks
      /\ currentPool \in 0..Len(pools) /\ held \subseteq Object
      /\ DOMAIN pools = 1..Len(pools)
  BY DEF PoolOK, TypeOK
<1>1. ASSUME NEW c \in 1..MaxCapacity, InitPool(c) PROVE PoolOK'
  <2>1. held = {} /\ held' = {} /\ c \in 0..2 * MaxCapacity /\ 1 \in 1..MaxBlocks
    BY <1>0, <1>1 DEF InitPool, PoolOK
  <2>2. BlockOK(1, NewBlock(1, c), {})
    BY <2>1, NewBlockOK DEF HeldIn
  <2>3. /\ pools' = <<NewBlock(1, c)>> /\ Len(pools') = 1
        /\ pools'[1] = NewBlock(1, c) /\ pools' \in Seq(ObjectPoolBlock)
    BY <1>1, <2>2 DEF InitPool, BlockOK
  <2>4. TypeOK'
    BY <1>0, <1>1, <2>1, <2>3 DEF InitPool, TypeOK
  <2> QED BY <2>1, <2>2, <2>3, <2>4 DEF PoolOK
<1>2. ASSUME NEW c \in 1..MaxCapacity, InitPoolFails(c) PROVE PoolOK'
  <2>1. TypeOK'
    BY <1>0, <1>2 DEF InitPoolFails, TypeOK, NoBlock
  <2> QED BY <1>2, <2>1 DEF InitPoolFails, PoolOK
<1>3. ASSUME NEW b \in DOMAIN pools, AllocFromBlock(b) PROVE PoolOK'
  <2> DEFINE o == Top(pools[b])
  <2>1. b \in 1..Len(pools) /\ b \in 1..MaxBlocks /\ HasFree(pools[b])
    BY <1>0, <1>3 DEF AllocFromBlock, PoolToUse
  <2>2. /\ pools' = [pools EXCEPT ![b] = Pop(pools[b])]
        /\ currentPool' = b /\ held' = held \union {o}
        /\ initialCapacity' = initialCapacity
    BY <1>3 DEF AllocFromBlock
  <2>3. BlockOK(b, pools[b], held)
    BY <2>1 DEF PoolOK
  <2>4. o \in Object /\ o[1] = b /\ BlockOK(b, Pop(pools[b]), held \union {o})
    BY <2>1, <2>3, PopOK
  <2>5. \A c \in 1..Len(pools) : c # b => HeldIn(c, held \union {o}) = HeldIn(c, held)
    BY <2>4 DEF HeldIn
  <2>6. /\ pools' \in Seq(ObjectPoolBlock) /\ Len(pools') = Len(pools)
        /\ \A c \in 1..Len(pools) : BlockOK(c, pools'[c], held')
    <3> DEFINE block == Pop(pools[b])
               H == held \union {o}
    <3>1. /\ BlockOK(b, block, H) /\ pools' = [pools EXCEPT ![b] = block]
          /\ \A c \in 1..Len(pools) : c # b => HeldIn(c, H) = HeldIn(c, held)
          /\ held' = H
      BY <2>1, <2>2, <2>4, <2>5
    <3> HIDE DEF block, H
    <3> QED BY <2>1, <3>1, ReplaceBlockOK
  <2>7. TypeOK'
    BY <1>0, <2>1, <2>2, <2>4, <2>6 DEF TypeOK
  <2> QED BY <2>1, <2>2, <2>4, <2>6, <2>7 DEF PoolOK
<1>4. ASSUME AllocFromNewBlock PROVE PoolOK'
  <2> DEFINE b == Len(pools) + 1
             block == NewBlock(b, 2 * initialCapacity)
  <2>1. b \in 1..MaxBlocks /\ 2 * initialCapacity \in 0..2 * MaxCapacity
    BY <1>0, <1>4 DEF AllocFromNewBlock
  <2>2. HeldIn(b, held) = {}
    BY <1>0 DEF PoolOK, HeldIn
  <2>3. BlockOK(b, block, held)
    BY <2>1, <2>2, NewBlockOK
  <2> HIDE DEF block
  <2>4. PICK newBlock :
           /\ pools' = Append(pools, newBlock)
           /\ BlockOK(b, newBlock, held') /\ held' \subseteq Object
           /\ \A c \in 1..Len(pools) : HeldIn(c, held') = HeldIn(c, held)
           /\ \A o \in held' : o \in held \/ o[1] = b
    <3>1. CASE /\ HasFree(block) /\ pools' = Append(pools, Pop(block))
               /\ held' = held \union {Top(block)}
      <4>1. /\ Top(block) \in Object /\ Top(block)[1] = b
            /\ BlockOK(b, Pop(block), held \union {Top(block)})
        BY <2>1, <2>3, <3>1, PopOK
      <4>2. \A c \in 1..Len(pools) : HeldIn(c, held') = HeldIn(c, held)
        BY <1>0, <3>1, <4>1 DEF HeldIn
      <4> QED BY <1>0, <3>1, <4>1, <4>2
    <3>2. CASE ~HasFree(block) /\ pools' = Append(pools, block) /\ held' = held
      BY <1>0, <2>3, <3>2
    <3> QED BY <1>4, <3>1, <3>2 DEF AllocFromNewBlock, block
  <2>5. /\ pools' \in Seq(ObjectPoolBlock) /\ Len(pools') = b
        /\ pools'[b] = newBlock
        /\ \A c \in 1..Len(pools) : pools'[c] = pools[c]
    BY <1>0, <2>4 DEF BlockOK
  <2>6. ASSUME NEW c \in 1..Len(pools') PROVE BlockOK(c, pools'[c], held')
    <3>1. CASE c = b
      BY <2>4, <2>5, <3>1
    <3>2. CASE c # b
      <4>1. c \in 1..Len(pools)
        BY <1>0, <2>5, <3>2
      <4>2. BlockOK(c, pools[c], held)
        BY <4>1 DEF PoolOK
      <4> QED BY <2>4, <2>5, <4>1, <4>2, OtherBlock
    <3> QED BY <3>1, <3>2
  <2>7. currentPool' = b /\ initialCapacity' = initialCapacity
    BY <1>4 DEF AllocFromNewBlock
  <2>8. TypeOK'
    BY <1>0, <2>1, <2>4, <2>5, <2>7 DEF TypeOK
  <2>9. \A o \in held' : o[1] \in 1..Len(pools')
    BY <1>0, <2>4, <2>5 DEF PoolOK
  <2> QED BY <2>6, <2>8, <2>9 DEF PoolOK
<1>5. ASSUME NEW o \in held, Free(o) PROVE PoolOK'
  <2> DEFINE b == o[1]
  <2>1. b \in 1..Len(pools) /\ b \in 1..MaxBlocks /\ o \in Object
    BY <1>0 DEF PoolOK
  <2>2. BlockOK(b, pools[b], held)
    BY <2>1 DEF PoolOK
  <2>3. /\ Len(pools[b].freeList) < pools[b].capacity
        /\ BlockOK(b, Push(pools[b], o), held \ {o})
    BY <2>1, <2>2, PushOK
  <2>4. /\ pools' = [pools EXCEPT ![b] = Push(pools[b], o)]
        /\ held' = held \ {o}
        /\ currentPool' = currentPool /\ initialCapacity' = initialCapacity
    BY <1>5, <2>3 DEF Free
  <2>5. \A c \in 1..Len(pools) : c # b => HeldIn(c, held \ {o}) = HeldIn(c, held)
    BY DEF HeldIn
  <2>6. /\ pools' \in Seq(ObjectPoolBlock) /\ Len(pools') = Len(pools)
        /\ \A c \in 1..Len(pools) : BlockOK(c, pools'[c], held')
    <3> DEFINE block == Push(pools[b], o)
               H == held \ {o}
    <3>1. /\ BlockOK(b, block, H) /\ pools' = [pools EXCEPT ![b] = block]
          /\ \A c \in 1..Len(pools) : c # b => HeldIn(c, H) = HeldIn(c, held)
          /\ held' = H
      BY <2>1, <2>3, <2>4, <2>5
    <3> HIDE DEF block, H
    <3> QED BY <2>1, <3>1, ReplaceBlockOK
  <2>7. TypeOK'
    BY <1>0, <2>4, <2>6 DEF TypeOK
  <2> QED BY <2>4, <2>6, <2>7 DEF PoolOK
<1>6. ASSUME Destroy PROVE PoolOK'
  <2>1. TypeOK'
    BY <1>6 DEF Destroy, TypeOK, NoBlock
  <2> QED BY <1>6, <2>1 DEF Destroy, PoolOK
<1>7. ASSUME UNCHANGED vars PROVE PoolOK'
  BY <1>7 DEF vars, PoolOK, TypeOK
<1> QED BY <1>1, <1>2, <1>3, <1>4, <1>5, <1>6, <1>7 DEF Next

\* The invariant holds in every reachable state.
THEOREM PoolInvariant == Spec => []PoolOK
  BY InitOK, NextOK, PTL DEF Spec

-----------------------------------------------------------------------------
(* What the invariant gives.                                                *)

LEMMA InvariantGivesProperties == PoolOK => TypeOK /\ EachObjectOnce /\ UsedIsExact
<1> SUFFICES ASSUME PoolOK PROVE TypeOK /\ EachObjectOnce /\ UsedIsExact
  OBVIOUS
<1>1. TypeOK
  BY DEF PoolOK
<1>2. DOMAIN pools = 1..Len(pools)
  BY <1>1 DEF TypeOK
<1>3. \A b : HeldOf(b) = HeldIn(b, held)
  BY DEF HeldOf, HeldIn
<1>4. EachObjectOnce
  BY <1>2, <1>3 DEF PoolOK, BlockOK, EachObjectOnce
<1>5. UsedIsExact
  BY <1>2, <1>3 DEF PoolOK, BlockOK, UsedIsExact
<1> QED BY <1>1, <1>4, <1>5

\* The pool's structures keep their shape, for every heap and capacity.
THEOREM TypeCorrect == Spec => []TypeOK
  BY PoolInvariant, InvariantGivesProperties, PTL

\* objectPoolAlloc never hands out an object twice, objectPoolFree never loses
\* one.
THEOREM ObjectsNeverSharedOrLost == Spec => []EachObjectOnce
  BY PoolInvariant, InvariantGivesProperties, PTL

\* The counters of a block are exact.
THEOREM UsedCountsHeld == Spec => []UsedIsExact
  BY PoolInvariant, InvariantGivesProperties, PTL

\* objectPoolAlloc appends a block only when every object of every block is
\* held by a caller.
THEOREM NoNeedlessGrowth == Spec => GrowsOnlyWhenAllHeld
<1> DEFINE Exhausted == Len(pools') > Len(pools) =>
                \A b \in DOMAIN pools : ObjectsOf(b, pools[b]) \subseteq held
<1>1. PoolOK /\ [Next]_vars => [Exhausted]_vars
  <2> SUFFICES ASSUME PoolOK, Next, Len(pools') > Len(pools),
                      NEW b \in DOMAIN pools
               PROVE  ObjectsOf(b, pools[b]) \subseteq held
    OBVIOUS
  <2>1. pools \in Seq(ObjectPoolBlock) /\ DOMAIN pools = 1..Len(pools)
    BY DEF PoolOK, TypeOK
  <2>2. CASE AllocFromNewBlock
    <3>1. FreeObjects(pools[b]) = {}
      BY <2>1, <2>2 DEF AllocFromNewBlock, AllExhausted, HasFree, FreeObjects
    <3>2. HeldIn(b, held) = ObjectsOf(b, pools[b])
      BY <2>1, <3>1 DEF PoolOK, BlockOK
    <3> QED BY <3>2 DEF HeldIn
  <2>3. CASE \E c \in 1..MaxCapacity : InitPool(c) \/ InitPoolFails(c)
    BY <2>1, <2>3 DEF InitPool, InitPoolFails
  <2>4. CASE \E c \in DOMAIN pools : AllocFromBlock(c)
    BY <2>1, <2>4 DEF AllocFromBlock
  <2>5. CASE \E o \in held : Free(o)
    BY <2>1, <2>5 DEF Free
  <2>6. CASE Destroy
    BY <2>1, <2>6 DEF Destroy
  <2> QED BY <2>2, <2>3, <2>4, <2>5, <2>6 DEF Next
<1> QED BY <1>1, PoolInvariant, PTL DEF Spec, GrowsOnlyWhenAllHeld

-----------------------------------------------------------------------------
(* The pool implements ObjectAllocator.                                     *)

\* The objects on no free list are the ones callers hold.
LEMMA TakenIsHeld == PoolOK => Taken = held
<1> SUFFICES ASSUME PoolOK PROVE Taken = held
  OBVIOUS
<1>1. DOMAIN pools = 1..Len(pools)
  BY DEF PoolOK, TypeOK
<1>2. ASSUME NEW b \in 1..Len(pools)
      PROVE  ObjectsOf(b, pools[b]) \ FreeObjects(pools[b]) = HeldIn(b, held)
  <2>1. /\ FreeObjects(pools[b]) \intersect held = {}
        /\ FreeObjects(pools[b]) \union HeldIn(b, held) = ObjectsOf(b, pools[b])
    BY DEF PoolOK, BlockOK
  <2> QED BY <2>1 DEF HeldIn
<1>3. Taken = UNION {HeldIn(b, held) : b \in 1..Len(pools)}
  BY <1>1, <1>2 DEF Taken
<1>4. \A o \in held : o[1] \in 1..Len(pools)
  BY DEF PoolOK
<1> QED BY <1>3, <1>4 DEF HeldIn

\* The pool refines the abstract allocator: every call takes one object that
\* was not in use, gives one back, takes all back, or changes nothing.
THEOREM PoolImplementsAllocator == Spec => ImplementsAllocator
<1>1. Init => Allocator!Init
  BY DEF Init, Allocator!Init, Taken
<1>2. (PoolOK => Taken = held)'
  BY TakenIsHeld, PTL
<1>3. PoolOK /\ PoolOK' /\ [Next]_vars => [Allocator!Next]_Taken
  <2> SUFFICES ASSUME PoolOK, PoolOK', [Next]_vars
               PROVE  Allocator!Next \/ Taken' = Taken
    OBVIOUS
  <2>1. Taken = held
    BY TakenIsHeld
  <2>2. Taken' = held'
    BY <1>2
  <2>3. held \subseteq Object /\ held' \subseteq Object
    BY DEF PoolOK, TypeOK
  <2>4. ASSUME NEW o, o \notin held, held' = held \union {o}
        PROVE  Allocator!Next
    BY <2>1, <2>2, <2>3, <2>4 DEF Allocator!Next, Allocator!Alloc
  <2>5. CASE \E b \in DOMAIN pools : AllocFromBlock(b)
    <3>1. PICK b \in DOMAIN pools : AllocFromBlock(b)
      BY <2>5
    <3>2. b \in 1..Len(pools) /\ b \in 1..MaxBlocks /\ BlockOK(b, pools[b], held)
      BY MaxBlocksAssumption DEF PoolOK, TypeOK
    <3>3. Top(pools[b]) \notin held
      BY <3>1, <3>2, PopOK DEF AllocFromBlock, PoolToUse
    <3> QED BY <2>4, <3>1, <3>3 DEF AllocFromBlock
  <2>6. CASE AllocFromNewBlock
    <3> DEFINE b == Len(pools) + 1
               block == NewBlock(b, 2 * initialCapacity)
    <3>1. CASE HasFree(block) /\ held' = held \union {Top(block)}
      <4>1. /\ b \in 1..MaxBlocks /\ 2 * initialCapacity \in 0..2 * MaxCapacity
            /\ HeldIn(b, held) = {}
        BY <2>6, MaxBlocksAssumption, MaxCapacityAssumption
        DEF AllocFromNewBlock, PoolOK, TypeOK, HeldIn
      <4>2. BlockOK(b, block, held)
        BY <4>1, NewBlockOK
      <4>3. Top(block) \notin held
        BY <3>1, <4>1, <4>2, PopOK
      <4> QED BY <2>4, <3>1, <4>3
    <3>2. CASE held' = held
      BY <2>1, <2>2, <3>2
    <3> QED BY <2>6, <3>1, <3>2 DEF AllocFromNewBlock
  <2>7. CASE \E o \in held : Free(o)
    BY <2>1, <2>2, <2>3, <2>7 DEF Free, Allocator!Next, Allocator!Free
  <2>8. CASE Destroy
    BY <2>2, <2>8 DEF Destroy, Allocator!Next, Allocator!Destroy
  <2>9. CASE \/ \E c \in 1..MaxCapacity : InitPool(c) \/ InitPoolFails(c)
             \/ UNCHANGED vars
    BY <2>1, <2>2, <2>9 DEF InitPool, InitPoolFails, vars
  <2> QED BY <2>5, <2>6, <2>7, <2>8, <2>9 DEF Next
<1> QED BY <1>1, <1>3, PoolInvariant, PTL DEF Spec, ImplementsAllocator, Allocator!Spec
=============================================================================
