--------------------------- MODULE BitScanProofs ---------------------------
(***************************************************************************)
(* Proofs about BitScan for every 64-bit word, every number of words and   *)
(* every range: the mask arithmetic of getFirstSetBit finds the lowest set *)
(* bit, and the loop of getFirstSetBitInRange the lowest one of the range. *)
(***************************************************************************)
EXTENDS BitScan, WellFoundedInduction, TLAPS

\* The inductive invariant: the words before idx hold no set bit of the range.
NoneBefore ==
    /\ startBit \div 64 <= idx
    /\ \A i \in startBit..endBit : i \div 64 < idx => (i % 64) \notin vals[i \div 64]

ScanOK == TypeOK /\ (pc = "scan" => NoneBefore) /\ ReturnsFirst

-----------------------------------------------------------------------------
\* A non-empty set of naturals has a least element.
LEMMA NatMin ==
    ASSUME NEW S \in SUBSET Nat, S # {}
    PROVE  \E m \in S : \A i \in S : m <= i
<1> DEFINE R == OpToRel(<, Nat)
<1>1. IsWellFoundedOn(R, Nat)
  BY NatLessThanWellFounded
<1>2. R = {x \in Nat \X Nat : x[1] < x[2]}
  BY Zenon DEF OpToRel
<1> HIDE DEF R
<1>3. PICK m \in S : \A y \in S : ~(<<y, m>> \in R)
  BY <1>1, WFMin, Zenon
<1>4. ASSUME NEW y \in S PROVE ~(y < m)
  <2>1. <<y, m>> \in Nat \X Nat /\ <<y, m>>[1] = y /\ <<y, m>>[2] = m
    OBVIOUS
  <2>2. ~(<<y, m>>[1] < <<y, m>>[2])
    BY <1>2, <1>3, <2>1, Zenon
  <2> QED BY <2>1, <2>2
<1>5. \A y \in S : y \in Nat
  OBVIOUS
<1> QED BY <1>4, <1>5

\* val & -val leaves the lowest set bit alone.
LEMMA IsolateLowest ==
    ASSUME NEW val \in SUBSET Bit, NEW m \in val, \A i \in val : m <= i
    PROVE  val \intersect Negate(val) = {m}
  BY DEF Bit, Negate

\* The masks count a single bit down to its index.
LEMMA MasksGiveIndex ==
    ASSUME NEW val \in SUBSET Bit, NEW m \in Bit,
           val \intersect Negate(val) = {m}
    PROVE  getFirstSetBit(val) = m
<1> DEFINE less(n) == IF (m \div n) % 2 = 0 THEN n ELSE 0
<1>1. \A S : ({m} \intersect S # {}) <=> m \in S
  OBVIOUS
<1>2. getFirstSetBit(val) = 63 - less(32) - less(16) - less(8) - less(4) - less(2) - less(1)
  BY <1>1 DEF getFirstSetBit, Mask, Bit
<1> QED BY <1>2 DEF Bit

\* getFirstSetBit of a word with no bit set is 64.
LEMMA NoBitSet == getFirstSetBit({}) = 64
  BY DEF getFirstSetBit

\* getFirstSetBit returns the lowest set bit of any word, 64 for zero.
THEOREM FirstSetBitCorrect ==
    ASSUME NEW val \in SUBSET Bit
    PROVE  IF val = {} THEN getFirstSetBit(val) = 64
           ELSE /\ getFirstSetBit(val) \in val
                /\ \A i \in val : getFirstSetBit(val) <= i
<1>1. CASE val = {}
  BY <1>1, NoBitSet
<1>2. CASE val # {}
  <2>1. val \in SUBSET Nat
    BY DEF Bit
  <2>2. PICK m \in val : \A i \in val : m <= i
    BY <1>2, <2>1, NatMin
  <2>3. getFirstSetBit(val) = m
    BY <2>2, IsolateLowest, MasksGiveIndex
  <2> QED BY <1>2, <2>2, <2>3
<1> QED BY <1>1, <1>2

-----------------------------------------------------------------------------
(* The loop.                                                                *)

\* A bit of the array and its place: word i \div 64, bit i % 64.
LEMMA BitPlace ==
    ASSUME NEW i \in Nat
    PROVE  /\ i \div 64 \in Nat /\ i % 64 \in Bit
           /\ i = 64 * (i \div 64) + (i % 64)
  BY DEF Bit

LEMMA BitPlaceUnique ==
    ASSUME NEW w \in Nat, NEW b \in Bit
    PROVE  (b + 64 * w) \div 64 = w /\ (b + 64 * w) % 64 = b
  BY DEF Bit

\* The masked word holds exactly the set bits of the range in that word.
LEMMA MaskedWord ==
    ASSUME TypeOK, NEW w \in Nat, startBit \div 64 <= w, w <= endBit \div 64,
           NEW b \in Bit
    PROVE  b \in vals[w] \intersect RangeMask(w) <=> b + 64 * w \in SetInRange
<1>1. startBit \in Nat /\ endBit \in Nat
  BY WordsAssumption DEF TypeOK
<1>2. b \in RangeMask(w) <=> b + 64 * w \in startBit..endBit
  BY <1>1, BitPlace DEF RangeMask, Bit
<1>3. (b + 64 * w) \div 64 = w /\ (b + 64 * w) % 64 = b
  BY BitPlaceUnique
<1> QED BY <1>2, <1>3 DEF SetInRange

LEMMA ScanInit == Init => ScanOK
<1> SUFFICES ASSUME Init PROVE ScanOK
  OBVIOUS
<1>1. /\ startBit \in 0..(64 * Words) /\ endBit \in 0..(64 * Words - 1)
      /\ startBit <= endBit + 1 /\ idx = startBit \div 64
      /\ pc = "scan" /\ retval = 0
  BY RangeAssumption DEF Init
<1>2. vals \in [0..(Words - 1) -> SUBSET Bit]
  BY SamplesAssumption DEF Init
<1>3. idx \in Nat /\ (idx <= endBit \div 64 => idx \in 0..(Words - 1))
  BY <1>1, WordsAssumption
<1>4. TypeOK
  BY <1>1, <1>2, <1>3 DEF TypeOK
<1>5. NoneBefore
  BY <1>1, WordsAssumption DEF NoneBefore
<1> QED BY <1>1, <1>4, <1>5 DEF ScanOK, ReturnsFirst

LEMMA ScanNext == ScanOK /\ [Next]_vars => ScanOK'
<1> SUFFICES ASSUME ScanOK, [Next]_vars PROVE ScanOK'
  OBVIOUS
<1>0. /\ TypeOK /\ startBit \in Nat /\ endBit \in Nat /\ idx \in Nat
      /\ \A i \in startBit..endBit : i \in Nat
  BY WordsAssumption DEF ScanOK, TypeOK
<1>1. CASE ScanWord
  <2> DEFINE word == vals[idx] \intersect RangeMask(idx)
             first == getFirstSetBit(word)
  <2>1. /\ NoneBefore /\ idx <= endBit \div 64 /\ startBit \div 64 <= idx
        /\ UNCHANGED <<vals, startBit, endBit>>
    BY <1>1 DEF ScanWord, ScanOK, NoneBefore
  <2>2. word \in SUBSET Bit
    BY DEF RangeMask
  <2>3. \A b \in Bit : b \in word <=> b + 64 * idx \in SetInRange
    BY <1>0, <2>1, MaskedWord
  <2>a. IF word = {} THEN first = 64
        ELSE first \in word /\ first \in Bit /\ \A b \in word : first <= b
    <3> HIDE DEF word
    <3> QED BY <2>2, FirstSetBitCorrect
  <2>b. \/ /\ first < 64 /\ pc' = "done" /\ retval' = first + 64 * idx
           /\ idx' = idx
        \/ first >= 64 /\ idx' = idx + 1 /\ pc' = "scan" /\ UNCHANGED retval
    BY <1>1 DEF ScanWord
  <2> HIDE DEF word, first
  <2>4. CASE first < 64 /\ pc' = "done" /\ retval' = first + 64 * idx /\ idx' = idx
    <3>1. /\ first \in word /\ first \in Bit
          /\ \A b \in word : first <= b
      BY <2>a, <2>4
    <3>2. retval' \in SetInRange
      BY <2>3, <2>4, <3>1
    <3>3. ASSUME NEW i \in SetInRange PROVE retval' <= i
      <4>1. /\ i \in startBit..endBit /\ i \in Nat
            /\ i % 64 \in vals[i \div 64]
        BY <1>0 DEF SetInRange
      <4>2. ~(i \div 64 < idx)
        BY <2>1, <4>1 DEF NoneBefore
      <4> DEFINE w == i \div 64
                 b == i % 64
      <4>3. w \in Nat /\ b \in Bit /\ i = 64 * w + b
        BY <4>1, BitPlace
      <4> HIDE DEF w, b
      <4>4. CASE w = idx
        <5>1. b + 64 * idx = i
          BY <1>0, <4>3, <4>4 DEF Bit
        <5>2. b \in word
          BY <2>3, <4>3, <5>1
        <5> QED BY <1>0, <2>4, <3>1, <4>3, <4>4, <5>2 DEF Bit
      <4>5. CASE w > idx
        BY <1>0, <2>4, <3>1, <4>3, <4>5 DEF Bit
      <4> QED BY <1>0, <4>2, <4>3, <4>4, <4>5 DEF w
    <3>4. TypeOK'
      <4>1. first + 64 * idx \in Nat
        BY <1>0, <3>1 DEF Bit
      <4> QED BY <1>0, <2>1, <2>4, <4>1 DEF TypeOK
    <3>5. SetInRange' = SetInRange
      BY <2>1 DEF SetInRange
    <3> QED BY <2>4, <3>2, <3>3, <3>4, <3>5 DEF ScanOK, ReturnsFirst
  <2>5. CASE first >= 64 /\ idx' = idx + 1 /\ pc' = "scan" /\ UNCHANGED retval
    <3>1. word = {}
      BY <2>a, <2>5 DEF Bit
    <3>2. ASSUME NEW i \in startBit..endBit, i \div 64 < idx + 1
          PROVE  (i % 64) \notin vals[i \div 64]
      <4>1. CASE i \div 64 < idx
        BY <2>1, <4>1 DEF NoneBefore
      <4>2. CASE i \div 64 = idx
        <5>1. i \in Nat /\ i % 64 \in Bit /\ i = (i % 64) + 64 * idx
          BY <1>0, <4>2, BitPlace
        <5>2. i \notin SetInRange
          BY <2>3, <3>1, <5>1
        <5> QED BY <5>2 DEF SetInRange
      <4> QED BY <1>0, <3>2, <4>1, <4>2
    <3>3. NoneBefore'
      BY <1>0, <2>1, <2>5, <3>2 DEF NoneBefore
    <3>4. idx' <= endBit' \div 64 => idx' \in 0..(Words - 1)
      BY <1>0, <2>1, <2>5, WordsAssumption DEF TypeOK
    <3>5. TypeOK'
      BY <1>0, <2>1, <2>5, <3>4 DEF TypeOK
    <3> QED BY <2>5, <3>3, <3>5 DEF ScanOK, ReturnsFirst
  <2> QED BY <2>b, <2>4, <2>5
<1>2. CASE NotFound
  <2>1. /\ NoneBefore /\ idx > endBit \div 64
        /\ pc' = "done" /\ retval' = endBit + 1
        /\ UNCHANGED <<vals, startBit, endBit, idx>>
    BY <1>2 DEF NotFound, ScanOK
  <2>2. SetInRange = {}
    <3> SUFFICES ASSUME NEW i \in startBit..endBit PROVE i % 64 \notin vals[i \div 64]
      BY DEF SetInRange
    <3>1. i \div 64 < idx
      BY <1>0, <2>1
    <3> QED BY <2>1, <3>1 DEF NoneBefore
  <2>3. SetInRange' = {}
    BY <2>1, <2>2 DEF SetInRange
  <2>4. TypeOK'
    BY <1>0, <2>1 DEF TypeOK
  <2> QED BY <2>1, <2>3, <2>4 DEF ScanOK, ReturnsFirst
<1>3. CASE UNCHANGED vars
  BY <1>3 DEF vars, ScanOK, TypeOK, NoneBefore, ReturnsFirst, SetInRange
<1> QED BY <1>1, <1>2, <1>3 DEF Next

\* The range search reads no word from outside its array, whatever the words and
\* the range.
THEOREM TypeCorrect == Spec => []TypeOK
<1>1. ScanOK => TypeOK
  BY DEF ScanOK
<1> QED BY <1>1, ScanInit, ScanNext, PTL DEF Spec

\* getFirstSetBitInRange reads the array within its bounds and returns the
\* lowest set bit of the range, for any number of words, words and range.
THEOREM RangeSearchCorrect == Spec => [](TypeOK /\ ReturnsFirst)
<1>1. ScanOK => TypeOK /\ ReturnsFirst
  BY DEF ScanOK
<1> QED BY <1>1, ScanInit, ScanNext, PTL DEF Spec
=============================================================================
