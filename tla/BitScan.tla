------------------------------ MODULE BitScan ------------------------------
(***************************************************************************)
(* The bit search of radix_new.c: getFirstSetBit, which finds the lowest   *)
(* set bit of a 64-bit word with six masks, and getFirstSetBitInRange,     *)
(* which searches an array of words between two bits, the step on which    *)
(* treeFindGEQ rests.                                                      *)
(*                                                                         *)
(* A 64-bit word is the set of its set bits.  The behaviours are the runs  *)
(* of getFirstSetBitInRange, one step per iteration of its loop, from any  *)
(* words and any range.                                                    *)
(***************************************************************************)
EXTENDS Integers

CONSTANTS Words,      \* the number of words of the array
          Samples,    \* the words the array is filled from
          StartBits,  \* the first bits of the ranges searched
          EndBits     \* the last bits of the ranges searched

Bit == 0..63

ASSUME WordsAssumption == Words \in Nat \ {0}
ASSUME SamplesAssumption == Samples \subseteq SUBSET Bit
ASSUME RangeAssumption ==
    /\ EndBits \subseteq 0..(64 * Words - 1)
    /\ StartBits \subseteq 0..(64 * Words)

VARIABLES pc,                        \* "scan" in the loop, "done" on return
          vals, startBit, endBit,    \* the arguments
          idx,                       \* the word looked at next
          retval                     \* what the call returns

vars == <<pc, vals, startBit, endBit, idx, retval>>

-----------------------------------------------------------------------------
\* -(int64_t)val, two's complement: the lowest set bit stays, the bits above
\* it are inverted, those below it stay clear.
Negate(val) ==
    {i \in Bit : IF \E j \in val : j < i THEN i \notin val ELSE i \in val}

\* The masks 0x00000000FFFFFFFF (n = 32) to 0x5555555555555555 (n = 1): bits in
\* alternating runs of n, the first run set.
Mask(n) == {i \in Bit : (i \div n) % 2 = 0}

CountFrom63(val) ==    \* a mutant of getFirstSetBit
    LET v == val \intersect Negate(val)
        less(mask, n) == IF v \intersect mask # {} THEN n ELSE 0
    IN  63 - less(Bit, 1) - less(Mask(32), 32) - less(Mask(16), 16)
           - less(Mask(8), 8) - less(Mask(4), 4) - less(Mask(2), 2)
           - less(Mask(1), 1)

getFirstSetBit(val) ==
    LET v == val \intersect Negate(val)
        less(mask, n) == IF v \intersect mask # {} THEN n ELSE 0
    IN  64 - less(Bit, 1) - less(Mask(32), 32) - less(Mask(16), 16)
           - less(Mask(8), 8) - less(Mask(4), 4) - less(Mask(2), 2)
           - less(Mask(1), 1)

RangeMaskOpen(i) ==    \* a mutant of RangeMask
    {b \in Bit : i = startBit \div 64 => b >= startBit % 64}

\* The bits of word i that lie in the range: all of an inner word, from
\* startBit on in the first, up to endBit in the last.
RangeMask(i) ==
    {b \in Bit : /\ i = startBit \div 64 => b >= startBit % 64
                 /\ i = endBit \div 64 => b <= endBit % 64}

Init ==
    /\ pc = "scan"
    /\ vals \in [0..(Words - 1) -> Samples]
    /\ startBit \in StartBits
    /\ endBit \in EndBits
    /\ startBit <= endBit + 1
    /\ idx = startBit \div 64
    /\ retval = 0

\* The body of the loop for the word idx.
ScanWord ==
    LET first == getFirstSetBit(vals[idx] \intersect RangeMask(idx))
    IN  /\ pc = "scan"
        /\ idx <= endBit \div 64
        /\ \/ /\ first < 64
              /\ pc' = "done"
              /\ retval' = first + 64 * idx
              /\ idx' = idx
           \/ /\ first >= 64
              /\ idx' = idx + 1
              /\ UNCHANGED <<pc, retval>>
        /\ UNCHANGED <<vals, startBit, endBit>>

\* The loop ends with no bit found.
NotFound ==
    /\ pc = "scan"
    /\ idx > endBit \div 64
    /\ pc' = "done"
    /\ retval' = endBit + 1
    /\ UNCHANGED <<vals, startBit, endBit, idx>>

Next == ScanWord \/ NotFound

Spec == Init /\ [][Next]_vars

-----------------------------------------------------------------------------
\* The array is only ever read within its bounds: idx passes the last word of
\* the range by one at most (by two would be past treeFindGEQ's bits[4]).
TypeOK ==
    /\ pc \in {"scan", "done"}
    /\ vals \in [0..(Words - 1) -> SUBSET Bit]
    /\ startBit \in 0..(64 * Words)
    /\ endBit \in 0..(64 * Words - 1)
    /\ startBit <= endBit + 1
    /\ idx \in Nat
    /\ idx <= endBit \div 64 => idx \in 0..(Words - 1)
    /\ retval \in Nat

\* The set bits of the array from startBit to endBit.
SetInRange == {i \in startBit..endBit : (i % 64) \in vals[i \div 64]}

\* getFirstSetBitInRange returns the lowest set bit of the range, and
\* endBit + 1 when there is none: also for ranges that start in one word and
\* end in another, that start past the last word, and that are a single bit.
ReturnsFirst ==
    pc = "done" =>
        IF SetInRange = {}
        THEN retval = endBit + 1
        ELSE retval \in SetInRange /\ \A i \in SetInRange : retval <= i
=============================================================================
