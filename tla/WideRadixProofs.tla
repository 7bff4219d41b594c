--------------------------- MODULE WideRadixProofs ---------------------------
(***************************************************************************)
(* Proofs about WideRadix for every depth, radix, set of values and        *)
(* pattern of allocation failures.                                         *)
(***************************************************************************)
EXTENDS WideRadix, SequenceTheorems, WellFoundedInduction, TLAPS

-----------------------------------------------------------------------------
(* Numbers.                                                                 *)

\* A set of naturals that is not empty has a least member.
LEMMA LeastOfNaturals ==
    ASSUME NEW S \in SUBSET Nat, S # {}
    PROVE  \E m \in S : \A y \in S : m <= y
<1> DEFINE R == OpToRel(<, Nat)
<1>1. IsWellFoundedOn(R, Nat)
  BY NatLessThanWellFounded
<1>2. R = {x \in Nat \X Nat : x[1] < x[2]}
  BY Zenon DEF OpToRel
<1> HIDE DEF R
<1>3. PICK m \in S : \A y \in S : ~(<<y, m>> \in R)
  BY <1>1, WFMin, Zenon
<1>4. \A y \in S : m <= y
  <2> SUFFICES ASSUME NEW y \in S PROVE m <= y
    OBVIOUS
  <2>1. <<y, m>> \in Nat \X Nat /\ <<y, m>>[1] = y /\ <<y, m>>[2] = m
    OBVIOUS
  <2>2. ~(<<y, m>>[1] < <<y, m>>[2])
    BY <1>2, <1>3, <2>1, Zenon
  <2> QED BY <2>1, <2>2
<1> QED BY <1>4

\* A quotient is told by the multiples next to the number.
LEMMA QuotientUnique ==
    ASSUME NEW u \in Nat, u > 0, NEW x \in Nat, NEW y \in Nat, NEW k \in Nat,
           u * x <= k, k < u * x + u, u * y <= k, k < u * y + u
    PROVE  x = y
<1>1. ASSUME NEW a \in Nat, NEW b \in Nat, a < b PROVE u * a + u <= u * b
  <2>1. u * b = u * a + u * (b - a)
    OBVIOUS
  <2>2. b - a >= 1
    BY <1>1
  <2>3. u * (b - a) >= u
    BY <2>2
  <2> QED BY <2>1, <2>3
<1> QED BY <1>1

\* A number is its quotient times the divisor and a rest.
LEMMA Quotient ==
    ASSUME NEW k \in Nat, NEW u \in Nat, u > 0
    PROVE  k \div u \in Nat /\ u * (k \div u) <= k /\ k < u * (k \div u) + u
<1>1. k = u * (k \div u) + (k % u) /\ (k % u) \in 0..(u - 1) /\ (k \div u) \in Nat
  OBVIOUS
<1> QED BY <1>1

\* Dividing by f times as much drops the last digit of the quotient in base f.
LEMMA QuotientOfProduct ==
    ASSUME NEW k \in Nat, NEW u \in Nat, u > 0, NEW f \in Nat, f > 0
    PROVE  /\ k \div u = f * (k \div (f * u)) + ((k \div u) % f)
           /\ (k \div u) % f \in 0..(f - 1)
<1>1. PICK q \in Nat : q = k \div u
  BY Quotient
<1>2. PICK h \in Nat, r \in 0..(f - 1) : q = f * h + r /\ r = q % f
  <2>1. q = f * (q \div f) + (q % f) /\ q \div f \in Nat /\ q % f \in 0..(f - 1)
    OBVIOUS
  <2> QED BY <2>1
<1>3. u * q <= k /\ k < u * q + u
  BY <1>1, Quotient
<1>4. PICK v \in Nat : v = f * u /\ v > 0
  OBVIOUS
<1>5. u * q = v * h + u * r
  BY <1>2, <1>4
<1>6. 0 <= u * r /\ u * r + u <= v
  <2>1. PICK d \in Nat : f = r + 1 + d
    <3>1. f - 1 - r \in Nat /\ f = r + 1 + (f - 1 - r)
      OBVIOUS
    <3> QED BY <3>1
  <2>2. v = u * r + u + u * d /\ u * d >= 0 /\ u * r >= 0
    BY <1>4, <2>1
  <2>3. u * r \in Nat /\ u * d \in Nat
    BY <2>1
  <2> QED BY <1>4, <2>2, <2>3
<1>7. v * h <= k /\ k < v * h + v
  <2>1. u * r \in Nat /\ v * h \in Nat /\ u * q \in Nat
    OBVIOUS
  <2> QED BY <1>3, <1>5, <1>6, <2>1
<1>8. k \div v = h
  <2>1. k \div v \in Nat /\ v * (k \div v) <= k /\ k < v * (k \div v) + v
    BY <1>4, Quotient
  <2> QED BY <1>4, <1>7, <2>1, QuotientUnique
<1> QED BY <1>1, <1>2, <1>4, <1>8

-----------------------------------------------------------------------------
(* Paths.                                                                   *)

\* A path one byte longer.
LEMMA LongerPath ==
    ASSUME NEW a \in Address, NEW b \in Byte
    PROVE  /\ Append(a, b) \in Address
           /\ Append(a, b) # <<>>
           /\ Len(Append(a, b)) = Len(a) + 1
           /\ Append(a, b)[Len(a) + 1] = b
           /\ \A j \in 1..Len(a) : Append(a, b)[j] = a[j]
           /\ Parent(Append(a, b)) = a
           /\ \A j \in 0..Len(a) : SubSeq(Append(a, b), 1, j) = SubSeq(a, 1, j)
           /\ SubSeq(Append(a, b), 1, Len(a) + 1) = Append(a, b)
<1> DEFINE c == Append(a, b)
<1>1. /\ c \in Address /\ c # <<>> /\ Len(c) = Len(a) + 1
      /\ c[Len(a) + 1] = b /\ \A j \in 1..Len(a) : c[j] = a[j]
  BY AppendProperties DEF Address
<1>2. ASSUME NEW j \in 0..Len(a) PROVE SubSeq(c, 1, j) = SubSeq(a, 1, j)
  <2>1. j \in Int /\ Len(a) \in Nat
    BY DEF Address
  <2>2. /\ \A m \in 1..j : c[m] = a[m] /\ a[m] \in Byte /\ c[m] \in Byte
    BY <1>1, <2>1, ElementOfSeq DEF Address
  <2>3. /\ SubSeq(c, 1, j) \in Seq(Byte) /\ Len(SubSeq(c, 1, j)) = j
        /\ \A m \in 1..j : SubSeq(c, 1, j)[m] = c[m]
    BY <2>1, <2>2, SubSeqProperties
  <2>4. /\ SubSeq(a, 1, j) \in Seq(Byte) /\ Len(SubSeq(a, 1, j)) = j
        /\ \A m \in 1..j : SubSeq(a, 1, j)[m] = a[m]
    BY <2>1, <2>2, SubSeqProperties
  <2> QED BY <2>2, <2>3, <2>4, SeqEqual
<1>3. SubSeq(a, 1, Len(a)) = a /\ SubSeq(c, 1, Len(c)) = c
  BY <1>1, SubSeqFull DEF Address
<1>4. Parent(c) = a
  <2>1. Len(c) - 1 = Len(a) /\ Len(a) \in 0..Len(a)
    BY <1>1 DEF Address
  <2> QED BY <1>2, <1>3, <2>1 DEF Parent
<1> HIDE DEF c
<1>5. /\ c \in Address /\ c # <<>> /\ Len(c) = Len(a) + 1 /\ c[Len(a) + 1] = b
      /\ \A j \in 1..Len(a) : c[j] = a[j]
      /\ Parent(c) = a
      /\ \A j \in 0..Len(a) : SubSeq(c, 1, j) = SubSeq(a, 1, j)
      /\ SubSeq(c, 1, Len(a) + 1) = c
  BY <1>1, <1>2, <1>3, <1>4
<1> QED BY <1>5 DEF c

\* Every path but the empty one is its parent's with one more byte.
LEMMA PathHasParent ==
    ASSUME NEW a \in Address, a # <<>>
    PROVE  /\ Len(a) \in Nat \ {0}
           /\ Parent(a) \in Address
           /\ Len(Parent(a)) = Len(a) - 1
           /\ a[Len(a)] \in Byte
           /\ a = Append(Parent(a), a[Len(a)])
           /\ \A j \in 1..(Len(a) - 1) : Parent(a)[j] = a[j]
<1>1. PICK p \in Seq(Byte), b \in Byte : a = Append(p, b)
  BY SequenceEmptyOrAppend DEF Address
<1>2. /\ Parent(a) = p /\ Len(a) = Len(p) + 1 /\ a[Len(p) + 1] = b
      /\ \A j \in 1..Len(p) : a[j] = p[j]
  BY <1>1, LongerPath DEF Address
<1>3. Len(p) \in Nat
  OBVIOUS
<1> QED BY <1>1, <1>2, <1>3 DEF Address

\* The prefixes of a path: the empty one, the whole, and each a byte longer than
\* the one before.
LEMMA Prefixes ==
    ASSUME NEW a \in Address
    PROVE  /\ Len(a) \in Nat
           /\ SubSeq(a, 1, 0) = <<>>
           /\ SubSeq(a, 1, Len(a)) = a
           /\ \A j \in 0..Len(a) : /\ SubSeq(a, 1, j) \in Address
                                   /\ Len(SubSeq(a, 1, j)) = j
           /\ \A j \in 0..(Len(a) - 1) :
                 /\ a[j + 1] \in Byte
                 /\ SubSeq(a, 1, j + 1) = Append(SubSeq(a, 1, j), a[j + 1])
<1>1. Len(a) \in Nat /\ SubSeq(a, 1, Len(a)) = a /\ SubSeq(a, 1, 0) = <<>>
  BY SubSeqFull, SubSeqEmpty DEF Address
<1>2. \A j \in 1..Len(a) : a[j] \in Byte
  BY ElementOfSeq DEF Address
<1>3. ASSUME NEW j \in 0..Len(a)
      PROVE  /\ SubSeq(a, 1, j) \in Address /\ Len(SubSeq(a, 1, j)) = j
             /\ \A m \in 1..j : SubSeq(a, 1, j)[m] = a[m]
  <2>1. j \in Int /\ \A m \in 1..j : a[m] \in Byte
    BY <1>1, <1>2
  <2> QED BY <2>1, SubSeqProperties DEF Address
<1>4. ASSUME NEW j \in 0..(Len(a) - 1)
      PROVE  SubSeq(a, 1, j + 1) = Append(SubSeq(a, 1, j), a[j + 1])
  <2> DEFINE p == SubSeq(a, 1, j)
             q == SubSeq(a, 1, j + 1)
  <2>1. /\ j \in 0..Len(a) /\ j + 1 \in 0..Len(a) /\ j + 1 \in 1..Len(a)
    BY <1>1
  <2>2. /\ p \in Address /\ Len(p) = j /\ q \in Address /\ Len(q) = j + 1
        /\ \A m \in 1..j : p[m] = a[m]
        /\ \A m \in 1..(j + 1) : q[m] = a[m]
    BY <1>3, <2>1
  <2>3. a[j + 1] \in Byte
    BY <1>2, <2>1
  <2> HIDE DEF p, q
  <2>4. /\ Append(p, a[j + 1]) \in Seq(Byte) /\ Len(Append(p, a[j + 1])) = j + 1
        /\ \A m \in 1..j : Append(p, a[j + 1])[m] = a[m]
        /\ Append(p, a[j + 1])[j + 1] = a[j + 1]
    BY <2>2, <2>3, LongerPath DEF Address
  <2>5. \A m \in 1..(j + 1) : Append(p, a[j + 1])[m] = q[m]
    <3> TAKE m \in 1..(j + 1)
    <3>1. m \in 1..j \/ m = j + 1
      OBVIOUS
    <3> QED BY <2>2, <2>4, <3>1
  <2>6. q = Append(p, a[j + 1])
    BY <2>2, <2>4, <2>5, SeqEqual DEF Address
  <2> QED BY <2>6 DEF p, q
<1> QED BY <1>1, <1>2, <1>3, <1>4

-----------------------------------------------------------------------------
(* The inductive invariant.                                                 *)

\* The nodes there are: TreeOwnsNodes; the nodes of the last level hold values;
\* and the path of every node consists of nodes.
HeapOK ==
    /\ root \in {NULL, <<>>}
    /\ \A a \in DOMAIN heap : a \in Address /\ heap[a] \in Node
    /\ TreeOwnsNodes
    /\ \A a \in DOMAIN heap : Len(a) = Depth => heap[a].value \in Value
    /\ \A a \in DOMAIN heap : \A j \in 0..Len(a) : SubSeq(a, 1, j) \in DOMAIN heap

\* The node an insert or delete is at is on the path of its key.
OnPath ==
    /\ root # NULL /\ current \in DOMAIN heap /\ Len(current) = level
    /\ \A j \in 1..level : current[j] = extract_byte(key, j - 1)

\* Where free_node has been there is no node left: under the node at hand below
\* the loop index, and under those on its path before the one they lead to.
FreedBehind ==
    /\ root # NULL /\ current \in DOMAIN heap
    /\ \A b \in Byte : b < i => Append(current, b) \notin DOMAIN heap
    /\ \A j \in 0..(Len(current) - 1) : \A b \in Byte :
          b < current[j + 1] => Append(SubSeq(current, 1, j), b) \notin DOMAIN heap

\* Where it has not been no node is missing.
FreedOnlyBehind ==
    \A a \in DOMAIN heap : \A b \in heap[a].child_mask :
        \/ Append(a, b) \in DOMAIN heap
        \/ a = current /\ b < i
        \/ \E j \in 0..(Len(current) - 1) : a = SubSeq(current, 1, j) /\ b < current[j + 1]

Inv ==
    /\ TypeOK
    /\ HeapOK
    /\ pc \in {"idle", "destroy"} => answer = NULL
    /\ pc \in {"insert", "delete"} => OnPath
    /\ pc = "insert" => value \in Value
    /\ pc = "delete" => value = 0
    /\ pc = "destroy" => FreedBehind /\ FreedOnlyBehind

\* The model's constants as the provers need them.
LEMMA Constants ==
    /\ Depth \in Nat \ {0} /\ Radix \in Nat \ {0}
    /\ LastLevel \in Nat /\ LastLevel + 1 = Depth
    /\ NULL \notin Address /\ <<>> \in Address /\ <<>> # NULL
    /\ NULL # TRUE /\ NULL # FALSE
    /\ 0 \in Key /\ 0 \notin Value
    /\ \A b \in Byte : b \in Int /\ b >= 0 /\ b < Radix
<1>1. Radix ^ Depth \in Nat \ {0}
  BY ShapeAssumption
<1>2. 0 \in Key
  BY <1>1 DEF Key
<1>3. <<>> \in Address
  BY EmptySeq DEF Address
<1>4. NULL \notin Address /\ NULL # TRUE /\ NULL # FALSE
  BY DataAssumption DEF Address
<1>5. 0 \notin Value
  BY DataAssumption
<1>6. /\ Depth \in Nat \ {0} /\ Radix \in Nat \ {0}
      /\ LastLevel \in Nat /\ LastLevel + 1 = Depth
      /\ \A b \in Byte : b \in Int /\ b >= 0 /\ b < Radix
  BY ShapeAssumption DEF LastLevel, Byte
<1>7. <<>> # NULL
  BY <1>3, <1>4
<1> QED BY <1>2, <1>3, <1>4, <1>5, <1>6, <1>7

\* extract_byte returns a byte.
LEMMA ExtractsByte ==
    ASSUME NEW k \in Key, NEW lev \in 0..LastLevel
    PROVE  extract_byte(k, lev) \in Byte
<1>1. LastLevel - lev \in 0..Depth
  BY Constants
<1>2. Radix ^ (LastLevel - lev) \in Nat \ {0}
  BY <1>1, ShapeAssumption
<1>3. Radix ^ Depth \in Nat \ {0}
  BY Constants, ShapeAssumption
<1>4. k \in Int
  BY <1>3 DEF Key
<1> DEFINE d == Radix ^ (LastLevel - lev)
<1>5. d \in Nat \ {0}
  BY <1>2
<1> HIDE DEF d
<1>6. k \div d \in Int
  BY <1>4, <1>5
<1>7. (k \div d) % Radix \in 0..(Radix - 1)
  BY <1>6, Constants
<1> QED BY <1>7 DEF d, extract_byte, Byte

-----------------------------------------------------------------------------
(* Keys and their bytes.                                                    *)

\* What the first d bytes of a key make as a number.
FirstBytes(k, d) == k \div (Radix ^ (Depth - d))

\* Byte by byte they make the key.
LEMMA NextByte ==
    ASSUME NEW k \in Key
    PROVE  /\ FirstBytes(k, 0) = 0 /\ FirstBytes(k, Depth) = k
           /\ \A d \in 0..LastLevel :
                 FirstBytes(k, d + 1) = Radix * FirstBytes(k, d) + extract_byte(k, d)
<1>1. /\ Depth \in Nat /\ LastLevel \in Nat /\ LastLevel + 1 = Depth
      /\ Radix \in Nat /\ Radix > 0
  BY Constants
<1>2. PICK u \in Nat : u = Radix ^ Depth /\ u > 0
  <2>1. Depth \in 0..Depth
    BY <1>1
  <2> QED BY <2>1, ShapeAssumption
<1>3. k \in Nat /\ k < u
  BY <1>2 DEF Key
<1>4. FirstBytes(k, 0) = 0
  <2>1. k \div u \in Nat /\ u * (k \div u) <= k /\ k < u * (k \div u) + u
    BY <1>2, <1>3, Quotient
  <2>2. u * 0 <= k /\ k < u * 0 + u
    BY <1>2, <1>3
  <2>3. k \div u = 0
    BY <1>2, <1>3, <2>1, <2>2, QuotientUnique
  <2>4. Depth - 0 = Depth
    BY <1>1
  <2> QED BY <1>2, <2>3, <2>4 DEF FirstBytes
<1>5. FirstBytes(k, Depth) = k
  <2>1. Depth - Depth = 0 /\ k \div 1 = k
    BY <1>1, <1>3
  <2> QED BY <2>1, ShapeAssumption DEF FirstBytes
<1>6. ASSUME NEW d \in 0..LastLevel
      PROVE  FirstBytes(k, d + 1) = Radix * FirstBytes(k, d) + extract_byte(k, d)
  <2>1. PICK e \in 0..Depth : e = LastLevel - d /\ e = Depth - (d + 1) /\ e + 1 = Depth - d
    <3>1. LastLevel - d \in 0..Depth /\ LastLevel - d = Depth - (d + 1) /\ (LastLevel - d) + 1 = Depth - d
      BY <1>1
    <3> QED BY <3>1
  <2>2. PICK v \in Nat : v = Radix ^ e /\ v > 0 /\ Radix ^ (e + 1) = Radix * v
    BY ShapeAssumption
  <2>3. k \div v = Radix * (k \div (Radix * v)) + ((k \div v) % Radix)
    <3>1. Radix \in Nat /\ Radix > 0 /\ k \in Nat /\ v \in Nat /\ v > 0
      BY <1>1, <1>3, <2>2
    <3> QED BY ONLY <3>1, QuotientOfProduct
  <2>4. FirstBytes(k, d + 1) = k \div v
    BY <2>1, <2>2 DEF FirstBytes
  <2>5. FirstBytes(k, d) = k \div (Radix * v)
    BY <2>1, <2>2 DEF FirstBytes
  <2>6. extract_byte(k, d) = (k \div v) % Radix
    BY <2>1, <2>2 DEF extract_byte
  <2> QED BY <2>3, <2>4, <2>5, <2>6
<1> QED BY <1>4, <1>5, <1>6

LEMMA SameFirstBytes ==
    ASSUME NEW j \in Key, NEW k \in Key, NEW d \in 0..Depth,
           \A lev \in 0..LastLevel : lev < d => extract_byte(j, lev) = extract_byte(k, lev)
    PROVE  FirstBytes(j, d) = FirstBytes(k, d)
<1>1. Depth \in Nat /\ LastLevel \in Nat /\ LastLevel + 1 = Depth
  BY Constants
<1> DEFINE Bad == {e \in 0..d : FirstBytes(j, e) # FirstBytes(k, e)}
<1> SUFFICES ASSUME Bad # {} PROVE FALSE
  BY <1>1
<1>2. PICK e \in Bad : \A f \in Bad : e <= f
  <2>1. Bad \subseteq Nat
    BY <1>1
  <2> QED BY <2>1, LeastOfNaturals
<1>3. e \in 0..d /\ FirstBytes(j, e) # FirstBytes(k, e)
  OBVIOUS
<1>4. e # 0
  BY <1>3, NextByte
<1>5. PICK lev \in 0..LastLevel : e = lev + 1 /\ lev \in 0..d /\ lev < d
  <2>1. e - 1 \in 0..LastLevel /\ e = (e - 1) + 1 /\ e - 1 \in 0..d /\ e - 1 < d
    BY <1>1, <1>3, <1>4
  <2> QED BY <2>1
<1>6. FirstBytes(j, lev) = FirstBytes(k, lev)
  <2>1. ~(e <= lev)
    BY <1>5
  <2>2. lev \notin Bad
    <3> HIDE DEF Bad
    <3> QED BY <1>2, <2>1
  <2> QED BY <1>5, <2>2
<1> QED BY <1>3, <1>5, <1>6, NextByte

\* A key is told by its bytes.
LEMMA BytesTellKey ==
    ASSUME NEW j \in Key, NEW k \in Key,
           \A lev \in 0..LastLevel : extract_byte(j, lev) = extract_byte(k, lev)
    PROVE  j = k
<1>1. Depth \in 0..Depth
  BY Constants
<1>2. FirstBytes(j, Depth) = FirstBytes(k, Depth)
  BY <1>1, SameFirstBytes
<1> QED BY <1>2, NextByte

\* Two keys first differ at level d, where j has the smaller byte.
FirstLess(j, k, d) ==
    /\ extract_byte(j, d) < extract_byte(k, d)
    /\ \A lev \in 0..LastLevel : lev < d => extract_byte(j, lev) = extract_byte(k, lev)

\* Keys are in the order of the first byte in which they differ.
LEMMA FirstByteDecides ==
    ASSUME NEW j \in Key, NEW k \in Key, NEW d \in 0..LastLevel, FirstLess(j, k, d)
    PROVE  j < k
<1>1. /\ Depth \in Nat /\ LastLevel \in Nat /\ LastLevel + 1 = Depth
      /\ Radix \in Nat
  BY Constants
<1>2. j \in Nat /\ k \in Nat
  <2>1. Depth \in 0..Depth
    BY <1>1
  <2> QED BY <2>1, ShapeAssumption DEF Key
<1>3. FirstBytes(j, d) = FirstBytes(k, d)
  <2>1. d \in 0..Depth
    BY <1>1
  <2> QED BY <2>1, SameFirstBytes DEF FirstLess
<1>4. PICK u \in Nat : u = Radix ^ (Depth - (d + 1)) /\ u > 0
  <2>1. Depth - (d + 1) \in 0..Depth
    BY <1>1
  <2> QED BY <2>1, ShapeAssumption
<1>5. PICK x \in Nat, y \in Nat :
          /\ x = FirstBytes(j, d + 1) /\ y = FirstBytes(k, d + 1)
          /\ u * x <= j /\ j < u * x + u /\ u * y <= k
  <2>1. FirstBytes(j, d + 1) = j \div u /\ FirstBytes(k, d + 1) = k \div u
    BY <1>4 DEF FirstBytes
  <2> QED BY <1>2, <1>4, <2>1, Quotient
<1>6. x < y
  <2>1. /\ x = Radix * FirstBytes(k, d) + extract_byte(j, d)
        /\ y = Radix * FirstBytes(k, d) + extract_byte(k, d)
    BY <1>3, <1>5, NextByte
  <2>2. extract_byte(j, d) \in Nat /\ extract_byte(k, d) \in Nat
    BY <1>1, ExtractsByte DEF Byte
  <2>3. FirstBytes(k, d) \in Nat
    <3>1. Depth - d \in 0..Depth
      BY <1>1
    <3>2. PICK v \in Nat : v = Radix ^ (Depth - d) /\ v > 0
      BY <3>1, ShapeAssumption
    <3> QED BY <1>2, <3>2, Quotient DEF FirstBytes
  <2>4. PICK p \in Nat : p = Radix * FirstBytes(k, d)
    BY <1>1, <2>3
  <2> QED BY <2>1, <2>2, <2>4 DEF FirstLess
<1>7. u * x + u <= u * y
  <2>1. PICK e \in Nat : y = x + 1 + e
    <3>1. y - x - 1 \in Nat /\ y = x + 1 + (y - x - 1)
      BY <1>6
    <3> QED BY <3>1
  <2>2. u * y = u * x + u + u * e /\ u * e \in Nat /\ u * x \in Nat
    BY <2>1
  <2> QED BY <2>2
<1>8. u * x \in Nat /\ u * y \in Nat
  OBVIOUS
<1> QED BY <1>2, <1>5, <1>7, <1>8

LEMMA FirstDifference ==
    ASSUME NEW j \in Key, NEW k \in Key, j < k
    PROVE  \E d \in 0..LastLevel : FirstLess(j, k, d)
<1> DEFINE Bad == {d \in 0..LastLevel : extract_byte(j, d) # extract_byte(k, d)}
<1>1. LastLevel \in Nat
  BY Constants
<1>2. j \in Int /\ k \in Int
  <2>1. Depth \in 0..Depth
    BY Constants
  <2> QED BY <2>1, ShapeAssumption DEF Key
<1>3. Bad # {} /\ Bad \subseteq Nat
  BY <1>1, <1>2, BytesTellKey
<1>4. PICK d \in Bad : \A e \in Bad : d <= e
  BY <1>3, LeastOfNaturals
<1>5. ASSUME NEW lev \in 0..LastLevel, lev < d PROVE extract_byte(j, lev) = extract_byte(k, lev)
  <2>1. ~(d <= lev)
    BY <1>1, <1>5
  <2>2. lev \notin Bad
    <3> HIDE DEF Bad
    <3> QED BY <1>4, <2>1
  <2> QED BY <2>2
<1>6. extract_byte(j, d) \in Int /\ extract_byte(k, d) \in Int
  BY ExtractsByte DEF Byte
<1>7. ~(extract_byte(k, d) < extract_byte(j, d))
  <2> SUFFICES ASSUME extract_byte(k, d) < extract_byte(j, d) PROVE FALSE
    OBVIOUS
  <2>1. FirstLess(k, j, d)
    BY <1>5 DEF FirstLess
  <2>2. k < j
    BY <2>1, FirstByteDecides
  <2> QED BY <1>2, <2>2
<1> QED BY <1>5, <1>6, <1>7 DEF FirstLess

-----------------------------------------------------------------------------
(* Nodes.                                                                   *)

\* What create_node, WithValue, WithChild and WithoutChild make of a node.
LEMMA CreatedNode ==
    ASSUME NEW leaf \in BOOLEAN
    PROVE  /\ create_node(leaf) \in Node
           /\ create_node(leaf).child_mask = {}
           /\ \A b \in Byte : create_node(leaf).children[b] = NULL
           /\ create_node(leaf).is_leaf = leaf
BY DEF create_node, Node

\* Writing the value changes no link of a node.
LEMMA ValuedNode ==
    ASSUME NEW n \in Node, NEW v \in Value
    PROVE  /\ WithValue(n, v) \in Node
           /\ WithValue(n, v).value = v
           /\ WithValue(n, v).child_mask = n.child_mask
           /\ WithValue(n, v).children = n.children
           /\ WithValue(n, v).is_leaf = n.is_leaf
BY DEF WithValue, Node

\* Hanging a child in sets its bit and its pointer and nothing else.
LEMMA NodeWithChild ==
    ASSUME NEW n \in Node, NEW b \in Byte, NEW c \in Address
    PROVE  /\ WithChild(n, b, c) \in Node
           /\ WithChild(n, b, c).child_mask = n.child_mask \union {b}
           /\ WithChild(n, b, c).children[b] = c
           /\ \A d \in Byte \ {b} : WithChild(n, b, c).children[d] = n.children[d]
           /\ WithChild(n, b, c).is_leaf = n.is_leaf
           /\ WithChild(n, b, c).value = n.value
BY DEF WithChild, Node

\* Taking a child out clears both again.
LEMMA NodeWithoutChild ==
    ASSUME NEW n \in Node, NEW b \in Byte
    PROVE  /\ WithoutChild(n, b) \in Node
           /\ WithoutChild(n, b).child_mask = n.child_mask \ {b}
           /\ WithoutChild(n, b).children[b] = NULL
           /\ \A d \in Byte \ {b} : WithoutChild(n, b).children[d] = n.children[d]
           /\ WithoutChild(n, b).is_leaf = n.is_leaf
           /\ WithoutChild(n, b).value = n.value
BY DEF WithoutChild, Node

\* Where the running insert or delete is.
LEMMA AtTheByte ==
    ASSUME Inv, pc \in {"insert", "delete"}
    PROVE  /\ current \in DOMAIN heap /\ current \in Address
           /\ heap[current] \in Node
           /\ TheByte \in Byte
           /\ Len(current) = level /\ level \in Nat /\ level < Depth
           /\ NewChild \in Address /\ Len(NewChild) = level + 1
           /\ HasChild => TheChild = NewChild /\ NewChild \in DOMAIN heap
           /\ ~HasChild => NewChild \notin DOMAIN heap
<1>1. /\ current \in DOMAIN heap /\ current \in Address /\ heap[current] \in Node
      /\ Len(current) = level
  BY DEF Inv, OnPath, HeapOK
<1>2. level \in Nat /\ level < Depth /\ level \in 0..LastLevel /\ key \in Key
  BY Constants DEF Inv, TypeOK
<1>3. TheByte \in Byte
  BY <1>2, ExtractsByte DEF TheByte
<1>4. /\ NewChild \in Address /\ Len(NewChild) = level + 1
      /\ NewChild # <<>> /\ Parent(NewChild) = current
      /\ NewChild[Len(NewChild)] = TheByte
  BY <1>1, <1>3, LongerPath DEF NewChild
<1>5. HasChild => TheChild = NewChild /\ NewChild \in DOMAIN heap
  BY <1>1, <1>3 DEF Inv, HeapOK, TreeOwnsNodes, HasChild, TheChild, NewChild
<1>6. NewChild \in DOMAIN heap => HasChild
  BY <1>4 DEF Inv, HeapOK, TreeOwnsNodes, HasChild
<1> QED BY <1>1, <1>2, <1>3, <1>4, <1>5, <1>6

-----------------------------------------------------------------------------
(* The heap after each change of it.                                        *)

\* wide_radix_init.
LEMMA HeapInit ==
    ASSUME Inv, InitTree
    PROVE  HeapOK'
<1> DEFINE n == create_node(FALSE)
<1>1. /\ DOMAIN heap' = {<<>>} /\ heap'[<<>>] = n
      /\ root' = <<>> /\ pc' = "idle"
  BY DEF Inv, HeapOK, TreeOwnsNodes, InitTree, callVars
<1>2. Len(<<>>) = 0 /\ SubSeq(<<>>, 1, 0) = <<>>
  BY Constants, Prefixes
<1>3. n \in Node /\ n.child_mask = {} /\ ~n.is_leaf /\ \A b \in Byte : n.children[b] = NULL
  BY CreatedNode
<1> HIDE DEF n
<1>4. /\ \A a \in DOMAIN heap' : a = <<>> /\ a \in Address /\ heap'[a] \in Node
      /\ \A a \in DOMAIN heap' : Len(a) # Depth
  BY <1>1, <1>2, <1>3, Constants
<1>5. ASSUME NEW a \in DOMAIN heap', NEW j \in 0..Len(a)
      PROVE  SubSeq(a, 1, j) \in DOMAIN heap'
  BY <1>1, <1>2, <1>4
<1>6. TreeOwnsNodes'
  <2>1. ASSUME NEW a \in DOMAIN heap'
        PROVE  /\ a = <<>> /\ Len(a) <= Depth /\ ~heap'[a].is_leaf /\ Len(a) # Depth
               /\ \A b \in Byte : b \notin heap'[a].child_mask /\ heap'[a].children[b] = NULL
    BY <1>1, <1>2, <1>3, <1>4, Constants
  <2> QED BY <1>1, <2>1, Constants DEF TreeOwnsNodes
<1> QED BY <1>1, <1>4, <1>5, <1>6 DEF HeapOK

\* A new child of the node at hand.
LEMMA HeapGrows ==
    ASSUME Inv, pc = "insert", ~HasChild, root' = root, pc' = pc,
           current' \in {current, NewChild},
           NEW contents \in Node,
           contents.child_mask = {}, \A b \in Byte : contents.children[b] = NULL,
           contents.is_leaf <=> level = LastLevel,
           level = LastLevel => contents.value \in Value,
           heap' = Grown(NewChild, contents)
    PROVE  HeapOK'
<1> DEFINE N == NewChild
<1>1. /\ current \in DOMAIN heap /\ current \in Address /\ heap[current] \in Node
      /\ TheByte \in Byte /\ Len(current) = level /\ level \in Nat /\ level < Depth
      /\ N \in Address /\ Len(N) = level + 1 /\ N \notin DOMAIN heap
  BY AtTheByte
<1>2. /\ N = Append(current, TheByte) /\ N # <<>>
      /\ Parent(N) = current /\ N[Len(N)] = TheByte
      /\ \A j \in 0..level : SubSeq(N, 1, j) = SubSeq(current, 1, j)
      /\ SubSeq(N, 1, level + 1) = N
  BY <1>1, LongerPath DEF NewChild
<1>3. /\ DOMAIN heap' = DOMAIN heap \union {N}
      /\ heap'[N] = contents
      /\ heap'[current] = WithChild(heap[current], TheByte, N)
      /\ \A a \in DOMAIN heap \ {current} : heap'[a] = heap[a]
  BY <1>1 DEF Grown
<1> HIDE DEF N
<1>4. /\ heap'[current] \in Node
      /\ heap'[current].child_mask = heap[current].child_mask \union {TheByte}
      /\ heap'[current].children[TheByte] = N
      /\ \A d \in Byte \ {TheByte} : heap'[current].children[d] = heap[current].children[d]
      /\ heap'[current].is_leaf = heap[current].is_leaf
      /\ heap'[current].value = heap[current].value
  BY <1>1, <1>3, NodeWithChild
<1>5. \A a \in DOMAIN heap : heap[a].child_mask \subseteq heap'[a].child_mask
  BY <1>3, <1>4
<1>6. \A a \in DOMAIN heap' : a \in Address /\ heap'[a] \in Node
  BY <1>1, <1>3, <1>4 DEF Inv, HeapOK
<1>7. \A a \in DOMAIN heap' : Len(a) = Depth => heap'[a].value \in Value
  BY <1>1, <1>3, <1>4, Constants DEF Inv, HeapOK
<1>8. ASSUME NEW a \in DOMAIN heap', NEW j \in 0..Len(a)
      PROVE  SubSeq(a, 1, j) \in DOMAIN heap'
  <2>1. CASE a = N
    <3>1. j \in 0..level \/ j = level + 1
      BY <1>1, <2>1
    <3> QED BY <1>1, <1>2, <1>3, <2>1, <3>1 DEF Inv, HeapOK
  <2>2. CASE a # N
    BY <1>3, <2>2 DEF Inv, HeapOK
  <2> QED BY <2>1, <2>2
<1>9. ASSUME NEW a \in DOMAIN heap'
      PROVE  /\ Len(a) <= Depth /\ (heap'[a].is_leaf <=> Len(a) = Depth)
             /\ a # <<>> => /\ Parent(a) \in DOMAIN heap'
                            /\ a[Len(a)] \in heap'[Parent(a)].child_mask
             /\ \A b \in Byte :
                   IF b \in heap'[a].child_mask
                   THEN heap'[a].children[b] = Append(a, b) /\ Append(a, b) \in DOMAIN heap'
                   ELSE heap'[a].children[b] = NULL
  <2>1. CASE a = N
    BY <1>1, <1>2, <1>3, <1>4, <2>1, Constants
  <2>2. CASE a \in DOMAIN heap
    <3>1. /\ Len(a) <= Depth /\ (heap[a].is_leaf <=> Len(a) = Depth)
          /\ a # <<>> => /\ Parent(a) \in DOMAIN heap
                         /\ a[Len(a)] \in heap[Parent(a)].child_mask
          /\ \A b \in Byte :
                IF b \in heap[a].child_mask
                THEN heap[a].children[b] = Append(a, b) /\ Append(a, b) \in DOMAIN heap
                ELSE heap[a].children[b] = NULL
      BY <2>2 DEF Inv, HeapOK, TreeOwnsNodes
    <3>2. CASE a = current
      <4>1. a # <<>> => /\ Parent(a) \in DOMAIN heap'
                        /\ a[Len(a)] \in heap'[Parent(a)].child_mask
        BY <1>3, <1>5, <3>1
      <4>2. Len(a) <= Depth /\ (heap'[a].is_leaf <=> Len(a) = Depth)
        BY <1>4, <3>1, <3>2
      <4>3. ASSUME NEW b \in Byte
            PROVE  IF b \in heap'[a].child_mask
                   THEN heap'[a].children[b] = Append(a, b) /\ Append(a, b) \in DOMAIN heap'
                   ELSE heap'[a].children[b] = NULL
        BY <1>2, <1>3, <1>4, <3>1, <3>2
      <4> QED BY <4>1, <4>2, <4>3
    <3>3. CASE a # current
      BY <1>3, <1>5, <2>2, <3>1, <3>3
    <3> QED BY <3>2, <3>3
  <2> QED BY <1>3, <2>1, <2>2
<1>10. root \in DOMAIN heap' /\ root # NULL /\ current' \in DOMAIN heap'
  BY <1>1, <1>3 DEF N, Inv, HeapOK, TreeOwnsNodes, OnPath
<1> QED BY <1>6, <1>7, <1>8, <1>9, <1>10 DEF HeapOK, TreeOwnsNodes, Inv

\* A leaf with another value.
LEMMA HeapUpdates ==
    ASSUME Inv, UpdateLeaf
    PROVE  HeapOK'
<1>1. /\ HasChild /\ pc = "insert" /\ pc' = pc /\ root' = root /\ current' = current
      /\ heap' = [heap EXCEPT ![TheChild] = WithValue(@, value)]
  BY DEF UpdateLeaf, Running, Answer
<1>2. TheChild \in DOMAIN heap /\ heap[TheChild] \in Node /\ value \in Value
  BY <1>1, AtTheByte DEF Inv, HeapOK
<1>3. /\ DOMAIN heap' = DOMAIN heap
      /\ \A a \in DOMAIN heap :
            /\ heap'[a] \in Node
            /\ heap'[a].child_mask = heap[a].child_mask
            /\ heap'[a].children = heap[a].children
            /\ heap'[a].is_leaf = heap[a].is_leaf
            /\ heap'[a].value \in {heap[a].value, value}
  BY <1>1, <1>2, ValuedNode DEF Inv, HeapOK
<1>4. TreeOwnsNodes'
  BY <1>1, <1>3, SMTT(40) DEF Inv, HeapOK, TreeOwnsNodes
<1> QED BY <1>1, <1>2, <1>3, <1>4 DEF Inv, HeapOK

\* A leaf less.
LEMMA HeapLosesLeaf ==
    ASSUME Inv, DeleteLeaf
    PROVE  HeapOK'
<1> DEFINE N == NewChild
<1>1. /\ HasChild /\ pc = "delete" /\ level = LastLevel /\ root' = root /\ pc' = pc
      /\ current' = current
  BY DEF DeleteLeaf, Running, Answer
<1>2. /\ current \in DOMAIN heap /\ current \in Address /\ heap[current] \in Node
      /\ TheByte \in Byte /\ Len(current) = level /\ level \in Nat /\ level + 1 = Depth
      /\ N \in Address /\ Len(N) = Depth /\ N \in DOMAIN heap /\ TheChild = N
  BY <1>1, AtTheByte, Constants
<1>3. N = Append(current, TheByte) /\ current # N
  BY <1>2 DEF NewChild
<1>4. /\ DOMAIN heap' = DOMAIN heap \ {N}
      /\ heap'[current] = WithoutChild(heap[current], TheByte)
      /\ \A a \in DOMAIN heap \ {current, N} : heap'[a] = heap[a]
  BY <1>2, <1>3 DEF DeleteLeaf
<1> HIDE DEF N
<1>5. /\ heap'[current] \in Node
      /\ heap'[current].child_mask = heap[current].child_mask \ {TheByte}
      /\ heap'[current].children[TheByte] = NULL
      /\ \A d \in Byte \ {TheByte} : heap'[current].children[d] = heap[current].children[d]
      /\ heap'[current].is_leaf = heap[current].is_leaf
      /\ heap'[current].value = heap[current].value
  BY <1>2, <1>4, NodeWithoutChild
<1>6. /\ \A a \in DOMAIN heap' : a \in Address /\ heap'[a] \in Node
      /\ \A a \in DOMAIN heap' : Len(a) = Depth => heap'[a].value \in Value
  BY <1>2, <1>4, <1>5 DEF Inv, HeapOK
<1>7. ASSUME NEW a \in DOMAIN heap', NEW j \in 0..Len(a)
      PROVE  SubSeq(a, 1, j) \in DOMAIN heap'
  <2>0. a \in DOMAIN heap /\ a # N
    BY <1>4
  <2>1. /\ a \in Address /\ a # N /\ Len(a) <= Depth /\ SubSeq(a, 1, j) \in DOMAIN heap
    <3>1. Len(a) <= Depth
      BY <2>0 DEF Inv, HeapOK, TreeOwnsNodes
    <3> QED BY <2>0, <3>1 DEF Inv, HeapOK
  <2>2. Len(a) \in Nat /\ Len(SubSeq(a, 1, j)) = j /\ SubSeq(a, 1, Len(a)) = a
    BY <2>1, Prefixes
  <2>3. ASSUME SubSeq(a, 1, j) = N PROVE j = Len(a)
    <3>1. j = Depth /\ Len(a) <= Depth /\ Len(a) \in Nat
      BY <1>2, <2>1, <2>2, <2>3
    <3> QED BY <3>1
  <2> QED BY <1>4, <2>1, <2>2, <2>3
<1>8. ASSUME NEW a \in DOMAIN heap'
      PROVE  /\ Len(a) <= Depth /\ (heap'[a].is_leaf <=> Len(a) = Depth)
             /\ a # <<>> => /\ Parent(a) \in DOMAIN heap'
                            /\ a[Len(a)] \in heap'[Parent(a)].child_mask
             /\ \A b \in Byte :
                   IF b \in heap'[a].child_mask
                   THEN heap'[a].children[b] = Append(a, b) /\ Append(a, b) \in DOMAIN heap'
                   ELSE heap'[a].children[b] = NULL
  <2>1. /\ a \in DOMAIN heap /\ a \in Address /\ a # N
        /\ Len(a) <= Depth /\ (heap[a].is_leaf <=> Len(a) = Depth)
        /\ a # <<>> => /\ Parent(a) \in DOMAIN heap
                       /\ a[Len(a)] \in heap[Parent(a)].child_mask
        /\ \A b \in Byte :
              IF b \in heap[a].child_mask
              THEN heap[a].children[b] = Append(a, b) /\ Append(a, b) \in DOMAIN heap
              ELSE heap[a].children[b] = NULL
    BY <1>1, <1>4 DEF Inv, HeapOK, TreeOwnsNodes
  <2>2. Len(a) <= Depth /\ (heap'[a].is_leaf <=> Len(a) = Depth)
    BY <1>4, <1>5, <2>1
  <2>3. ASSUME a # <<>>
        PROVE  Parent(a) \in DOMAIN heap' /\ a[Len(a)] \in heap'[Parent(a)].child_mask
    <3>1. /\ Len(a) \in Nat /\ Len(Parent(a)) = Len(a) - 1
          /\ a = Append(Parent(a), a[Len(a)])
      BY <2>1, <2>3, PathHasParent
    <3>2. Parent(a) # N
      BY <1>2, <2>1, <3>1, Constants
    <3>3. Parent(a) = current => a[Len(a)] # TheByte
      BY <1>3, <2>1, <3>1
    <3> QED BY <1>4, <1>5, <2>1, <2>3, <3>2, <3>3
  <2>4. ASSUME NEW b \in Byte
        PROVE  IF b \in heap'[a].child_mask
               THEN heap'[a].children[b] = Append(a, b) /\ Append(a, b) \in DOMAIN heap'
               ELSE heap'[a].children[b] = NULL
    <3>1. Append(a, b) = N <=> a = current /\ b = TheByte
      BY <1>2, <1>3, <2>1, AppendInjective DEF Address
    <3>2. CASE a = current
      BY <1>4, <1>5, <2>1, <3>1, <3>2
    <3>3. CASE a # current
      BY <1>4, <2>1, <3>1, <3>3
    <3> QED BY <3>2, <3>3
  <2> QED BY <2>2, <2>3, <2>4
<1>9. /\ root \in DOMAIN heap' /\ root # NULL /\ root = <<>> /\ current' \in DOMAIN heap'
  <2>1. root = <<>> /\ root \in DOMAIN heap /\ root # NULL
    BY <1>1 DEF Inv, HeapOK, TreeOwnsNodes, OnPath
  <2>2. root # N
    BY <1>2, <2>1, Constants, Prefixes
  <2> QED BY <1>1, <1>2, <1>3, <1>4, <2>1, <2>2
<1> QED BY <1>1, <1>6, <1>7, <1>8, <1>9 DEF HeapOK, TreeOwnsNodes

-----------------------------------------------------------------------------
(* The destruction of the tree.                                             *)

\* When free_node has come to the end of its loop, the node at hand has no
\* child any more.
LEMMA NothingBelow ==
    ASSUME Inv, pc = "destroy", Ahead = {}
    PROVE  \A b \in Byte : Append(current, b) \notin DOMAIN heap
<1> SUFFICES ASSUME NEW b \in Byte, Append(current, b) \in DOMAIN heap
             PROVE  FALSE
  OBVIOUS
<1> DEFINE c == Append(current, b)
<1>1. current \in DOMAIN heap /\ current \in Address /\ i \in Int
  BY DEF Inv, FreedBehind, HeapOK, TypeOK
<1>2. /\ c \in Address /\ c # <<>> /\ Len(c) = Len(current) + 1 /\ Len(current) \in Nat
      /\ Parent(c) = current /\ c[Len(c)] = b
  BY <1>1, LongerPath DEF Address
<1> c \in DOMAIN heap
  OBVIOUS
<1> HIDE DEF c
<1>3. Len(c) <= Depth /\ b \in heap[current].child_mask
  BY <1>2 DEF Inv, HeapOK, TreeOwnsNodes
<1>4. ~heap[current].is_leaf /\ heap[current].children[b] = c
  BY <1>1, <1>2, <1>3, Constants DEF Inv, HeapOK, TreeOwnsNodes, c
<1>5. b \in ToFree(heap[current])
  BY <1>2, <1>3, <1>4, Constants DEF ToFree
<1>6. ~(b < i)
  BY DEF Inv, FreedBehind
<1> QED BY <1>1, <1>5, <1>6, Constants DEF Ahead

\* A node other than the root is freed, and its parent's loop goes on.
LEMMA HeapLosesNode ==
    ASSUME Inv, FreeNode
    PROVE  HeapOK' /\ FreedBehind' /\ FreedOnlyBehind'
<1> DEFINE c == current
           p == Parent(c)
<1>1. /\ pc = "destroy" /\ c # root /\ root' = root /\ pc' = pc
      /\ DOMAIN heap' = DOMAIN heap \ {c} /\ \A a \in DOMAIN heap' : heap'[a] = heap[a]
      /\ current' = p /\ i' = c[Len(c)] + 1
      /\ \A b \in Byte : Append(c, b) \notin DOMAIN heap
  BY NothingBelow DEF FreeNode, free, Parent
<1>2. /\ root # NULL /\ root = <<>> /\ root \in DOMAIN heap
      /\ c \in DOMAIN heap /\ c \in Address
  BY <1>1 DEF Inv, FreedBehind, HeapOK, TreeOwnsNodes
<1>3. /\ p \in DOMAIN heap /\ p \in Address /\ Len(c) \in Nat \ {0} /\ Len(p) = Len(c) - 1
      /\ c = Append(p, c[Len(c)]) /\ c[Len(c)] \in Byte
      /\ \A j \in 1..Len(p) : p[j] = c[j]
  BY <1>1, <1>2, PathHasParent, ZenonT(40) DEF Inv, HeapOK, TreeOwnsNodes
<1>4. /\ SubSeq(c, 1, Len(p)) = p
      /\ \A j \in 0..Len(p) : SubSeq(c, 1, j) = SubSeq(p, 1, j)
  <2> DEFINE b == c[Len(c)]
  <2>1. p \in Address /\ b \in Byte /\ c = Append(p, b)
    BY <1>3
  <2> HIDE DEF b, c, p
  <2>2. \A j \in 0..Len(p) : SubSeq(c, 1, j) = SubSeq(p, 1, j)
    BY <2>1, LongerPath
  <2>3. SubSeq(p, 1, Len(p)) = p /\ Len(p) \in 0..Len(p)
    BY <2>1, Prefixes
  <2> QED BY <2>2, <2>3
<1> HIDE DEF c, p
<1>5. ASSUME NEW a \in DOMAIN heap', NEW j \in 0..Len(a)
      PROVE  SubSeq(a, 1, j) \in DOMAIN heap'
  <2>1. /\ a \in Address /\ a # c /\ SubSeq(a, 1, j) \in DOMAIN heap
        /\ \A m \in 0..Len(a) : SubSeq(a, 1, m) \in DOMAIN heap
    BY <1>1 DEF Inv, HeapOK
  <2>2. /\ Len(a) \in Nat /\ SubSeq(a, 1, Len(a)) = a
        /\ j < Len(a) => /\ a[j + 1] \in Byte
                         /\ SubSeq(a, 1, j + 1) = Append(SubSeq(a, 1, j), a[j + 1])
    <3>1. /\ Len(a) \in Nat /\ SubSeq(a, 1, Len(a)) = a
          /\ \A m \in 0..(Len(a) - 1) :
                /\ a[m + 1] \in Byte
                /\ SubSeq(a, 1, m + 1) = Append(SubSeq(a, 1, m), a[m + 1])
      BY <2>1, Prefixes
    <3>2. j < Len(a) => j \in 0..(Len(a) - 1)
      BY <3>1
    <3> QED BY <3>1, <3>2
  <2>3. SubSeq(a, 1, j) # c
    <3>1. CASE j = Len(a)
      BY <2>1, <2>2, <3>1
    <3>2. CASE j < Len(a)
      <4>1. j + 1 \in 0..Len(a) /\ j \in 0..(Len(a) - 1)
        BY <2>2, <3>2
      <4>2. Append(SubSeq(a, 1, j), a[j + 1]) \in DOMAIN heap /\ a[j + 1] \in Byte
        BY <2>1, <2>2, <3>2, <4>1
      <4> QED BY <1>1, <4>2
    <3>3. j = Len(a) \/ j < Len(a)
      <4>1. Len(a) \in Nat
        BY <2>2
      <4> QED BY <4>1
    <3> QED BY <3>1, <3>2, <3>3
  <2> QED BY <1>1, <2>1, <2>3
<1>6. ASSUME NEW a \in DOMAIN heap', a # <<>>
      PROVE  Parent(a) \in DOMAIN heap' /\ a[Len(a)] \in heap'[Parent(a)].child_mask
  <2>1. /\ a \in DOMAIN heap /\ a \in Address /\ Parent(a) \in DOMAIN heap
        /\ a[Len(a)] \in heap[Parent(a)].child_mask
    BY <1>1, <1>6 DEF Inv, HeapOK, TreeOwnsNodes
  <2>2. a = Append(Parent(a), a[Len(a)]) /\ a[Len(a)] \in Byte
    BY <1>6, <2>1, PathHasParent
  <2>3. Parent(a) # c
    BY <1>1, <2>1, <2>2
  <2> QED BY <1>1, <2>1, <2>3
<1>7. HeapOK'
  <2>1. ASSUME NEW a \in DOMAIN heap'
        PROVE  /\ Len(a) <= Depth /\ (heap'[a].is_leaf <=> Len(a) = Depth)
               /\ \A b \in Byte : IF b \in heap'[a].child_mask
                                  THEN heap'[a].children[b] = Append(a, b)
                                  ELSE heap'[a].children[b] = NULL
    <3>1. a \in DOMAIN heap /\ heap'[a] = heap[a]
      BY <1>1
    <3> QED BY <3>1 DEF Inv, HeapOK, TreeOwnsNodes
  <2>2. root' # NULL /\ root' \in DOMAIN heap' /\ current' \in DOMAIN heap' /\ pc' = "destroy"
    <3>1. p # c
      BY <1>3
    <3> QED BY <1>1, <1>2, <1>3, <3>1
  <2>3. TreeOwnsNodes'
    BY <1>6, <2>1, <2>2 DEF TreeOwnsNodes
  <2> QED BY <1>1, <1>2, <1>5, <2>3 DEF Inv, HeapOK
<1>8. p \in DOMAIN heap'
  BY <1>1, <1>3
<1>9. ASSUME NEW b \in Byte, b < i' PROVE Append(p, b) \notin DOMAIN heap'
  <2>1. CASE b < c[Len(c)]
    <3>1. Append(SubSeq(c, 1, Len(p)), b) \notin DOMAIN heap
      BY <1>1, <1>3, <2>1 DEF Inv, FreedBehind, c
    <3> QED BY <1>1, <1>4, <3>1
  <2>2. CASE b = c[Len(c)]
    BY <1>1, <1>3, <2>2
  <2> QED BY <1>1, <1>3, <1>9, <2>1, <2>2, Constants
<1>10. ASSUME NEW j \in 0..(Len(p) - 1), NEW b \in Byte, b < p[j + 1]
       PROVE  Append(SubSeq(p, 1, j), b) \notin DOMAIN heap'
  <2>1. p[j + 1] = c[j + 1] /\ SubSeq(p, 1, j) = SubSeq(c, 1, j) /\ j \in 0..(Len(c) - 1)
    BY <1>3, <1>4
  <2>2. Append(SubSeq(c, 1, j), b) \notin DOMAIN heap
    BY <1>1, <1>10, <2>1 DEF Inv, FreedBehind, c
  <2> QED BY <1>1, <2>1, <2>2
<1>11. FreedBehind'
  BY <1>1, <1>2, <1>8, <1>9, <1>10 DEF FreedBehind
<1>12. ASSUME NEW a \in DOMAIN heap', NEW b \in heap'[a].child_mask,
              Append(a, b) \notin DOMAIN heap'
       PROVE  \/ a = p /\ b < c[Len(c)] + 1
              \/ \E j \in 0..(Len(p) - 1) : a = SubSeq(p, 1, j) /\ b < p[j + 1]
  <2>1. /\ a \in DOMAIN heap /\ a # c /\ b \in heap[a].child_mask /\ a \in Address /\ b \in Byte
    BY <1>1 DEF Inv, HeapOK, Node
  <2>2. c[Len(c)] \in Int /\ b \in Int
    BY <1>3, <2>1, Constants
  <2>3. CASE Append(a, b) = c
    <3>1. a = p /\ b = c[Len(c)]
      BY <1>3, <2>1, <2>3, AppendInjective DEF Address
    <3> QED BY <2>2, <3>1
  <2>4. CASE Append(a, b) # c
    <3>1. Append(a, b) \notin DOMAIN heap
      BY <1>1, <1>12, <2>4
    <3>2. PICK j \in 0..(Len(c) - 1) : a = SubSeq(c, 1, j) /\ b < c[j + 1]
      BY <1>1, <2>1, <3>1 DEF Inv, FreedOnlyBehind, c
    <3>3. CASE j = Len(p)
      BY <1>3, <1>4, <2>2, <3>2, <3>3
    <3>4. CASE j < Len(p)
      BY <1>3, <1>4, <3>2, <3>4
    <3>5. Len(p) \in Nat /\ Len(c) = Len(p) + 1
      BY <1>3
    <3>6. j = Len(p) \/ j < Len(p)
      BY <3>5
    <3> QED BY <3>3, <3>4, <3>6
  <2> QED BY <2>3, <2>4
<1>13. FreedOnlyBehind'
  BY <1>1, <1>12 DEF FreedOnlyBehind
<1> QED BY <1>7, <1>11, <1>13

\* When the root is freed, no node is left.
LEMMA HeapEmptied ==
    ASSUME Inv, FreeRoot
    PROVE  DOMAIN heap' = {} /\ HeapOK'
<1>1. /\ pc = "destroy" /\ current = root /\ root' = NULL /\ pc' = "idle"
      /\ DOMAIN heap' = DOMAIN heap \ {root}
      /\ \A b \in Byte : Append(root, b) \notin DOMAIN heap
  BY NothingBelow DEF FreeRoot, free
<1>2. root = <<>>
  BY <1>1 DEF Inv, FreedBehind, HeapOK
<1>3. ASSUME NEW a \in DOMAIN heap, a # <<>> PROVE FALSE
  <2>1. a \in Address /\ \A j \in 0..Len(a) : SubSeq(a, 1, j) \in DOMAIN heap
    BY DEF Inv, HeapOK
  <2>2. Len(a) \in Nat \ {0}
    BY <1>3, <2>1, PathHasParent
  <2>3. /\ SubSeq(a, 1, 0) = <<>> /\ 0 \in 0..(Len(a) - 1) /\ 0 + 1 = 1 /\ 1 \in 0..Len(a)
    BY <2>1, <2>2, Prefixes
  <2>4. SubSeq(a, 1, 1) = Append(<<>>, a[1]) /\ a[1] \in Byte
    BY <2>1, <2>3, Prefixes
  <2> QED BY <1>1, <1>2, <2>1, <2>3, <2>4
<1>4. DOMAIN heap' = {}
  BY <1>1, <1>2, <1>3
<1> QED BY <1>1, <1>4 DEF HeapOK, TreeOwnsNodes

-----------------------------------------------------------------------------
(* The invariant is inductive.                                              *)

\* A step that leaves the heap alone and does not end the destruction.
LEMMA HeapKept ==
    ASSUME Inv, UNCHANGED treeVars, pc = "destroy" => pc' = "destroy",
           pc' # "idle" => current' \in DOMAIN heap
    PROVE  HeapOK'
<1>1. root' = root /\ heap' = heap
  BY DEF treeVars
<1>2. TreeOwnsNodes'
  BY <1>1 DEF Inv, HeapOK, TreeOwnsNodes
<1> QED BY <1>1, <1>2 DEF Inv, HeapOK

\* One level further down the path of the key.
LEMMA PathGoesOn ==
    ASSUME Inv, pc \in {"insert", "delete"}, level < LastLevel,
           UNCHANGED <<root, pc, key>>,
           current' = NewChild, level' = level + 1, NewChild \in DOMAIN heap'
    PROVE  OnPath' /\ level' \in 0..LastLevel /\ current' \in Address
<1>1. /\ current \in Address /\ TheByte \in Byte
      /\ Len(current) = level /\ level \in Nat
      /\ NewChild \in Address /\ Len(NewChild) = level + 1
  BY AtTheByte
<1>2. /\ NewChild[level + 1] = TheByte
      /\ \A j \in 1..level : NewChild[j] = current[j]
  BY <1>1, LongerPath DEF NewChild
<1>3. root # NULL /\ \A j \in 1..level : current[j] = extract_byte(key, j - 1)
  BY DEF Inv, OnPath
<1>4. TheByte = extract_byte(key, (level + 1) - 1)
  BY <1>1 DEF TheByte
<1>5. ASSUME NEW j \in 1..(level + 1) PROVE NewChild[j] = extract_byte(key, j - 1)
  <2>1. j \in 1..level \/ j = level + 1
    BY <1>1
  <2> QED BY <1>2, <1>3, <1>4, <2>1
<1> QED BY <1>1, <1>3, <1>5, Constants DEF OnPath

\* The empty heap satisfies the invariant.
LEMMA InitInv == Init => Inv
<1> SUFFICES ASSUME Init PROVE Inv
  OBVIOUS
<1>1. /\ root = NULL /\ DOMAIN heap = {} /\ pc = "idle" /\ key = 0 /\ value = 0
      /\ current = <<>> /\ level = 0 /\ i = 0 /\ answer = NULL
  BY DEF Init, Idle, NoNodes
<1>2. TypeOK
  BY <1>1, Constants DEF TypeOK
<1>3. HeapOK
  BY <1>1 DEF HeapOK, TreeOwnsNodes
<1> QED BY <1>1, <1>2, <1>3 DEF Inv

\* The calls that insert and delete.
LEMMA UpdateInv ==
    ASSUME Inv, Descend \/ InsertNode \/ InsertLeaf \/ UpdateLeaf
                \/ InsertFails \/ DeleteMissing \/ DeleteLeaf
    PROVE  Inv'
<1>1. /\ pc \in {"insert", "delete"} /\ pc' = pc /\ root' = root
      /\ key' = key /\ value' = value /\ i' = i
  BY DEF Descend, InsertNode, InsertLeaf, UpdateLeaf, InsertFails, DeleteMissing, DeleteLeaf,
         Running, Answer, treeVars
<1>2. /\ current \in DOMAIN heap /\ current \in Address
      /\ TheByte \in Byte /\ Len(current) = level /\ level \in Nat
      /\ NewChild \in Address /\ Len(NewChild) = level + 1
      /\ HasChild => TheChild = NewChild /\ NewChild \in DOMAIN heap
  BY <1>1, AtTheByte
<1>3. /\ HeapOK'
      /\ answer' \in {NULL, TRUE, FALSE}
      /\ \/ /\ level < LastLevel /\ current' = NewChild /\ level' = level + 1
            /\ NewChild \in DOMAIN heap'
         \/ UNCHANGED <<current, level>> /\ current \in DOMAIN heap'
  <2>1. CASE Descend
    BY <1>1, <1>2, <2>1, HeapKept DEF Descend, treeVars, Inv, TypeOK
  <2>2. CASE InsertNode
    <3> DEFINE n == create_node(FALSE)
    <3>1. /\ n \in Node /\ n.child_mask = {} /\ ~n.is_leaf
          /\ \A b \in Byte : n.children[b] = NULL
      BY CreatedNode
    <3>2. /\ pc = "insert" /\ ~HasChild /\ level < LastLevel
          /\ heap' = Grown(NewChild, n)
          /\ current' = NewChild /\ level' = level + 1 /\ answer' = answer
      BY <2>2 DEF InsertNode, Running
    <3> HIDE DEF n
    <3>3. HeapOK'
      BY <1>1, <1>2, <3>1, <3>2, Constants, HeapGrows
    <3>4. NewChild \in DOMAIN heap'
      BY <3>2 DEF Grown
    <3> QED BY <3>2, <3>3, <3>4 DEF Inv, TypeOK
  <2>3. CASE InsertLeaf
    <3> DEFINE n == WithValue(create_node(TRUE), value)
    <3>1. value \in Value
      BY <2>3 DEF InsertLeaf, Running, Inv
    <3>2. /\ n \in Node /\ n.child_mask = {} /\ n.is_leaf /\ n.value \in Value
          /\ \A b \in Byte : n.children[b] = NULL
      <4> DEFINE m == create_node(TRUE)
      <4>1. /\ m \in Node /\ m.child_mask = {} /\ m.is_leaf = TRUE
            /\ \A b \in Byte : m.children[b] = NULL
        BY CreatedNode
      <4> HIDE DEF m
      <4> SUFFICES /\ WithValue(m, value) \in Node /\ WithValue(m, value).child_mask = {}
                   /\ WithValue(m, value).is_leaf /\ WithValue(m, value).value \in Value
                   /\ \A b \in Byte : WithValue(m, value).children[b] = NULL
        BY DEF m
      <4> QED BY <3>1, <4>1, ValuedNode
    <3>3. /\ pc = "insert" /\ ~HasChild /\ level = LastLevel
          /\ heap' = Grown(NewChild, n)
          /\ UNCHANGED <<current, level>> /\ answer' = TRUE
      BY <2>3 DEF InsertLeaf, Running, Answer
    <3> HIDE DEF n
    <3>4. HeapOK'
      BY <1>1, <3>2, <3>3, HeapGrows
    <3>5. current \in DOMAIN heap'
      BY <1>2, <3>3 DEF Grown
    <3> QED BY <3>3, <3>4, <3>5
  <2>4. CASE UpdateLeaf
    <3>1. HeapOK'
      BY <2>4, HeapUpdates
    <3> QED BY <1>2, <2>4, <3>1 DEF UpdateLeaf, Answer
  <2>5. CASE InsertFails \/ DeleteMissing
    BY <1>1, <1>2, <2>5, HeapKept DEF InsertFails, DeleteMissing, Answer, treeVars
  <2>6. CASE DeleteLeaf
    <3>1. HeapOK'
      BY <2>6, HeapLosesLeaf
    <3>2. current # TheChild /\ answer' = TRUE /\ UNCHANGED <<current, level>>
      BY <1>2, <2>6 DEF DeleteLeaf, Answer
    <3> QED BY <1>2, <2>6, <3>1, <3>2 DEF DeleteLeaf
  <2> QED BY <2>1, <2>2, <2>3, <2>4, <2>5, <2>6
<1>4. OnPath' /\ level' \in 0..LastLevel /\ current' \in Address
  <2>1. CASE /\ level < LastLevel /\ current' = NewChild /\ level' = level + 1
             /\ NewChild \in DOMAIN heap'
    BY <1>1, <2>1, PathGoesOn
  <2>2. CASE UNCHANGED <<current, level>> /\ current \in DOMAIN heap'
    BY <1>1, <1>2, <2>2 DEF Inv, TypeOK, OnPath
  <2> QED BY <1>3, <2>1, <2>2
<1>5. TypeOK'
  BY <1>1, <1>3, <1>4 DEF Inv, TypeOK, HeapOK
<1> QED BY <1>1, <1>3, <1>4, <1>5 DEF Inv

\* The destruction.
LEMMA DestroyInv ==
    ASSUME Inv, BeginDestroy \/ FreeChild \/ FreeNode \/ FreeRoot
    PROVE  Inv'
<1>1. CASE BeginDestroy
  <2>1. /\ pc' = "destroy" /\ current' = root /\ root = <<>> /\ root # NULL
        /\ root \in DOMAIN heap /\ i' = 0 /\ UNCHANGED <<treeVars, key, value, level, answer>>
        /\ answer = NULL /\ pc = "idle"
    BY <1>1 DEF BeginDestroy, Inv, HeapOK, TreeOwnsNodes
  <2>2. HeapOK'
    BY <2>1, HeapKept
  <2>3. TypeOK'
    BY <2>1, <2>2, Constants DEF Inv, TypeOK, HeapOK
  <2>4. FreedBehind'
    <3>1. Len(current') = 0
      BY <2>1, Constants, Prefixes
    <3>2. \A j \in 0..(Len(current') - 1) : FALSE
      BY <3>1
    <3>3. root' = root /\ heap' = heap
      BY <2>1 DEF treeVars
    <3> QED BY <2>1, <3>2, <3>3, Constants DEF FreedBehind
  <2>5. FreedOnlyBehind'
    <3>1. root' = root /\ heap' = heap
      BY <2>1 DEF treeVars
    <3>2. \A a \in DOMAIN heap : \A b \in heap[a].child_mask : Append(a, b) \in DOMAIN heap
      BY <2>1 DEF Inv, HeapOK, TreeOwnsNodes, Node
    <3> QED BY <3>1, <3>2 DEF FreedOnlyBehind
  <2> QED BY <2>1, <2>2, <2>3, <2>4, <2>5 DEF Inv
<1>2. CASE FreeChild
  <2>1. PICK b \in Ahead : (\A c \in Ahead : b <= c) /\ current' = heap[current].children[b]
    BY <1>2 DEF FreeChild
  <2>2. /\ pc = "destroy" /\ pc' = "destroy" /\ i' = 0
        /\ root' = root /\ heap' = heap /\ UNCHANGED <<key, value, level, answer>>
    BY <1>2 DEF FreeChild, treeVars
  <2>3. /\ root # NULL /\ current \in DOMAIN heap /\ current \in Address
        /\ heap[current] \in Node /\ i \in Int
    BY <2>2 DEF Inv, FreedBehind, HeapOK, TypeOK
  <2>4. b \in Byte /\ b >= i /\ b \in heap[current].child_mask
    BY <2>1, <2>3 DEF Ahead, ToFree, Node
  <2> DEFINE n == Append(current, b)
  <2>5. current' = n
    BY <2>1, <2>3, <2>4 DEF Inv, HeapOK, TreeOwnsNodes
  <2>6. /\ n \in Address /\ Len(n) = Len(current) + 1 /\ Len(current) \in Nat
        /\ n[Len(current) + 1] = b /\ \A j \in 1..Len(current) : n[j] = current[j]
        /\ \A j \in 0..Len(current) : SubSeq(n, 1, j) = SubSeq(current, 1, j)
        /\ SubSeq(current, 1, Len(current)) = current
    BY <2>3, <2>4, LongerPath, Prefixes
  <2>7. n \in DOMAIN heap
    <3>1. ASSUME NEW j \in 0..(Len(current) - 1), current = SubSeq(current, 1, j) PROVE FALSE
      BY <2>3, <3>1, Prefixes
    <3>2. ~(b < i)
      BY <2>3, <2>4, Constants
    <3> QED BY <2>2, <2>3, <2>4, <3>1, <3>2 DEF Inv, FreedOnlyBehind
  <2>8. /\ HeapOK'
        /\ \A c \in Byte : c < 0 => FALSE
    BY <2>2, <2>5, <2>7, HeapKept, Constants DEF treeVars
  <2>9. TypeOK'
    BY <2>2, <2>5, <2>6, <2>8, Constants DEF Inv, TypeOK, HeapOK
  <2>10. ASSUME NEW c \in Byte, c < b PROVE Append(current, c) \notin DOMAIN heap
    <3>1. CASE c < i
      BY <2>2, <3>1 DEF Inv, FreedBehind
    <3>2. CASE ~(c < i)
      <4>1. c \notin Ahead
        BY <2>1, <2>4, <2>10, Constants
      <4>2. c \notin ToFree(heap[current])
        BY <2>3, <3>2, <4>1, Constants DEF Ahead
      <4>3. ~heap[current].is_leaf
        BY <2>1 DEF Ahead, ToFree
      <4>4. c \notin heap[current].child_mask
        <5> SUFFICES ASSUME c \in heap[current].child_mask PROVE FALSE
          OBVIOUS
        <5>1. heap[current].children[c] = Append(current, c)
          BY <2>3 DEF Inv, HeapOK, TreeOwnsNodes
        <5>2. Append(current, c) # NULL
          BY <2>3, LongerPath, Constants
        <5> QED BY <4>2, <4>3, <5>1, <5>2 DEF ToFree
      <4>5. /\ Append(current, c) # <<>> /\ Parent(Append(current, c)) = current
            /\ Append(current, c)[Len(Append(current, c))] = c
        BY <2>3, LongerPath
      <4> DEFINE m == Append(current, c)
      <4> HIDE DEF m
      <4>6. m # <<>> /\ Parent(m) = current /\ m[Len(m)] = c
        BY <4>5 DEF m
      <4>7. m \notin DOMAIN heap
        BY <4>4, <4>6 DEF Inv, HeapOK, TreeOwnsNodes
      <4> QED BY <4>7 DEF m
    <3> QED BY <3>1, <3>2
  <2>11. ASSUME NEW j \in 0..(Len(n) - 1), NEW c \in Byte, c < n[j + 1]
         PROVE  Append(SubSeq(n, 1, j), c) \notin DOMAIN heap
    <3>0. Len(n) = Len(current) + 1 /\ Len(current) \in Nat
      BY <2>6
    <3>1. CASE j = Len(current)
      <4>1. n[j + 1] = b /\ Len(current) \in 0..Len(current)
        BY <2>6, <3>0, <3>1
      <4>2. SubSeq(n, 1, j) = current
        BY <2>6, <3>1, <4>1
      <4> QED BY <2>10, <2>11, <4>1, <4>2
    <3>2. CASE j # Len(current)
      <4>1. j \in 0..(Len(current) - 1) /\ j + 1 \in 1..Len(current) /\ j \in 0..Len(current)
        BY <3>0, <3>2
      <4>2. n[j + 1] = current[j + 1] /\ SubSeq(n, 1, j) = SubSeq(current, 1, j)
        BY <2>6, <4>1
      <4> QED BY <2>2, <2>11, <4>1, <4>2 DEF Inv, FreedBehind
    <3> QED BY <3>1, <3>2
  <2>12. FreedBehind'
    BY <2>2, <2>3, <2>5, <2>7, <2>8, <2>11 DEF FreedBehind
  <2>13. ASSUME NEW a \in DOMAIN heap, NEW c \in heap[a].child_mask, Append(a, c) \notin DOMAIN heap
         PROVE  \E j \in 0..(Len(n) - 1) : a = SubSeq(n, 1, j) /\ c < n[j + 1]
    <3>1. c \in Int /\ b \in Int
      BY <2>4, Constants DEF Inv, HeapOK, Node
    <3>2. CASE a = current /\ c < i
      <4>1. Len(current) \in 0..(Len(n) - 1) /\ Len(current) \in 0..Len(current)
        BY <2>6
      <4>2. a = SubSeq(n, 1, Len(current)) /\ c < n[Len(current) + 1]
        BY <2>3, <2>4, <2>6, <3>1, <3>2, <4>1
      <4> QED BY <4>1, <4>2
    <3>3. CASE \E j \in 0..(Len(current) - 1) : a = SubSeq(current, 1, j) /\ c < current[j + 1]
      <4>1. PICK j \in 0..(Len(current) - 1) : a = SubSeq(current, 1, j) /\ c < current[j + 1]
        BY <3>3
      <4>2. j \in 0..(Len(n) - 1) /\ j + 1 \in 1..Len(current) /\ j \in 0..Len(current)
        BY <2>6
      <4>3. n[j + 1] = current[j + 1] /\ SubSeq(n, 1, j) = SubSeq(current, 1, j)
        BY <2>6, <4>2
      <4> QED BY <4>1, <4>2, <4>3
    <3> QED BY <2>2, <2>13, <3>2, <3>3 DEF Inv, FreedOnlyBehind
  <2>14. FreedOnlyBehind'
    BY <2>2, <2>5, <2>13 DEF FreedOnlyBehind
  <2> QED BY <2>2, <2>8, <2>9, <2>12, <2>14 DEF Inv
<1>3. CASE FreeNode
  <2>1. HeapOK' /\ FreedBehind' /\ FreedOnlyBehind'
    BY <1>3, HeapLosesNode
  <2>2. /\ pc = "destroy" /\ pc' = "destroy" /\ UNCHANGED <<root, key, value, level, answer>>
        /\ current \in Address /\ current # <<>>
        /\ current' = Parent(current) /\ i' = current[Len(current)] + 1
    BY <1>3 DEF FreeNode, Parent, Inv, FreedBehind, HeapOK
  <2>3. current' \in Address /\ i' \in 0..Radix
    BY <2>2, PathHasParent, Constants
  <2>4. TypeOK'
    BY <2>1, <2>2, <2>3 DEF Inv, TypeOK, HeapOK
  <2> QED BY <2>1, <2>2, <2>4 DEF Inv
<1>4. CASE FreeRoot
  <2>1. HeapOK'
    BY <1>4, HeapEmptied
  <2>2. /\ pc' = "idle" /\ current' = <<>> /\ i' = 0 /\ answer = NULL
        /\ UNCHANGED <<key, value, level, answer>>
    BY <1>4 DEF FreeRoot, Inv
  <2>3. TypeOK'
    BY <2>1, <2>2, Constants DEF Inv, TypeOK, HeapOK
  <2> QED BY <2>1, <2>2, <2>3 DEF Inv
<1> QED BY <1>1, <1>2, <1>3, <1>4

\* Every step keeps the invariant.
LEMMA NextInv == Inv /\ [Next]_vars => Inv'
<1> SUFFICES ASSUME Inv, [Next]_vars PROVE Inv'
  OBVIOUS
<1>1. CASE InitTree
  <2>1. HeapOK'
    BY <1>1, HeapInit
  <2>2. pc = "idle" /\ UNCHANGED callVars
    BY <1>1 DEF InitTree
  <2>3. TypeOK'
    BY <2>1, <2>2 DEF callVars, Inv, TypeOK, HeapOK
  <2> QED BY <2>1, <2>2, <2>3 DEF Inv, callVars
<1>2. ASSUME NEW op \in {"insert", "delete"}, NEW k \in Key, NEW v \in Value \union {0},
             op = "insert" => v \in Value, op = "delete" => v = 0, Begin(op, k, v)
      PROVE  Inv'
  <2>1. /\ pc = "idle" /\ root = <<>> /\ root # NULL /\ root \in DOMAIN heap
        /\ pc' = op /\ key' = k /\ value' = v /\ current' = root /\ level' = 0
        /\ UNCHANGED <<treeVars, i, answer>>
    BY <1>2 DEF Begin, Inv, HeapOK, TreeOwnsNodes
  <2>2. HeapOK'
    BY <2>1, HeapKept
  <2>3. TypeOK'
    BY <2>1, <2>2, Constants DEF Inv, TypeOK, HeapOK
  <2>4. OnPath'
    BY <2>1, Constants, Prefixes DEF OnPath, treeVars
  <2> QED BY <1>2, <2>1, <2>2, <2>3, <2>4 DEF Inv
<1>3. CASE Return
  <2>1. /\ pc' = "idle" /\ key' = 0 /\ value' = 0 /\ current' = <<>> /\ level' = 0 /\ i' = 0
        /\ answer' = NULL /\ UNCHANGED treeVars /\ pc # "destroy"
    BY <1>3 DEF Return, Inv
  <2>2. HeapOK'
    BY <2>1, HeapKept
  <2>3. TypeOK'
    BY <2>1, <2>2, Constants DEF Inv, TypeOK, HeapOK
  <2> QED BY <2>1, <2>2, <2>3 DEF Inv
<1>4. CASE UNCHANGED vars
  <2>1. UNCHANGED <<root, heap, pc, key, value, current, level, i, answer>>
    BY <1>4 DEF vars, treeVars, callVars
  <2>2. TypeOK'
    BY <2>1 DEF Inv, TypeOK
  <2>3. TreeOwnsNodes'
    BY <2>1 DEF Inv, HeapOK, TreeOwnsNodes
  <2>4. HeapOK'
    BY <2>1, <2>3 DEF Inv, HeapOK
  <2>5. pc' \in {"insert", "delete"} => OnPath'
    BY <2>1 DEF Inv, OnPath
  <2>6. pc' = "destroy" => FreedBehind'
    BY <2>1 DEF Inv, FreedBehind
  <2>7. pc' = "destroy" => FreedOnlyBehind'
    BY <2>1 DEF Inv, FreedOnlyBehind
  <2> QED BY <2>1, <2>2, <2>4, <2>5, <2>6, <2>7 DEF Inv
<1> QED
  BY <1>1, <1>2, <1>3, <1>4, UpdateInv, DestroyInv DEF Next

\* The inductive invariant holds in every state of every behaviour.
THEOREM Invariance == Spec => []Inv
BY InitInv, NextInv, PTL DEF Spec

\* Every node is shaped as the code declares it, and so are the variables of a
\* running call.
THEOREM TypeCorrect == Spec => []TypeOK
<1>1. Inv => TypeOK
  BY DEF Inv
<1> QED BY <1>1, Invariance, PTL

\* No node is lost, shared or used after it was freed: in insert, delete and
\* destroy, whichever allocations fail, every allocated node is the child of
\* exactly one other, and none is left when the tree has been destroyed.
THEOREM NodesNeverLostOrDangling == Spec => []TreeOwnsNodes
<1>1. Inv => TreeOwnsNodes
  BY DEF Inv, HeapOK
<1> QED BY <1>1, Invariance, PTL

-----------------------------------------------------------------------------
(* The tree implements the map.                                             *)

\* The leaf of a key is at the last level, and no two keys share one.
LEMMA LeafPaths ==
    ASSUME NEW k \in Key
    PROVE  /\ PathOf(k) \in Address /\ Len(PathOf(k)) = Depth
           /\ \A j \in 1..Depth : PathOf(k)[j] = extract_byte(k, j - 1)
           /\ \A h \in Key : PathOf(h) = PathOf(k) => h = k
<1>1. \A h \in Key : \A j \in 1..Depth : extract_byte(h, j - 1) \in Byte
  <2> TAKE h \in Key
  <2> TAKE j \in 1..Depth
  <2>1. j - 1 \in 0..LastLevel
    BY Constants
  <2> QED BY <2>1, ExtractsByte
<1>2. \A h \in Key : /\ PathOf(h) \in Address /\ Len(PathOf(h)) = Depth
                     /\ \A j \in 1..Depth : PathOf(h)[j] = extract_byte(h, j - 1)
  BY <1>1, Constants DEF PathOf, Address
<1>3. ASSUME NEW h \in Key, PathOf(h) = PathOf(k) PROVE h = k
  <2>1. ASSUME NEW lev \in 0..LastLevel PROVE extract_byte(h, lev) = extract_byte(k, lev)
    <3>1. lev + 1 \in 1..Depth /\ (lev + 1) - 1 = lev
      BY Constants
    <3>2. /\ PathOf(h)[lev + 1] = extract_byte(h, lev)
          /\ PathOf(k)[lev + 1] = extract_byte(k, lev)
      BY <1>2, <3>1
    <3> QED BY <1>3, <3>2
  <2> QED BY <2>1, BytesTellKey
<1> QED BY <1>2, <1>3

\* The child an update comes to is on the path of its key.
LEMMA ChildOnPath ==
    ASSUME Inv, pc \in {"insert", "delete"}
    PROVE  /\ key \in Key
           /\ SubSeq(PathOf(key), 1, level + 1) = NewChild
           /\ level = LastLevel => PathOf(key) = NewChild
<1>1. /\ current \in Address /\ TheByte \in Byte /\ Len(current) = level
      /\ level \in Nat /\ level < Depth
      /\ NewChild \in Address /\ Len(NewChild) = level + 1
  BY AtTheByte
<1>2. key \in Key /\ \A j \in 1..level : current[j] = extract_byte(key, j - 1)
  BY DEF Inv, TypeOK, OnPath
<1> DEFINE P == PathOf(key)
<1>3. /\ P \in Address /\ Len(P) = Depth
      /\ \A j \in 1..Depth : P[j] = extract_byte(key, j - 1)
  BY <1>2, LeafPaths
<1> HIDE DEF P
<1>4. level + 1 \in 1..Depth /\ level + 1 \in 0..Depth /\ level + 1 \in Int /\ Depth \in Nat
  BY <1>1, Constants
<1>5. \A j \in 1..(level + 1) : P[j] \in Byte
  BY <1>3, <1>4, ElementOfSeq DEF Address
<1>6. /\ SubSeq(P, 1, level + 1) \in Seq(Byte) /\ Len(SubSeq(P, 1, level + 1)) = level + 1
      /\ \A j \in 1..(level + 1) : SubSeq(P, 1, level + 1)[j] = P[j]
  BY <1>4, <1>5, SubSeqProperties
<1>7. ASSUME NEW j \in 1..(level + 1) PROVE NewChild[j] = P[j]
  <2>1. CASE j = level + 1
    <3>1. NewChild[j] = TheByte /\ P[j] = extract_byte(key, level)
      BY <1>1, <1>3, <1>4, <2>1, LongerPath DEF NewChild
    <3> QED BY <3>1 DEF TheByte
  <2>2. CASE j # level + 1
    <3>1. j \in 1..level /\ j \in 1..Depth
      BY <1>1, <1>4, <2>2
    <3> QED BY <1>1, <1>2, <1>3, <3>1, LongerPath DEF NewChild
  <2> QED BY <2>1, <2>2
<1>8. SubSeq(P, 1, level + 1) = NewChild
  BY <1>1, <1>6, <1>7, SeqEqual DEF Address
<1>9. level = LastLevel => P = NewChild
  BY <1>3, <1>8, SubSeqFull, Constants DEF Address
<1> QED BY <1>2, <1>8, <1>9 DEF P

\* A step that touches no leaf leaves the map alone.
LEMMA LeavesKept ==
    ASSUME pc # "destroy", pc' # "destroy",
           \A a \in Address : Len(a) = Depth =>
               /\ a \in DOMAIN heap' <=> a \in DOMAIN heap
               /\ a \in DOMAIN heap => heap'[a].value = heap[a].value
    PROVE  Dict' = Dict
<1>1. \A k \in Key : PathOf(k) \in Address /\ Len(PathOf(k)) = Depth
  BY LeafPaths
<1> QED BY <1>1 DEF Dict

\* A step that changes the leaf of one key changes the map there.
LEMMA LeafChanged ==
    ASSUME pc # "destroy", pc' # "destroy", NEW k \in Key, NEW v,
           v = (IF PathOf(k) \in DOMAIN heap' THEN heap'[PathOf(k)].value ELSE 0),
           \A a \in Address : Len(a) = Depth /\ a # PathOf(k) =>
               /\ a \in DOMAIN heap' <=> a \in DOMAIN heap
               /\ a \in DOMAIN heap => heap'[a].value = heap[a].value
    PROVE  Dict' = [Dict EXCEPT ![k] = v]
<1>1. \A h \in Key : /\ PathOf(h) \in Address /\ Len(PathOf(h)) = Depth
                     /\ h # k => PathOf(h) # PathOf(k)
  BY LeafPaths
<1>2. \A h \in Key : Dict'[h] = IF h = k THEN v ELSE Dict[h]
  BY <1>1 DEF Dict
<1> QED BY <1>2 DEF Dict

\* The initial state stands for the empty map.
LEMMA InitIsMapInit == Init => Map!Init
BY DEF Init, Idle, NoNodes, Map!Init, Map!Empty, Dict, TheCall

\* The call that runs is never mistaken for none.
LEMMA CallRuns ==
    ASSUME Inv, pc \in {"insert", "delete"}
    PROVE  TheCall = [op |-> pc, key |-> key, value |-> value] /\ TheCall # NULL
BY DataAssumption DEF Inv, TypeOK, TheCall

\* An insert at the last level is the Put of the map.
LEMMA PutStep ==
    ASSUME Inv, InsertLeaf \/ UpdateLeaf
    PROVE  Map!Put
<1>1. /\ pc = "insert" /\ pc' = pc /\ answer = NULL /\ answer' = TRUE
      /\ level = LastLevel /\ key' = key /\ value' = value
  BY DEF InsertLeaf, UpdateLeaf, Running, Answer
<1>2. /\ current \in DOMAIN heap /\ current \in Address /\ heap[current] \in Node
      /\ Len(current) = level /\ level < Depth /\ NewChild \in Address /\ TheByte \in Byte
      /\ HasChild => TheChild = NewChild /\ NewChild \in DOMAIN heap
      /\ ~HasChild => NewChild \notin DOMAIN heap
  BY <1>1, AtTheByte
<1>3. key \in Key /\ PathOf(key) = NewChild /\ value \in Value
  BY <1>1, ChildOnPath DEF Inv
<1>4. heap[current].value = WithChild(heap[current], TheByte, NewChild).value
  BY <1>2, NodeWithChild
<1>5. /\ create_node(TRUE) \in Node
      /\ \A n \in Node : WithValue(n, value).value = value
  <2>1. create_node(TRUE) \in Node
    BY CreatedNode
  <2>2. \A n \in Node : WithValue(n, value).value = value
    BY <1>3, ValuedNode
  <2> QED BY <2>1, <2>2
<1> DEFINE N == NewChild
<1>6. /\ N \in DOMAIN heap' /\ heap'[N].value = value
      /\ \A a \in Address : Len(a) = Depth /\ a # N =>
            /\ a \in DOMAIN heap' <=> a \in DOMAIN heap
            /\ a \in DOMAIN heap => heap'[a].value = heap[a].value
  <2> HIDE DEF N
  <2>1. CASE InsertLeaf
    <3>1. heap' = Grown(N, WithValue(create_node(TRUE), value))
      BY <2>1 DEF InsertLeaf, N
    <3>2. /\ DOMAIN heap' = DOMAIN heap \union {N}
          /\ heap'[N] = WithValue(create_node(TRUE), value)
          /\ \A a \in DOMAIN heap \ {N, current} : heap'[a] = heap[a]
      BY <3>1 DEF Grown
    <3>3. Len(current) # Depth
      BY <1>1, <1>2, Constants
    <3>4. heap'[N].value = value
      BY <1>5, <3>2
    <3> QED BY <3>2, <3>3, <3>4
  <2>2. CASE UpdateLeaf
    <3>1. heap' = [heap EXCEPT ![N] = WithValue(@, value)] /\ N \in DOMAIN heap
      BY <1>2, <2>2 DEF UpdateLeaf, N
    <3>2. heap[N] \in Node
      BY <3>1 DEF Inv, HeapOK
    <3> QED BY <1>5, <3>1, <3>2
  <2> QED BY <2>1, <2>2
<1>7. Dict' = [Dict EXCEPT ![key] = value]
  <2> HIDE DEF N
  <2>1. PathOf(key) = N
    BY <1>3 DEF N
  <2> QED BY <1>1, <1>3, <1>6, <2>1, LeafChanged
<1>8. TheCall = [op |-> "insert", key |-> key, value |-> value] /\ TheCall # NULL
      /\ TheCall' = TheCall
  BY <1>1, CallRuns DEF TheCall
<1> QED BY <1>1, <1>7, <1>8 DEF Map!Put, Map!Running

\* A delete, at the level where it ends, is the Delete of the map.
LEMMA DeleteStep ==
    ASSUME Inv, DeleteMissing \/ DeleteLeaf
    PROVE  Map!Delete
<1>1. /\ pc = "delete" /\ pc' = pc /\ answer = NULL
      /\ key' = key /\ value' = value /\ value = 0
  BY DEF DeleteMissing, DeleteLeaf, Running, Answer, Inv
<1>2. /\ current \in DOMAIN heap /\ current \in Address /\ heap[current] \in Node
      /\ Len(current) = level /\ level \in Nat /\ level < Depth
      /\ NewChild \in Address /\ TheByte \in Byte
      /\ HasChild => TheChild = NewChild /\ NewChild \in DOMAIN heap
      /\ ~HasChild => NewChild \notin DOMAIN heap
  BY <1>1, AtTheByte
<1> DEFINE N == NewChild
           P == PathOf(key)
<1>3. /\ key \in Key /\ SubSeq(P, 1, level + 1) = N
      /\ level = LastLevel => P = N
  BY <1>1, ChildOnPath
<1>4. P \in Address /\ Len(P) = Depth
  BY <1>3, LeafPaths
<1>5. TheCall = [op |-> "delete", key |-> key, value |-> 0] /\ TheCall # NULL
      /\ TheCall' = TheCall
  BY <1>1, CallRuns DEF TheCall
<1>6. Dict[key] = IF P \in DOMAIN heap THEN heap[P].value ELSE 0
  BY <1>1, <1>3 DEF Dict
<1> HIDE DEF N, P
<1>7. CASE DeleteMissing
  <2>1. answer' = FALSE /\ heap' = heap /\ N \notin DOMAIN heap
    BY <1>2, <1>7 DEF DeleteMissing, Answer, treeVars, N
  <2>2. P \notin DOMAIN heap
    <3>1. level + 1 \in 0..Depth
      BY <1>2, Constants
    <3> QED BY <1>3, <1>4, <2>1, <3>1 DEF Inv, HeapOK
  <2>3. \A a \in Address : Len(a) = Depth /\ a # P =>
            /\ a \in DOMAIN heap' <=> a \in DOMAIN heap
            /\ a \in DOMAIN heap => heap'[a].value = heap[a].value
    BY <2>1
  <2>4. Dict' = [Dict EXCEPT ![key] = 0]
    BY <1>1, <1>3, <2>1, <2>2, <2>3, LeafChanged DEF P
  <2>5. answer' = (Dict[key] # 0)
    BY <1>6, <2>1, <2>2
  <2> QED BY <1>1, <1>5, <2>4, <2>5 DEF Map!Delete, Map!Running
<1>8. CASE DeleteLeaf
  <2>1. /\ answer' = TRUE /\ level = LastLevel /\ N \in DOMAIN heap /\ P = N
        /\ heap' = [a \in DOMAIN heap \ {N} |->
                       IF a = current THEN WithoutChild(heap[a], TheByte) ELSE heap[a]]
    BY <1>2, <1>3, <1>8 DEF DeleteLeaf, Answer, N
  <2>2. \A a \in Address : Len(a) = Depth /\ a # P =>
            /\ a \in DOMAIN heap' <=> a \in DOMAIN heap
            /\ a \in DOMAIN heap => heap'[a].value = heap[a].value
    BY <1>2, <2>1
  <2>3. P \notin DOMAIN heap'
    BY <2>1
  <2>4. Dict' = [Dict EXCEPT ![key] = 0]
    BY <1>1, <1>3, <2>2, <2>3, LeafChanged DEF P
  <2>5. heap[P].value \in Value
    BY <1>4, <2>1 DEF Inv, HeapOK
  <2>6. answer' = (Dict[key] # 0)
    BY <1>6, <2>1, <2>5, Constants
  <2> QED BY <1>1, <1>5, <2>4, <2>6 DEF Map!Delete, Map!Running
<1> QED BY <1>7, <1>8

\* The steps on the way to the last level change nothing in the map.
LEMMA WayStep ==
    ASSUME Inv, Descend \/ InsertNode
    PROVE  UNCHANGED Map!vars
<1>1. /\ pc \in {"insert", "delete"} /\ UNCHANGED <<pc, key, value, answer>>
      /\ level < LastLevel
  BY DEF Descend, InsertNode, Running
<1>2. /\ current \in DOMAIN heap /\ heap[current] \in Node /\ Len(current) = level
      /\ NewChild \in Address /\ Len(NewChild) = level + 1 /\ TheByte \in Byte
      /\ level \in Nat
  BY <1>1, AtTheByte
<1>3. heap[current].value = WithChild(heap[current], TheByte, NewChild).value
  BY <1>2, NodeWithChild
<1>4. Len(NewChild) # Depth
  BY <1>1, <1>2, Constants
<1> DEFINE N == NewChild
<1>5. \A a \in Address : Len(a) = Depth =>
            /\ a \in DOMAIN heap' <=> a \in DOMAIN heap
            /\ a \in DOMAIN heap => heap'[a].value = heap[a].value
  <2>1. CASE Descend
    BY <2>1 DEF Descend, treeVars
  <2>2. CASE InsertNode
    <3> HIDE DEF N
    <3>1. heap' = Grown(N, create_node(FALSE))
      BY <2>2 DEF InsertNode, N
    <3>2. /\ DOMAIN heap' = DOMAIN heap \union {N}
          /\ \A a \in DOMAIN heap \ {N, current} : heap'[a] = heap[a]
      BY <3>1 DEF Grown
    <3>3. Len(current) # Depth /\ Len(N) # Depth
      BY <1>1, <1>2, <1>4, Constants DEF N
    <3> QED BY <3>2, <3>3
  <2> QED BY <2>1, <2>2
<1>6. Dict' = Dict
  BY <1>1, <1>5, LeavesKept
<1> QED BY <1>1, <1>6 DEF Map!vars, TheCall

\* Every step of the tree is one of the map, or none.
LEMMA NextIsMapNext == Inv /\ [Next]_vars => [Map!Next]_(Map!vars)
<1> SUFFICES ASSUME Inv, [Next]_vars PROVE Map!Next \/ UNCHANGED Map!vars
  BY DEF Map!vars
<1>1. CASE InitTree
  <2>1. /\ pc = "idle" /\ DOMAIN heap = {} /\ DOMAIN heap' = {<<>>} /\ UNCHANGED callVars
    BY <1>1 DEF Inv, HeapOK, TreeOwnsNodes, InitTree
  <2>2. Len(<<>>) # Depth
    BY Constants, Prefixes
  <2>3. \A a \in Address : Len(a) = Depth => a \notin DOMAIN heap' /\ a \notin DOMAIN heap
    BY <2>1, <2>2
  <2>4. Dict' = Dict
    BY <2>1, <2>3, LeavesKept DEF callVars
  <2> QED BY <2>1, <2>4 DEF callVars, Map!vars, TheCall
<1>2. ASSUME NEW op \in {"insert", "delete"}, NEW k \in Key, NEW v \in Value \union {0},
             op = "insert" => v \in Value, op = "delete" => v = 0, Begin(op, k, v)
      PROVE  Map!Next
  <2>1. /\ pc = "idle" /\ pc' = op /\ key' = k /\ value' = v
        /\ UNCHANGED <<root, heap, answer>>
    BY <1>2 DEF Begin, treeVars
  <2> DEFINE c == [op |-> op, key |-> k, value |-> v]
  <2>2. c \in Map!Call
    BY <1>2 DEF Map!Call
  <2>3. TheCall = NULL /\ TheCall' = c
    BY <1>2, <2>1 DEF TheCall
  <2>4. Dict' = Dict
    BY <1>2, <2>1 DEF Dict
  <2>5. Map!Begin(c)
    BY <2>1, <2>3, <2>4 DEF Map!Begin
  <2> QED BY <2>2, <2>5 DEF Map!Next
<1>3. CASE Return
  <2>1. /\ answer # NULL /\ answer' = NULL /\ pc # "destroy" /\ pc' = "idle"
        /\ UNCHANGED <<root, heap>>
    BY <1>3 DEF Return, treeVars, Inv
  <2>2. Dict' = Dict /\ TheCall' = NULL
    BY <2>1 DEF Dict, TheCall
  <2> QED BY <2>1, <2>2 DEF Map!Next, Map!Return
<1>4. CASE InsertFails
  <2>1. /\ pc = "insert" /\ answer = NULL /\ answer' = FALSE
        /\ UNCHANGED <<root, heap, pc, key, value>>
    BY <1>4 DEF InsertFails, Running, Answer, treeVars
  <2>2. TheCall = [op |-> "insert", key |-> key, value |-> value] /\ TheCall # NULL
        /\ TheCall' = TheCall
    BY <2>1, CallRuns DEF TheCall
  <2>3. Dict' = Dict
    BY <2>1 DEF Dict
  <2> QED BY <2>1, <2>2, <2>3 DEF Map!Next, Map!PutFails, Map!Running
<1>5. CASE BeginDestroy
  <2>1. pc = "idle" /\ pc' = "destroy" /\ UNCHANGED answer
    BY <1>5 DEF BeginDestroy
  <2> QED BY <2>1 DEF Map!Next, Map!Clear, Map!Empty, Dict, TheCall
<1>6. CASE FreeChild \/ FreeNode
  <2>1. pc = "destroy" /\ pc' = "destroy" /\ UNCHANGED answer
    BY <1>6 DEF FreeChild, FreeNode
  <2> QED BY <2>1 DEF Map!vars, Dict, TheCall
<1>7. CASE FreeRoot
  <2>1. pc = "destroy" /\ pc' = "idle" /\ UNCHANGED answer /\ root' = NULL
    BY <1>7 DEF FreeRoot
  <2>2. HeapOK'
    BY <1>7, HeapEmptied
  <2>3. DOMAIN heap' = {}
    BY <2>1, <2>2 DEF HeapOK, TreeOwnsNodes
  <2> QED BY <2>1, <2>3 DEF Map!vars, Dict, TheCall
<1>8. CASE UNCHANGED vars
  BY <1>8 DEF vars, treeVars, callVars, Map!vars, Dict, TheCall
<1> QED
  BY <1>1, <1>2, <1>3, <1>4, <1>5, <1>6, <1>7, <1>8, PutStep, DeleteStep, WayStep
  DEF Next, Map!Next

\* The tree refines the abstract map: an insert or a delete takes effect at
\* exactly one of its steps, a failed one has none, and destroying the tree, node
\* by node, empties it at once.
THEOREM TreeImplementsMap == Spec => ImplementsMap
BY InitIsMapInit, NextIsMapNext, Invariance, PTL DEF Spec, ImplementsMap, Map!Spec
-----------------------------------------------------------------------------
(* The searches.                                                            *)

\* The first d bytes of the path of a key.
Way(k, d) == SubSeq(PathOf(k), 1, d)

LEMMA Ways ==
    ASSUME NEW k \in Key
    PROVE  /\ Way(k, 0) = <<>> /\ Way(k, Depth) = PathOf(k)
           /\ \A d \in 0..Depth : Way(k, d) \in Address /\ Len(Way(k, d)) = d
           /\ \A d \in 0..LastLevel : /\ extract_byte(k, d) \in Byte
                                      /\ Way(k, d + 1) = Append(Way(k, d), extract_byte(k, d))
<1>1. /\ PathOf(k) \in Address /\ Len(PathOf(k)) = Depth
      /\ \A d \in 1..Depth : PathOf(k)[d] = extract_byte(k, d - 1)
  BY LeafPaths
<1>2. ASSUME NEW d \in 0..LastLevel
      PROVE  /\ extract_byte(k, d) \in Byte
             /\ Way(k, d + 1) = Append(Way(k, d), extract_byte(k, d))
  <2>1. d \in 0..(Len(PathOf(k)) - 1) /\ d + 1 \in 1..Depth /\ (d + 1) - 1 = d
    BY <1>1, Constants
  <2>2. PathOf(k)[d + 1] = extract_byte(k, d)
    BY <1>1, <2>1
  <2> QED BY <1>1, <2>1, <2>2, Prefixes, ExtractsByte DEF Way
<1> QED BY <1>1, <1>2, Prefixes DEF Way

\* Keys with the same bytes share their paths.
LEMMA SameWay ==
    ASSUME NEW j \in Key, NEW k \in Key, NEW d \in 0..Depth,
           \A lev \in 0..LastLevel : lev < d => extract_byte(j, lev) = extract_byte(k, lev)
    PROVE  Way(j, d) = Way(k, d)
<1>1. Depth \in Nat /\ LastLevel \in Nat /\ LastLevel + 1 = Depth
  BY Constants
<1> DEFINE Bad == {e \in 0..d : Way(j, e) # Way(k, e)}
<1> SUFFICES ASSUME Bad # {} PROVE FALSE
  BY <1>1
<1>2. PICK e \in Bad : \A f \in Bad : e <= f
  <2>1. Bad \subseteq Nat
    BY <1>1
  <2> QED BY <2>1, LeastOfNaturals
<1>3. e \in 0..d /\ Way(j, e) # Way(k, e)
  OBVIOUS
<1>4. e # 0
  BY <1>3, Ways
<1>5. PICK lev \in 0..LastLevel : e = lev + 1 /\ lev \in 0..d /\ lev < d
  <2>1. e - 1 \in 0..LastLevel /\ e = (e - 1) + 1 /\ e - 1 \in 0..d /\ e - 1 < d
    BY <1>1, <1>3, <1>4
  <2> QED BY <2>1
<1>6. Way(j, lev) = Way(k, lev)
  <2>1. ~(e <= lev)
    BY <1>5
  <2>2. lev \notin Bad
    <3> HIDE DEF Bad
    <3> QED BY <1>2, <2>1
  <2> QED BY <1>5, <2>2
<1> QED BY <1>3, <1>5, <1>6, Ways

\* The other way round: what leads to one node has the same bytes.
LEMMA SameBytes ==
    ASSUME NEW j \in Key, NEW k \in Key, NEW d \in 0..Depth, Way(j, d) = Way(k, d),
           NEW lev \in 0..LastLevel, lev < d
    PROVE  extract_byte(j, lev) = extract_byte(k, lev)
<1>1. Depth \in Nat /\ LastLevel \in Nat /\ LastLevel + 1 = Depth
  BY Constants
<1>2. lev + 1 \in 1..d /\ lev + 1 \in 1..Depth /\ (lev + 1) - 1 = lev /\ d \in Int
  BY <1>1
<1>3. ASSUME NEW h \in Key PROVE Way(h, d)[lev + 1] = extract_byte(h, lev)
  <2>1. /\ PathOf(h) \in Address /\ Len(PathOf(h)) = Depth
        /\ PathOf(h)[lev + 1] = extract_byte(h, lev)
    BY <1>2, LeafPaths
  <2>2. \A m \in 1..d : PathOf(h)[m] \in Byte
    BY <1>1, <2>1, ElementOfSeq DEF Address
  <2>3. Way(h, d)[lev + 1] = PathOf(h)[lev + 1]
    BY <1>2, <2>2, SubSeqProperties DEF Way
  <2> QED BY <2>1, <2>3
<1> QED BY <1>3

\* A tree that may be searched.
Ready == Inv /\ InUse

LEMMA ReadyTree ==
    ASSUME Ready
    PROVE  /\ pc # "destroy" /\ root = <<>> /\ <<>> \in DOMAIN heap
           /\ \A a \in DOMAIN heap : a \in Address /\ a # NULL /\ heap[a] \in Node
BY Constants DEF Ready, InUse, Inv, HeapOK, TreeOwnsNodes

\* The children of a node.
LEMMA ChildThere ==
    ASSUME Ready, NEW a \in DOMAIN heap, NEW b \in Byte
    PROVE  /\ ChildAt(a, b) = IF Append(a, b) \in DOMAIN heap THEN Append(a, b) ELSE NULL
           /\ b \in heap[a].child_mask <=> Append(a, b) \in DOMAIN heap
           /\ b \in heap[a].child_mask => heap[a].children[b] = Append(a, b)
<1>1. pc # "destroy" /\ a \in Address /\ a # NULL /\ TreeOwnsNodes
  BY ReadyTree DEF Ready, Inv, HeapOK
<1>2. b \in heap[a].child_mask => heap[a].children[b] = Append(a, b) /\ Append(a, b) \in DOMAIN heap
  BY <1>1 DEF TreeOwnsNodes
<1> DEFINE c == Append(a, b)
<1>3. c # <<>> /\ Parent(c) = a /\ c[Len(c)] = b
  BY <1>1, LongerPath
<1> HIDE DEF c
<1>4. c \in DOMAIN heap => b \in heap[a].child_mask
  BY <1>1, <1>3 DEF TreeOwnsNodes
<1> QED BY <1>1, <1>2, <1>4 DEF c, ChildAt

\* A node on the path of a key is reached through those before it.
LEMMA WayBack ==
    ASSUME Ready, NEW k \in Key, NEW d \in 0..Depth, NEW e \in 0..d, Way(k, d) \in DOMAIN heap
    PROVE  Way(k, e) \in DOMAIN heap
<1>1. /\ PathOf(k) \in Address /\ Len(PathOf(k)) = Depth /\ Depth \in Nat
      /\ Way(k, d) \in Address /\ Len(Way(k, d)) = d
  BY LeafPaths, Ways, Constants
<1>2. SubSeq(Way(k, d), 1, e) \in DOMAIN heap
  BY <1>1 DEF Ready, Inv, HeapOK
<1>3. SubSeq(Way(k, d), 1, e) = Way(k, e)
  <2>1. d \in Int /\ e \in Int /\ e \in 0..Depth
    BY <1>1
  <2>2. \A m \in 1..d : PathOf(k)[m] \in Byte
    BY <1>1, ElementOfSeq DEF Address
  <2>3. \A m \in 1..d : Way(k, d)[m] = PathOf(k)[m]
    BY <2>1, <2>2, SubSeqProperties DEF Way
  <2>4. \A m \in 1..e : m \in 1..d
    BY <2>1
  <2>5. /\ SubSeq(Way(k, d), 1, e) \in Seq(Byte) /\ Len(SubSeq(Way(k, d), 1, e)) = e
        /\ \A m \in 1..e : SubSeq(Way(k, d), 1, e)[m] = Way(k, d)[m]
    BY <2>1, <2>2, <2>3, <2>4, SubSeqProperties
  <2>6. /\ Way(k, e) \in Seq(Byte) /\ Len(Way(k, e)) = e
        /\ \A m \in 1..e : Way(k, e)[m] = PathOf(k)[m]
    BY <2>1, <2>2, <2>4, SubSeqProperties DEF Way
  <2> QED BY <2>3, <2>4, <2>5, <2>6, SeqEqual
<1> QED BY <1>2, <1>3

\* A search goes down the path of its key as far as there are nodes.
LEMMA SearchComes ==
    ASSUME Ready, NEW k \in Key
    PROVE  \A d \in 0..Depth : NodeAt(k)[d] = IF Way(k, d) \in DOMAIN heap THEN Way(k, d) ELSE NULL
<1>1. Depth \in Nat /\ LastLevel \in Nat /\ LastLevel + 1 = Depth /\ root = <<>> /\ root \in DOMAIN heap
  BY Constants, ReadyTree
<1> DEFINE Steps(f) == f = [d \in 0..Depth |->
                              IF d = 0 THEN root ELSE ChildAt(f[d - 1], extract_byte(k, d - 1))]
           W == [d \in 0..Depth |-> IF Way(k, d) \in DOMAIN heap THEN Way(k, d) ELSE NULL]
<1>2. ASSUME NEW d \in 1..Depth
      PROVE  W[d] = ChildAt(W[d - 1], extract_byte(k, d - 1))
  <2>1. /\ d - 1 \in 0..LastLevel /\ d - 1 \in 0..Depth /\ d \in 0..Depth /\ (d - 1) + 1 = d
        /\ d - 1 \in 0..d
    BY <1>1
  <2>2. Way(k, d) = Append(Way(k, d - 1), extract_byte(k, d - 1)) /\ extract_byte(k, d - 1) \in Byte
    BY <2>1, Ways
  <2>3. CASE Way(k, d - 1) \in DOMAIN heap
    BY <2>1, <2>2, <2>3, ChildThere
  <2>4. CASE Way(k, d - 1) \notin DOMAIN heap
    <3>1. Way(k, d) \notin DOMAIN heap
      BY <2>1, <2>4, WayBack
    <3> QED BY <2>1, <2>4, <3>1 DEF ChildAt
  <2> QED BY <2>3, <2>4
<1>3. W[0] = root
  BY <1>1, Ways
<1>4. Steps(W)
  <2>1. \A d \in 0..Depth : W[d] = IF d = 0 THEN root ELSE ChildAt(W[d - 1], extract_byte(k, d - 1))
    <3> TAKE d \in 0..Depth
    <3>1. d = 0 \/ d \in 1..Depth
      BY <1>1
    <3>2. d \in 1..Depth => d # 0
      OBVIOUS
    <3> HIDE DEF W
    <3> QED BY <1>2, <1>3, <3>1, <3>2
  <2>2. W = [d \in 0..Depth |-> W[d]]
    OBVIOUS
  <2> HIDE DEF W
  <2> QED BY <2>1, <2>2
<1> DEFINE A == CHOOSE f : Steps(f)
<1>5. NodeAt(k) = A
  BY DEF NodeAt
<1>6. Steps(A)
  <2> HIDE DEF W
  <2> QED BY <1>4
<1> DEFINE Bad == {d \in 0..Depth : A[d] # W[d]}
<1>7. Bad = {}
  <2> HIDE DEF W, A
  <2> SUFFICES ASSUME Bad # {} PROVE FALSE
    OBVIOUS
  <2>1. PICK d \in Bad : \A e \in Bad : d <= e
    <3>1. Bad \subseteq Nat
      BY <1>1
    <3> QED BY <3>1, LeastOfNaturals
  <2>2. d \in 0..Depth /\ A[d] # W[d]
    OBVIOUS
  <2>3. d # 0
    BY <1>3, <1>6, <2>2
  <2>4. d \in 1..Depth /\ d - 1 \in 0..Depth /\ ~(d <= d - 1)
    BY <1>1, <2>2, <2>3
  <2>5. A[d - 1] = W[d - 1]
    <3>1. d - 1 \notin Bad
      <4> HIDE DEF Bad
      <4> QED BY <2>1, <2>4
    <3> QED BY <2>4, <3>1
  <2>6. A[d] = ChildAt(A[d - 1], extract_byte(k, d - 1))
    BY <1>6, <2>2, <2>3
  <2> QED BY <1>2, <2>2, <2>4, <2>5, <2>6
<1>8. \A d \in 0..Depth : A[d] = W[d]
  <2> HIDE DEF A, W
  <2> QED BY <1>7
<1> HIDE DEF A
<1> QED BY <1>5, <1>8

\* The keys in the map are those whose leaf is there.
LEMMA KeysThere ==
    ASSUME Ready
    PROVE  /\ Map!Keys(Dict) \subseteq Key
           /\ \A k \in Key :
                 /\ k \in Map!Keys(Dict) <=> PathOf(k) \in DOMAIN heap
                 /\ PathOf(k) \in DOMAIN heap =>
                       Dict[k] = heap[PathOf(k)].value /\ Dict[k] \in Value
                 /\ PathOf(k) \notin DOMAIN heap => Dict[k] = 0
<1>1. pc # "destroy" /\ 0 \notin Value
  BY ReadyTree, Constants
<1>2. ASSUME NEW k \in Key
      PROVE  /\ PathOf(k) \in DOMAIN heap =>
                    Dict[k] = heap[PathOf(k)].value /\ Dict[k] \in Value
             /\ PathOf(k) \notin DOMAIN heap => Dict[k] = 0
  <2>1. Len(PathOf(k)) = Depth
    BY LeafPaths
  <2>2. PathOf(k) \in DOMAIN heap => heap[PathOf(k)].value \in Value
    BY <2>1 DEF Ready, Inv, HeapOK
  <2> QED BY <1>1, <2>2 DEF Dict
<1> QED BY <1>1, <1>2 DEF Map!Keys

\* A lookup finds what is stored; a tree called empty stores nothing.
LEMMA LooksUp == Ready => LookupExact
<1> SUFFICES ASSUME Ready PROVE LookupExact
  OBVIOUS
<1>1. ASSUME NEW k \in Key PROVE lookup(k) = Dict[k]
  <2>1. Depth \in 0..Depth /\ Way(k, Depth) = PathOf(k)
    BY Ways, Constants
  <2>2. NodeAt(k)[Depth] = IF PathOf(k) \in DOMAIN heap THEN PathOf(k) ELSE NULL
    BY <2>1, SearchComes
  <2> QED BY <2>2, KeysThere, ReadyTree DEF lookup, ValueIn
<1>2. ASSUME empty PROVE Map!Keys(Dict) = {}
  <2> SUFFICES ASSUME NEW k \in Key, k \in Map!Keys(Dict) PROVE FALSE
    BY KeysThere
  <2>1. root = <<>> /\ root # NULL /\ <<>> \in DOMAIN heap /\ heap[<<>>].child_mask = {}
    BY <1>2, ReadyTree DEF empty
  <2>2. 1 \in 0..Depth /\ Depth \in 0..Depth /\ 0 \in 0..LastLevel /\ 0 + 1 = 1
    BY Constants
  <2>3. PathOf(k) \in DOMAIN heap
    BY KeysThere
  <2>4. Way(k, 1) \in DOMAIN heap
    BY <2>2, <2>3, WayBack, Ways
  <2>5. Way(k, 1) = Append(<<>>, extract_byte(k, 0)) /\ extract_byte(k, 0) \in Byte
    BY <2>2, Ways
  <2> QED BY <2>1, <2>4, <2>5, ChildThere
<1> QED BY <1>1, <1>2 DEF LookupExact

\* Whatever inserts have failed and whatever has been deleted, a lookup returns
\* the value last put under its key or nothing.
THEOREM LookupIsExact == Spec => []LookupExact
<1>1. Inv => LookupExact
  BY LooksUp DEF Ready, LookupExact
<1> QED BY <1>1, Invariance, PTL

\* The depth at which a search for k leaves the tree.
LEMMA MatchedDepth ==
    ASSUME Ready, NEW k \in Key
    PROVE  /\ Matched(k) \in 0..Depth
           /\ Way(k, Matched(k)) \in DOMAIN heap
           /\ NodeAt(k)[Matched(k)] = Way(k, Matched(k))
           /\ Matched(k) < Depth => Way(k, Matched(k) + 1) \notin DOMAIN heap
<1>1. Depth \in Nat /\ LastLevel \in Nat /\ LastLevel + 1 = Depth
  BY Constants
<1>2. ASSUME NEW d \in 0..Depth
      PROVE  /\ NodeAt(k)[d] # NULL <=> Way(k, d) \in DOMAIN heap
             /\ Way(k, d) \in DOMAIN heap => NodeAt(k)[d] = Way(k, d)
  BY SearchComes, ReadyTree
<1> DEFINE Out == {d \in 0..Depth : Way(k, d) \notin DOMAIN heap}
           Last(d) == NodeAt(k)[d] # NULL /\ (d < Depth => NodeAt(k)[d + 1] = NULL)
<1>3. \E d \in 0..Depth : Last(d)
  <2>1. CASE Out = {}
    <3>1. Depth \in 0..Depth
      BY <1>1
    <3>2. Last(Depth)
      BY <1>1, <1>2, <2>1, <3>1
    <3> QED BY <3>1, <3>2
  <2>2. CASE Out # {}
    <3>1. PICK d \in Out : \A e \in Out : d <= e
      <4>1. Out \subseteq Nat
        BY <1>1
      <4> QED BY <2>2, <4>1, LeastOfNaturals
    <3>2. d \in 0..Depth /\ Way(k, d) \notin DOMAIN heap /\ d # 0
      BY Ways, ReadyTree
    <3>3. PICK e \in 0..Depth : e + 1 = d /\ e < Depth /\ ~(d <= e)
      <4>1. d - 1 \in 0..Depth /\ (d - 1) + 1 = d /\ d - 1 < Depth /\ ~(d <= d - 1)
        BY <1>1, <3>2
      <4> QED BY <4>1
    <3>4. Way(k, e) \in DOMAIN heap
      <4>1. e \notin Out
        <5> HIDE DEF Out
        <5> QED BY <3>1, <3>3
      <4> QED BY <4>1
    <3>5. Last(e)
      BY <1>2, <3>2, <3>3, <3>4
    <3> QED BY <3>5
  <2> QED BY <2>1, <2>2
<1>4. Matched(k) = CHOOSE d \in 0..Depth : Last(d)
  BY DEF Matched
<1>5. Matched(k) \in 0..Depth /\ Last(Matched(k))
  <2> HIDE DEF Last
  <2> QED BY <1>3, <1>4
<1> DEFINE D == Matched(k)
<1>6. D \in 0..Depth /\ NodeAt(k)[D] # NULL /\ (D < Depth => NodeAt(k)[D + 1] = NULL)
  BY <1>5
<1> HIDE DEF D
<1>7. D < Depth => D + 1 \in 0..Depth
  BY <1>1, <1>6
<1>8. /\ D \in 0..Depth /\ Way(k, D) \in DOMAIN heap /\ NodeAt(k)[D] = Way(k, D)
      /\ D < Depth => Way(k, D + 1) \notin DOMAIN heap
  BY <1>2, <1>6, <1>7
<1> QED BY <1>8 DEF D

\* The least of some bytes.
LEMMA LeastByte ==
    ASSUME NEW S \in SUBSET Byte, S # {}
    PROVE  Least(S) \in S /\ \A c \in S : Least(S) <= c
<1>1. S \subseteq Nat
  BY Constants DEF Byte
<1>2. \E b \in S : \A c \in S : b <= c
  BY <1>1, LeastOfNaturals
<1> QED BY <1>2 DEF Least

\* The nodes on the way to the leftmost leaf, step by step.
LEMMA LeftmostSteps ==
    ASSUME NEW a, NEW d \in 1..Depth
    PROVE  /\ Leftmost(a, d)[d] = a
           /\ \A e \in d..LastLevel : Leftmost(a, d)[e + 1] = Smallest(Leftmost(a, d)[e])
<1>1. Depth \in Nat /\ LastLevel \in Nat /\ LastLevel + 1 = Depth
  BY Constants
<1> DEFINE Sol(m, f) == f = [e \in d..m |-> IF e = d THEN a ELSE Smallest(f[e - 1])]
           Bad == {m \in Nat : m >= d /\ \A f : ~Sol(m, f)}
<1>2. Bad = {}
  <2> SUFFICES ASSUME Bad # {} PROVE FALSE
    OBVIOUS
  <2>1. PICK m \in Bad : \A e \in Bad : m <= e
    BY LeastOfNaturals
  <2>2. m # d
    <3>1. Sol(d, [e \in d..d |-> a])
      <4>1. \A e \in d..d : e = d
        OBVIOUS
      <4> QED BY <4>1
    <3> QED BY <2>1, <3>1
  <2>3. m - 1 \in Nat /\ m - 1 >= d /\ m - 1 \notin Bad /\ m \in Nat
    <3>1. m \in Nat /\ m - 1 \in Nat /\ m - 1 >= d /\ ~(m <= m - 1)
      BY <2>2
    <3> HIDE DEF Bad
    <3> QED BY <2>1, <3>1
  <2>4. PICK f : Sol(m - 1, f)
    BY <2>3
  <2>5. PICK g : g = [e \in d..m |-> IF e = m THEN Smallest(f[m - 1]) ELSE f[e]]
    OBVIOUS
  <2>6. ASSUME NEW e \in d..m
        PROVE  g[e] = IF e = d THEN a ELSE Smallest(g[e - 1])
    <3>1. CASE e = m
      <4>1. m - 1 \in d..m /\ m - 1 # m
        BY <2>3
      <4> QED BY <2>2, <2>5, <3>1, <4>1
    <3>2. CASE e # m
      <4>1. e \in d..(m - 1) /\ g[e] = f[e]
        BY <2>3, <2>5, <3>2
      <4>2. e # d => g[e - 1] = f[e - 1]
        <5>1. e # d => e - 1 \in d..m /\ e - 1 # m
          BY <2>3, <4>1
        <5> QED BY <2>5, <5>1
      <4>3. f[e] = IF e = d THEN a ELSE Smallest(f[e - 1])
        BY <2>4, <4>1
      <4> QED BY <4>1, <4>2, <4>3
    <3> QED BY <3>1, <3>2
  <2>7. g = [e \in d..m |-> g[e]]
    BY <2>5
  <2>8. Sol(m, g)
    BY <2>6, <2>7
  <2> QED BY <2>1, <2>8
<1>3. \E f : Sol(Depth, f)
  <2>1. Depth \in Nat /\ Depth >= d
    BY <1>1
  <2> QED BY <1>2, <2>1, ZenonT(40)
<1> DEFINE A == CHOOSE f : Sol(Depth, f)
<1>4. Leftmost(a, d) = A
  BY DEF Leftmost
<1>5. Sol(Depth, A)
  BY <1>3
<1> HIDE DEF A
<1>6. d \in d..Depth /\ A[d] = a
  <2>1. d \in d..Depth
    BY <1>1
  <2> QED BY <1>5, <2>1
<1>7. ASSUME NEW e \in d..LastLevel PROVE A[e + 1] = Smallest(A[e])
  <2>1. e + 1 \in d..Depth /\ e + 1 # d /\ (e + 1) - 1 = e
    BY <1>1
  <2> QED BY <1>5, <2>1
<1> QED BY <1>4, <1>6, <1>7

\* A node without children is not passed; where there is none of them on the way,
\* it leads from child to first child down to a leaf.
Stuck(a) == a \in DOMAIN heap /\ Len(a) < Depth /\ heap[a].child_mask = {}

FirstChild(a, c) ==
    \E b \in heap[a].child_mask : (\A x \in heap[a].child_mask : b <= x) /\ c = Append(a, b)

LEMMA LeftmostFinds ==
    ASSUME Ready, NEW d \in 1..Depth, NEW a \in DOMAIN heap, Len(a) = d
    PROVE  \/ Stuck(Leftmost(a, d)[Depth])
           \/ \A e \in d..Depth :
                 /\ Leftmost(a, d)[e] \in DOMAIN heap /\ Len(Leftmost(a, d)[e]) = e
                 /\ e < Depth => FirstChild(Leftmost(a, d)[e], Leftmost(a, d)[e + 1])
<1>1. /\ Depth \in Nat /\ LastLevel \in Nat /\ LastLevel + 1 = Depth
      /\ d \in Nat /\ d > 0 /\ d <= Depth
  BY Constants
<1> DEFINE A == Leftmost(a, d)
<1>2. A[d] = a /\ \A e \in d..LastLevel : A[e + 1] = Smallest(A[e])
  BY LeftmostSteps
<1> HIDE DEF A
<1> DEFINE Good(e) == /\ A[e] \in DOMAIN heap /\ Len(A[e]) = e
                      /\ e < Depth => heap[A[e]].child_mask # {}
<1>3. ASSUME NEW e \in d..LastLevel, Stuck(A[e]) PROVE Stuck(A[e + 1])
  BY <1>2, <1>3 DEF Stuck, Smallest
<1>4. ASSUME NEW e \in d..LastLevel, Good(e)
      PROVE  /\ FirstChild(A[e], A[e + 1])
             /\ A[e + 1] \in DOMAIN heap /\ Len(A[e + 1]) = e + 1
  <2>1. e < Depth /\ e \in Nat
    BY <1>1
  <2> DEFINE M == heap[A[e]].child_mask
  <2>2. M # {} /\ M \subseteq Byte /\ A[e] \in Address
    BY <1>4, <2>1, ReadyTree DEF Node
  <2>3. PICK b \in M : b = Least(M) /\ \A c \in M : b <= c
    BY <2>2, LeastByte
  <2>4. heap[A[e]].children[b] = Append(A[e], b) /\ Append(A[e], b) \in DOMAIN heap
    BY <1>4, <2>2, ChildThere
  <2>5. A[e + 1] = Append(A[e], b)
    BY <1>2, <2>2, <2>3, <2>4 DEF Smallest
  <2>6. Len(Append(A[e], b)) = e + 1
    <3>1. Len(A[e]) = e /\ b \in Byte
      BY <1>4, <2>2
    <3>2. Len(Append(A[e], b)) = Len(A[e]) + 1
      BY <2>2, <3>1, LongerPath, Zenon
    <3> QED BY <3>1, <3>2
  <2> QED BY <2>3, <2>4, <2>5, <2>6 DEF FirstChild
<1> DEFINE Bad == {e \in d..Depth : ~(Stuck(A[e]) \/ \A f \in d..e : Good(f))}
<1>5. Bad = {}
  <2> SUFFICES ASSUME Bad # {} PROVE FALSE
    OBVIOUS
  <2>1. PICK e \in Bad : \A f \in Bad : e <= f
    <3>1. Bad \subseteq Nat
      BY <1>1
    <3> QED BY <3>1, LeastOfNaturals
  <2>2. e \in d..Depth /\ ~Stuck(A[e]) /\ ~ \A f \in d..e : Good(f)
    OBVIOUS
  <2> HIDE DEF Good
  <2>3. A[e] \in DOMAIN heap /\ Len(A[e]) = e => Good(e)
    BY <1>1, <2>2 DEF Good, Stuck
  <2>4. e # d
    <3>1. \A f \in d..d : f = d
      OBVIOUS
    <3> QED BY <1>2, <2>2, <2>3, <3>1
  <2>5. PICK f \in d..LastLevel : f + 1 = e /\ f \in d..Depth /\ ~(e <= f)
    <3>1. e - 1 \in d..LastLevel /\ (e - 1) + 1 = e /\ e - 1 \in d..Depth /\ ~(e <= e - 1)
      BY <1>1, <2>2, <2>4
    <3> QED BY <3>1
  <2>6. Stuck(A[f]) \/ \A x \in d..f : Good(x)
    <3>1. f \notin Bad
      <4> HIDE DEF Bad
      <4> QED BY <2>1, <2>5
    <3> QED BY <2>5, <3>1
  <2>7. \A x \in d..f : Good(x)
    BY <1>3, <2>2, <2>5, <2>6
  <2>8. Good(f)
    BY <2>5, <2>7
  <2>9. Good(e)
    BY <1>4, <2>3, <2>5, <2>8
  <2>10. \A x \in d..e : x \in d..f \/ x = e
    BY <1>1, <2>5
  <2> QED BY <2>2, <2>7, <2>9, <2>10
<1>6. Stuck(A[Depth]) \/ \A f \in d..Depth : Good(f)
  <2>1. Depth \in d..Depth
    BY <1>1
  <2> HIDE DEF Good
  <2> QED BY <1>5, <2>1
<1>7. ASSUME \A f \in d..Depth : Good(f), NEW e \in d..Depth, e < Depth
      PROVE  FirstChild(A[e], A[e + 1])
  <2>1. e \in d..LastLevel
    BY <1>1, <1>7
  <2> HIDE DEF Good
  <2> QED BY <1>4, <1>7, <2>1
<1>8. \/ Stuck(A[Depth])
      \/ \A e \in d..Depth : /\ A[e] \in DOMAIN heap /\ Len(A[e]) = e
                             /\ e < Depth => FirstChild(A[e], A[e + 1])
  BY <1>6, <1>7
<1> QED BY <1>8 DEF A

\* Every leaf is that of a key.
LeavesOfKeys == \A a \in DOMAIN heap : Len(a) = Depth => \E k \in Key : a = PathOf(k)

LEMMA NextLeaves == Inv /\ LeavesOfKeys /\ [Next]_vars => LeavesOfKeys'
<1> SUFFICES ASSUME Inv, LeavesOfKeys, [Next]_vars PROVE LeavesOfKeys'
  OBVIOUS
<1>1. CASE InitTree
  <2>1. DOMAIN heap' = DOMAIN heap \union {<<>>} /\ Len(<<>>) # Depth
    BY <1>1, Constants DEF InitTree
  <2> QED BY <2>1 DEF LeavesOfKeys
<1>2. CASE InsertNode \/ InsertLeaf
  <2>1. pc = "insert" /\ DOMAIN heap' = DOMAIN heap \union {NewChild}
    BY <1>2 DEF InsertNode, InsertLeaf, Running, Grown
  <2>2. Len(NewChild) = level + 1 /\ level \in Nat
    BY <2>1, AtTheByte
  <2>3. level = LastLevel => NewChild = PathOf(key) /\ key \in Key
    BY <2>1, ChildOnPath
  <2>4. Len(NewChild) = Depth => level = LastLevel
    BY <2>2, Constants
  <2> QED BY <2>1, <2>3, <2>4 DEF LeavesOfKeys
<1>3. CASE DOMAIN heap' \subseteq DOMAIN heap
  BY <1>3 DEF LeavesOfKeys
<1>4. \/ InitTree \/ InsertNode \/ InsertLeaf \/ DOMAIN heap' \subseteq DOMAIN heap
  BY DEF Next, vars, treeVars, Begin, Descend, UpdateLeaf, InsertFails, DeleteMissing,
         DeleteLeaf, Return, BeginDestroy, FreeChild, FreeNode, FreeRoot, free
<1> QED BY <1>1, <1>2, <1>3, <1>4

LEMMA LeafInvariance == Spec => []LeavesOfKeys
<1>1. Init => LeavesOfKeys
  BY DEF Init, NoNodes, LeavesOfKeys
<1> QED BY <1>1, NextLeaves, Invariance, PTL DEF Spec

\* A key in the map has a node at every level of its path, and its byte is in that
\* node's mask.
LEMMA BytesThere ==
    ASSUME Ready, NEW k \in Map!Keys(Dict), NEW d \in 0..LastLevel
    PROVE  /\ k \in Key /\ Way(k, d) \in DOMAIN heap /\ extract_byte(k, d) \in Byte
           /\ extract_byte(k, d) \in heap[Way(k, d)].child_mask
<1>1. k \in Key /\ PathOf(k) \in DOMAIN heap
  BY KeysThere
<1>2. d \in 0..Depth /\ d + 1 \in 0..Depth /\ Depth \in 0..Depth
  BY Constants
<1>3. Way(k, d) \in DOMAIN heap /\ Way(k, d + 1) \in DOMAIN heap
  BY <1>1, <1>2, WayBack, Ways
<1>4. Way(k, d + 1) = Append(Way(k, d), extract_byte(k, d)) /\ extract_byte(k, d) \in Byte
  BY <1>1, Ways
<1> QED BY <1>1, <1>3, <1>4, ChildThere

LEMMA NextKeyIs ==
    ASSUME NEW j \in Map!Keys(Dict), NEW k \in Key, j >= k,
           \A h \in Map!Keys(Dict) : h >= k => j <= h
    PROVE  Map!NextKey(Dict, k) = j
<1>1. \A h \in Map!Keys(Dict) : h \in Int
  <2>1. Depth \in 0..Depth
    BY Constants
  <2> QED BY <2>1, ShapeAssumption DEF Map!Keys, Key
<1> QED BY <1>1 DEF Map!NextKey

\* What find_geq does where it leaves the path of k at a node a.
LEMMA GEQCases ==
    ASSUME NEW k \in Key, NEW D, NEW a, D = Matched(k), a = NodeAt(k)[D]
    PROVE  LET larger == {b \in heap[a].child_mask : b > extract_byte(k, D)}
               left == Leftmost(heap[a].children[Least(larger)], D + 1)[Depth]
           IN  find_geq(k) = IF D = Depth THEN heap[a].value
                             ELSE IF larger = {} THEN 0
                             ELSE IF heap[left].is_leaf THEN heap[left].value ELSE 0
BY DEF find_geq

\* A key from k on, in the tree below where k leaves it, is below a larger child.
LEMMA LargerThere ==
    ASSUME Ready, NEW k \in Key, NEW j \in Map!Keys(Dict), j >= k,
           Matched(k) \in 0..LastLevel,
           \A lev \in 0..LastLevel :
               lev < Matched(k) => extract_byte(j, lev) = extract_byte(k, lev)
    PROVE  /\ extract_byte(j, Matched(k)) \in heap[Way(k, Matched(k))].child_mask
           /\ extract_byte(j, Matched(k)) > extract_byte(k, Matched(k))
<1> DEFINE D == Matched(k)
           a == Way(k, D)
           b == extract_byte(j, D)
           c == extract_byte(k, D)
<1>1. D \in 0..LastLevel /\ D \in 0..Depth /\ D < Depth /\ j \in Key
  BY Constants, KeysThere
<1>2. a \in DOMAIN heap /\ Way(k, D + 1) \notin DOMAIN heap
  BY <1>1, MatchedDepth
<1>3. Way(j, D) = a
  BY <1>1, SameWay
<1>4. b \in heap[a].child_mask /\ b \in Byte
  BY <1>1, <1>3, BytesThere
<1>5. c \in Byte /\ Way(k, D + 1) = Append(a, c)
  BY <1>1, Ways
<1>6. c \notin heap[a].child_mask
  BY <1>2, <1>5, ChildThere
<1>7. ~(b < c)
  <2> SUFFICES ASSUME b < c PROVE FALSE
    OBVIOUS
  <2>1. FirstLess(j, k, D)
    BY DEF FirstLess
  <2>2. j < k
    BY <1>1, <2>1, FirstByteDecides
  <2>3. j \in Int /\ k \in Int
    <3>1. Depth \in 0..Depth
      BY Constants
    <3> QED BY <1>1, <3>1, ShapeAssumption DEF Key
  <2> QED BY <2>2, <2>3
<1>8. b \in Int /\ c \in Int
  BY <1>4, <1>5, Constants
<1> HIDE DEF a, b, c, D
<1>9. b > c
  BY <1>4, <1>6, <1>7, <1>8
<1> QED BY <1>4, <1>9 DEF a, b, c, D

\* The first leaf below the next larger child is that of the next key.
ToFirstLeaf(L, d) ==
    \A e \in d..Depth : /\ L[e] \in DOMAIN heap /\ Len(L[e]) = e
                        /\ e < Depth => FirstChild(L[e], L[e + 1])

\* The bytes with a child beyond the one of the key.
Larger(k, D) == {b \in heap[Way(k, D)].child_mask : b > extract_byte(k, D)}

\* L goes on from the end of the match of k to the leaf of j, by the least larger byte.
FirstLeaf(k, D, x, L, j) ==
    /\ k \in Key /\ j \in Key /\ D \in 0..LastLevel /\ D = Matched(k)
    /\ x \in Larger(k, D) /\ \A c \in Larger(k, D) : x <= c
    /\ L[D + 1] = Append(Way(k, D), x) /\ ToFirstLeaf(L, D + 1) /\ L[Depth] = PathOf(j)

LEMMA FirstLeafIsNext ==
    ASSUME Ready, NEW k, NEW D, NEW x, NEW L, NEW j, FirstLeaf(k, D, x, L, j)
    PROVE  j \in Map!Keys(Dict) /\ j >= k /\ Map!NextKey(Dict, k) = j
<1> DEFINE larger == Larger(k, D)
<1>a. /\ k \in Key /\ j \in Key /\ D \in 0..LastLevel /\ D = Matched(k)
      /\ x \in larger /\ (\A c \in larger : x <= c)
      /\ L[D + 1] = Append(Way(k, D), x) /\ ToFirstLeaf(L, D + 1) /\ L[Depth] = PathOf(j)
  BY DEF FirstLeaf
<1>b. larger = {b \in heap[Way(k, D)].child_mask : b > extract_byte(k, D)}
  BY DEF Larger
<1> USE <1>a, <1>b
<1> HIDE DEF larger
<1>0. \A e \in (D + 1)..Depth : /\ L[e] \in DOMAIN heap /\ Len(L[e]) = e
                                /\ e < Depth => FirstChild(L[e], L[e + 1])
  BY DEF ToFirstLeaf
<1>1. /\ Depth \in Nat /\ LastLevel \in Nat /\ LastLevel + 1 = Depth
      /\ D \in 0..Depth /\ D < Depth /\ D + 1 \in (D + 1)..Depth
      /\ Depth \in (D + 1)..Depth /\ Depth \in 0..Depth
  BY Constants
<1>2. \A h \in Key : h \in Int
  BY <1>1, ShapeAssumption DEF Key
<1>3. /\ Way(k, D) \in DOMAIN heap /\ Way(k, D) \in Address
      /\ x \in Byte /\ x \in heap[Way(k, D)].child_mask
  BY <1>1, MatchedDepth, ReadyTree DEF Node
<1>4. j \in Map!Keys(Dict)
  BY <1>0, <1>1, KeysThere
<1> DEFINE Bad == {m \in 0..(Depth - (D + 1)) : L[Depth - m] # Way(j, Depth - m)}
<1>5. Bad = {}
  <2> SUFFICES ASSUME Bad # {} PROVE FALSE
    OBVIOUS
  <2>1. PICK m \in Bad : \A y \in Bad : m <= y
    <3>1. Bad \subseteq Nat
      BY <1>1
    <3> QED BY <3>1, LeastOfNaturals
  <2>2. m \in 0..(Depth - (D + 1)) /\ L[Depth - m] # Way(j, Depth - m)
    OBVIOUS
  <2>3. m # 0
    <3>1. Way(j, Depth) = PathOf(j) /\ Depth - 0 = Depth
      BY <1>1, Ways
    <3> QED BY <2>2, <3>1
  <2>4. PICK e \in (D + 1)..LastLevel :
            /\ e = Depth - m /\ e < Depth /\ e \in (D + 1)..Depth /\ e \in 0..LastLevel /\ e \in 0..Depth
            /\ e + 1 = Depth - (m - 1)
            /\ m - 1 \in 0..(Depth - (D + 1)) /\ ~(m <= m - 1)
    <3>1. /\ Depth - m \in (D + 1)..LastLevel /\ Depth - m < Depth /\ Depth - m \in (D + 1)..Depth
          /\ Depth - m \in 0..LastLevel /\ Depth - m \in 0..Depth
          /\ (Depth - m) + 1 = Depth - (m - 1)
          /\ m - 1 \in 0..(Depth - (D + 1)) /\ ~(m <= m - 1)
      BY <1>1, <2>2, <2>3
    <3> QED BY <3>1
  <2>5. L[e + 1] = Way(j, e + 1)
    <3>1. m - 1 \notin Bad
      <4> HIDE DEF Bad
      <4> QED BY <2>1, <2>4
    <3> QED BY <2>4, <3>1
  <2>6. PICK b \in heap[L[e]].child_mask : L[e + 1] = Append(L[e], b)
    BY <1>0, <2>4 DEF FirstChild
  <2>7. L[e] \in Address /\ b \in Byte
    BY <1>0, <2>4, <2>6, ReadyTree DEF Node
  <2>8. /\ Way(j, e + 1) = Append(Way(j, e), extract_byte(j, e))
        /\ extract_byte(j, e) \in Byte /\ Way(j, e) \in Address
    BY <2>4, Ways
  <2>9. Parent(L[e + 1]) = L[e] /\ Parent(Way(j, e + 1)) = Way(j, e)
    BY <2>6, <2>7, <2>8, LongerPath, ZenonT(40)
  <2> QED BY <2>2, <2>4, <2>5, <2>9
<1>6. ASSUME NEW e \in (D + 1)..Depth PROVE L[e] = Way(j, e)
  <2>1. Depth - e \in 0..(Depth - (D + 1)) /\ Depth - (Depth - e) = e
    BY <1>1
  <2> QED BY <1>5, <2>1
<1>7. Way(j, D) = Way(k, D) /\ extract_byte(j, D) = x
  <2>1. Way(j, D + 1) = Append(Way(k, D), x)
    BY <1>1, <1>6
  <2>2. /\ Way(j, D + 1) = Append(Way(j, D), extract_byte(j, D))
        /\ Way(j, D) \in Address /\ extract_byte(j, D) \in Byte
    BY <1>1, Ways
  <2>3. Parent(Way(j, D + 1)) = Way(k, D)
    <3>1. Parent(Append(Way(k, D), x)) = Way(k, D)
      BY <1>3, LongerPath
    <3> QED BY <2>1, <3>1
  <2>4. Parent(Way(j, D + 1)) = Way(j, D)
    <3>1. Parent(Append(Way(j, D), extract_byte(j, D))) = Way(j, D)
      BY <2>2, LongerPath
    <3> QED BY <2>2, <3>1
  <2>5. Way(j, D + 1)[Len(Way(k, D)) + 1] = x
    BY <1>3, <2>1, LongerPath
  <2>6. Way(j, D + 1)[Len(Way(j, D)) + 1] = extract_byte(j, D)
    BY <2>2, LongerPath
  <2> QED BY <2>3, <2>4, <2>5, <2>6
<1>8. \A lev \in 0..LastLevel : lev < D => extract_byte(j, lev) = extract_byte(k, lev)
  BY <1>1, <1>7, SameBytes
<1>9. x > extract_byte(k, D) /\ extract_byte(k, D) \in Byte
  BY Ways
<1>10. k < j
  <2>1. FirstLess(k, j, D)
    BY <1>3, <1>7, <1>8, <1>9, Constants DEF FirstLess
  <2> QED BY <2>1, FirstByteDecides
<1>11. ASSUME NEW h \in Map!Keys(Dict), h >= k PROVE j <= h
  <2> SUFFICES ASSUME h < j PROVE FALSE
    BY <1>2, KeysThere
  <2>1. h \in Key /\ ~(h < k)
    BY <1>2, <1>11, KeysThere
  <2>2. PICK e \in 0..LastLevel : FirstLess(h, j, e)
    BY <2>1, FirstDifference
  <2>3. /\ extract_byte(h, e) < extract_byte(j, e)
        /\ \A lev \in 0..LastLevel : lev < e => extract_byte(h, lev) = extract_byte(j, lev)
        /\ e \in 0..Depth
    BY <1>1, <2>2 DEF FirstLess
  <2>4. /\ extract_byte(h, e) \in Byte /\ extract_byte(j, e) \in Byte
        /\ Way(h, e) = Way(j, e)
        /\ extract_byte(h, e) \in heap[Way(j, e)].child_mask
    BY <1>4, <2>1, <2>3, BytesThere, SameWay
  <2>5. CASE e < D
    <3>1. \A lev \in 0..LastLevel : lev < e => lev < D
      BY <1>1, <2>5
    <3>2. FirstLess(h, k, e)
      BY <1>8, <2>3, <2>5, <3>1 DEF FirstLess
    <3> QED BY <2>1, <3>2, FirstByteDecides
  <2>6. CASE e = D
    <3>1. \A lev \in 0..LastLevel : lev < D => extract_byte(h, lev) = extract_byte(k, lev)
      BY <1>8, <2>3, <2>6
    <3>2. /\ extract_byte(h, D) \in heap[Way(k, D)].child_mask
          /\ extract_byte(h, D) > extract_byte(k, D)
      BY <1>1, <1>11, <3>1, LargerThere
    <3>3. extract_byte(h, D) \in larger
      BY <3>2
    <3>4. x <= extract_byte(h, D)
      BY <3>3
    <3> QED BY <1>3, <1>7, <2>3, <2>4, <2>6, <3>4, Constants
  <2>7. CASE e > D
    <3>1. e \in (D + 1)..Depth /\ e < Depth /\ e + 1 \in (D + 1)..Depth
      BY <1>1, <2>7
    <3>2. PICK b \in heap[L[e]].child_mask :
              (\A c \in heap[L[e]].child_mask : b <= c) /\ L[e + 1] = Append(L[e], b)
      BY <1>0, <3>1 DEF FirstChild
    <3>3. L[e] = Way(j, e) /\ L[e + 1] = Way(j, e + 1)
      BY <1>6, <3>1
    <3>4. L[e] \in Address /\ b \in Byte
      BY <1>0, <3>1, <3>2, ReadyTree DEF Node
    <3>5. Way(j, e + 1) = Append(Way(j, e), extract_byte(j, e))
      BY Ways
    <3>6. b = extract_byte(j, e)
      <4>1. Append(L[e], b)[Len(L[e]) + 1] = b
        BY <3>4, LongerPath
      <4>2. Append(L[e], extract_byte(j, e))[Len(L[e]) + 1] = extract_byte(j, e)
        BY <2>4, <3>4, LongerPath
      <4> QED BY <3>2, <3>3, <3>5, <4>1, <4>2
    <3>7. b <= extract_byte(h, e)
      BY <2>4, <3>2, <3>3
    <3> QED BY <2>3, <2>4, <3>6, <3>7, Constants
  <2>8. e < D \/ e = D \/ e > D
    BY <1>1
  <2> QED BY <2>5, <2>6, <2>7, <2>8
<1>12. j >= k
  BY <1>2, <1>10
<1> QED BY <1>4, <1>11, <1>12, NextKeyIs

LEMMA FindsNext == Ready /\ LeavesOfKeys => GEQSound
<1> SUFFICES ASSUME Ready, LeavesOfKeys, NEW k \in Key
             PROVE  /\ find_geq(k) # 0 => /\ \E j \in Map!Keys(Dict) : j >= k
                                          /\ find_geq(k) = Dict[Map!NextKey(Dict, k)]
                    /\ find_geq(k) = 0 =>
                          \/ NextOfMatch(k) = {}
                          \/ \E a \in DOMAIN heap : Len(a) < Depth /\ heap[a].child_mask = {}
  BY DEF GEQSound
<1>1. PICK D \in 0..Depth : D = Matched(k)
  BY MatchedDepth
<1>2. PICK a \in DOMAIN heap : /\ a = Way(k, D) /\ a = NodeAt(k)[D]
                               /\ D < Depth => Way(k, D + 1) \notin DOMAIN heap
  BY <1>1, MatchedDepth
<1>3. \A h \in Key : h \in Int
  <2>1. Depth \in 0..Depth
    BY Constants
  <2> QED BY <2>1, ShapeAssumption DEF Key
<1> DEFINE larger == {b \in heap[a].child_mask : b > extract_byte(k, D)}
           first == heap[a].children[Least(larger)]
           left == Leftmost(first, D + 1)[Depth]
<1>4. find_geq(k) = IF D = Depth THEN heap[a].value
                    ELSE IF larger = {} THEN 0
                    ELSE IF heap[left].is_leaf THEN heap[left].value ELSE 0
  BY <1>1, <1>2, GEQCases
<1> HIDE DEF left
<1>5. CASE D = Depth
  <2>1. a = PathOf(k)
    BY <1>2, <1>5, Ways
  <2>2. k \in Map!Keys(Dict) /\ find_geq(k) = Dict[k] /\ Dict[k] \in Value
    BY <1>4, <1>5, <2>1, KeysThere
  <2>3. k >= k
    BY <1>3
  <2>4. Map!NextKey(Dict, k) = k
    BY <1>3, <2>2, <2>3, NextKeyIs
  <2>5. find_geq(k) # 0
    BY <2>2, Constants
  <2> QED BY <2>2, <2>3, <2>4, <2>5
<1>6. CASE D # Depth /\ larger = {}
  <2>1. find_geq(k) = 0 /\ D \in 0..LastLevel
    BY <1>4, <1>6, Constants
  <2>2. NextOfMatch(k) = {}
    <3> SUFFICES ASSUME NEW j \in NextOfMatch(k) PROVE FALSE
      OBVIOUS
    <3>1. /\ j \in Map!Keys(Dict) /\ j >= k
          /\ \A lev \in 0..(D - 1) : extract_byte(j, lev) = extract_byte(k, lev)
      BY <1>1 DEF NextOfMatch
    <3>2. \A lev \in 0..LastLevel : lev < D => lev \in 0..(D - 1)
      BY <2>1, Constants
    <3>3. /\ extract_byte(j, D) \in heap[a].child_mask
          /\ extract_byte(j, D) > extract_byte(k, D)
      BY <1>1, <1>2, <2>1, <3>1, <3>2, LargerThere
    <3> QED BY <1>6, <3>3
  <2> QED BY <2>1, <2>2
<1>7. CASE D # Depth /\ larger # {}
  <2>1. /\ D \in 0..LastLevel /\ D + 1 \in 1..Depth /\ D \in Nat
        /\ Depth \in (D + 1)..Depth /\ D + 1 \in (D + 1)..Depth
    BY <1>7, Constants
  <2>2. larger \subseteq Byte /\ a \in Address /\ Len(a) = D
    BY <1>2, ReadyTree, Ways DEF Node
  <2>3. PICK x \in larger : x = Least(larger) /\ \A c \in larger : x <= c
    <3> HIDE DEF larger
    <3> QED BY <1>7, <2>2, LeastByte
  <2>4. first = Append(a, x) /\ first \in DOMAIN heap /\ Len(first) = D + 1
    <3>1. x \in Byte /\ x \in heap[a].child_mask
      BY <2>2
    <3>2. heap[a].children[x] = Append(a, x) /\ Append(a, x) \in DOMAIN heap
      BY <3>1, ChildThere
    <3> QED BY <2>2, <2>3, <3>1, <3>2, LongerPath
  <2> DEFINE L == Leftmost(first, D + 1)
  <2>5. L[D + 1] = first
    BY <2>1, LeftmostSteps
  <2>6. L[Depth] = left
    BY DEF left
  <2>7. \/ Stuck(L[Depth])
        \/ \A e \in (D + 1)..Depth : /\ L[e] \in DOMAIN heap /\ Len(L[e]) = e
                                     /\ e < Depth => FirstChild(L[e], L[e + 1])
    <3> HIDE DEF first
    <3> QED BY <2>1, <2>4, LeftmostFinds
  <2> HIDE DEF L, first
  <2>8. CASE Stuck(L[Depth])
    <3>1. left \in DOMAIN heap /\ Len(left) < Depth /\ heap[left].child_mask = {}
      BY <2>6, <2>8 DEF Stuck
    <3>2. ~heap[left].is_leaf
      <4>1. heap[left].is_leaf <=> Len(left) = Depth
        BY <3>1 DEF Ready, Inv, HeapOK, TreeOwnsNodes
      <4> QED BY <3>1, <4>1, Constants
    <3>3. find_geq(k) = 0
      BY <1>4, <1>7, <3>2
    <3> QED BY <3>1, <3>3
  <2>9. CASE \A e \in (D + 1)..Depth : /\ L[e] \in DOMAIN heap /\ Len(L[e]) = e
                                       /\ e < Depth => FirstChild(L[e], L[e + 1])
    <3>1. left \in DOMAIN heap /\ Len(left) = Depth
      BY <2>1, <2>6, <2>9
    <3>2. heap[left].is_leaf /\ heap[left].value \in Value
      BY <3>1 DEF Ready, Inv, HeapOK, TreeOwnsNodes
    <3>3. PICK j \in Key : left = PathOf(j)
      BY <3>1 DEF LeavesOfKeys
    <3>4. j \in Map!Keys(Dict) /\ j >= k /\ Map!NextKey(Dict, k) = j
      <4>1. L[D + 1] = Append(Way(k, D), x) /\ L[Depth] = PathOf(j)
        BY <1>2, <2>4, <2>5, <2>6, <3>3
      <4>2. larger = {b \in heap[Way(k, D)].child_mask : b > extract_byte(k, D)}
        BY <1>2
      <4>3. ToFirstLeaf(L, D + 1)
        BY <2>9 DEF ToFirstLeaf
      <4>4. D \in 0..LastLevel /\ D = Matched(k) /\ larger = Larger(k, D)
        BY <1>1, <2>1, <4>2 DEF Larger
      <4> HIDE DEF larger
      <4>5. FirstLeaf(k, D, x, L, j)
        BY <2>3, <4>1, <4>3, <4>4 DEF FirstLeaf
      <4> QED BY <4>5, FirstLeafIsNext
    <3>5. find_geq(k) = Dict[j] /\ Dict[j] # 0
      BY <1>4, <1>7, <3>1, <3>2, <3>3, KeysThere, Constants
    <3> QED BY <3>4, <3>5
  <2> QED BY <2>7, <2>8, <2>9
<1> QED BY <1>5, <1>6, <1>7

\* What find_geq returns is never a wrong key's value, and it returns one when the
\* next key is below the deepest node on the path of the key asked for and no
\* inner node has been left empty.
THEOREM GEQIsSound == Spec => []GEQSound
<1>1. Inv /\ LeavesOfKeys => GEQSound
  BY FindsNext DEF Ready, GEQSound
<1> QED BY <1>1, Invariance, LeafInvariance, PTL

=============================================================================
