---------------------------- MODULE ArtNodeProofs ----------------------------
(***************************************************************************)
(* Proofs about the inner nodes of the adaptive radix tree, for all sizes  *)
(* of the layouts.                                                         *)
(*                                                                         *)
(* An inner node is a map from bytes to children: adding a child to a node *)
(* that has none for the byte, and removing one, changes what find_child   *)
(* finds for that byte and for no other, in each layout and when a node    *)
(* grows or shrinks into another; and the node keeps as many children as   *)
(* its layout is for.                                                      *)
(***************************************************************************)
EXTENDS Art, FiniteSetTheorems, WellFoundedInduction, TLAPS

\* The fields of an inner node.
Header(n) ==
    /\ DOMAIN n = {"type", "num_children", "partial_len", "partial", "keys", "children"}
    /\ n.num_children \in Nat

\* A NODE4 or NODE16: two lists of one length, and no key twice.
Lists(n, max, C) ==
    /\ n.num_children <= max
    /\ n.keys \in [1..n.num_children -> Byte]
    /\ n.children \in [1..n.num_children -> C]
    /\ \A i, j \in 1..n.num_children : n.keys[i] = n.keys[j] => i = j

\* A NODE48: the bytes with a place and the places with a child are as many, each
\* place having one byte.
Indexes(n, C) ==
    /\ n.keys \in [Byte -> 0..Max48]
    /\ n.children \in [1..Max48 -> C \union {NULL}]
    /\ \A b \in Byte : n.keys[b] # 0 => n.children[n.keys[b]] # NULL
    /\ \A a, b \in Byte : n.keys[a] # 0 /\ n.keys[a] = n.keys[b] => a = b
    /\ \A p \in 1..Max48 : n.children[p] # NULL => \E b \in Byte : n.keys[b] = p
    /\ n.num_children = Cardinality({b \in Byte : n.keys[b] # 0})

\* A NODE256: a child or none for each byte, counted in a byte.
Direct(n, C) ==
    /\ n.children \in [Byte -> C \union {NULL}]
    /\ n.num_children = Cardinality({b \in Byte : n.children[b] # NULL}) % ByteCount

\* An inner node in any layout, with children among C.
WellFormed(n, C) ==
    /\ Header(n)
    /\ \/ n.type = "NODE4" /\ Lists(n, Max4, C)
       \/ n.type = "NODE16" /\ Lists(n, Max16, C)
       \/ n.type = "NODE48" /\ Indexes(n, C)
       \/ n.type = "NODE256" /\ Direct(n, C)

\* n2 finds what n finds, but for c, for which it finds child: nothing, if that is NULL.
FindsAlso(n, n2, c, child) ==
    \A b \in Byte : find_child(n2, b) = IF b = c THEN child ELSE find_child(n, b)

-----------------------------------------------------------------------------
\* A set of naturals that is not empty has a least member.
LEMMA LeastOfNaturals ==
    ASSUME NEW S \in SUBSET Nat, S # {}
    PROVE  \E m \in S : \A y \in S : m <= y
<1> DEFINE R == OpToRel(<, Nat)
<1>1. IsWellFoundedOn(R, Nat)
  BY NatLessThanWellFounded
<1>2. R = {x \in Nat \X Nat : x[1] < x[2]}
  BY Zenon DEF OpToRel
<1> HIDE DEF R
<1>3. PICK m \in S : \A y \in S : ~(<<y, m>> \in R)
  BY <1>1, WFMin, Zenon
<1>4. \A y \in S : m <= y
  <2> SUFFICES ASSUME NEW y \in S PROVE m <= y
    OBVIOUS
  <2>1. <<y, m>> \in Nat \X Nat /\ <<y, m>>[1] = y /\ <<y, m>>[2] = m
    OBVIOUS
  <2>2. ~(<<y, m>>[1] < <<y, m>>[2])
    BY <1>2, <1>3, <2>1, Zenon
  <2> QED BY <2>1, <2>2
<1> QED BY <1>4

\* The least of a set of naturals is in it and below the others.
LEMMA LeastIn ==
    ASSUME NEW S \in SUBSET Nat, S # {}
    PROVE  /\ Least(S) \in S
           /\ \A y \in S : Least(S) <= y
<1>1. \E x \in S : \A y \in S : x <= y
  BY LeastOfNaturals
<1> QED BY <1>1, Zenon DEF Least

\* The least of a single number is that number.
LEMMA LeastOfOne == ASSUME NEW i \in Nat PROVE Least({i}) = i
<1>1. {i} \in SUBSET Nat /\ {i} # {}
  OBVIOUS
<1> QED BY <1>1, LeastIn

\* In a list, find_child finds the child beside the key.
LEMMA FindListed ==
    ASSUME NEW C, NEW n, n.type \in {"NODE4", "NODE16"}, NEW k \in Nat, n.num_children = k,
           NEW max \in Nat, Lists(n, max, C), NEW b \in Byte
    PROVE  /\ \A i \in 1..k : n.keys[i] = b => find_child(n, b) = n.children[i]
           /\ (\A i \in 1..k : n.keys[i] # b) => find_child(n, b) = NULL
<1>1. SlotsOf(n, b) = {i \in 1..k : n.keys[i] = b}
  BY DEF SlotsOf, Listed
<1>2. ASSUME NEW i \in 1..k, n.keys[i] = b
      PROVE  find_child(n, b) = n.children[i]
  <2>1. SlotsOf(n, b) = {i}
    BY <1>1, <1>2 DEF Lists
  <2>2. Least({i}) = i
    BY LeastOfOne
  <2> QED BY <2>1, <2>2 DEF find_child
<1>3. ASSUME \A i \in 1..k : n.keys[i] # b
      PROVE  find_child(n, b) = NULL
  BY <1>1, <1>3 DEF find_child
<1> QED BY <1>2, <1>3

\* In a NODE48, find_child finds the child at the byte's place.
LEMMA FindIndexed ==
    ASSUME NEW n, n.type = "NODE48", n.keys \in [Byte -> 0..Max48], NEW b \in Byte
    PROVE  find_child(n, b) = IF n.keys[b] = 0 THEN NULL ELSE n.children[n.keys[b]]
<1>1. SlotsOf(n, b) = {n.keys[b]} \ {0}
  BY DEF SlotsOf, Listed
<1>2. n.keys[b] \in Nat
  BY SizesAssumption
<1>3. CASE n.keys[b] = 0
  BY <1>1, <1>3 DEF find_child
<1>4. CASE n.keys[b] # 0
  <2>1. SlotsOf(n, b) = {n.keys[b]}
    BY <1>1, <1>4
  <2> QED BY <2>1, <1>2, <1>4, LeastOfOne DEF find_child
<1> QED BY <1>3, <1>4

\* In a NODE256, find_child finds the child of the byte.
LEMMA FindDirect ==
    ASSUME NEW n, n.type = "NODE256", NEW b \in Byte
    PROVE  find_child(n, b) = n.children[b]
<1>1. SlotsOf(n, b) = {x \in {b} : n.children[x] # NULL}
  BY DEF SlotsOf, Listed
<1>2. b \in Nat
  BY SizesAssumption DEF Byte
<1>3. CASE n.children[b] = NULL
  BY <1>1, <1>3 DEF find_child
<1>4. CASE n.children[b] # NULL
  <2>1. SlotsOf(n, b) = {b}
    BY <1>1, <1>4
  <2> QED BY <2>1, <1>2, LeastOfOne DEF find_child
<1> QED BY <1>3, <1>4

-----------------------------------------------------------------------------
(* Adding a child.                                                          *)

\* Inserting into the lists.
LEMMA InsertListed ==
    ASSUME NEW C, NULL \notin C, NEW n, n.type \in {"NODE4", "NODE16"}, Header(n), NEW max \in Nat, Lists(n, max, C),
           n.num_children + 1 <= max,
           NEW c \in Byte, find_child(n, c) = NULL, NEW child \in C,
           NEW larger \in SUBSET (1..n.num_children)
    PROVE  LET n2 == InsertAt(n, larger, c, child)
           IN  /\ Header(n2) /\ n2.type = n.type /\ Lists(n2, max, C)
               /\ FindsAlso(n, n2, c, child)
<1> DEFINE n2 == InsertAt(n, larger, c, child)
           k == n.num_children
           idx == IF larger = {} THEN k + 1 ELSE Least(larger)
           Shifted(f, new) == [i \in 1..(k + 1) |->
                                  IF i < idx THEN f[i] ELSE IF i = idx THEN new ELSE f[i - 1]]
<1>1. k \in Nat
  BY DEF Header
<1>2. idx \in 1..(k + 1)
  <2>1. CASE larger = {}
    BY <1>1, <2>1
  <2>2. CASE larger # {}
    <3>1. larger \in SUBSET Nat
      OBVIOUS
    <3>2. Least(larger) \in larger
      BY <2>2, <3>1, LeastIn
    <3>3. Least(larger) \in 1..k
      BY <3>2
    <3>4. idx = Least(larger)
      BY <2>2
    <3> HIDE DEF idx
    <3> QED BY <1>1, <3>3, <3>4
  <2> QED BY <2>1, <2>2
<1> HIDE DEF idx
<1>3. n2 = [n EXCEPT !.num_children = k + 1, !.keys = Shifted(n.keys, c),
                     !.children = Shifted(n.children, child)]
  BY DEF InsertAt, idx
<1>4. /\ n2.num_children = k + 1 /\ n2.type = n.type
      /\ n2.keys = Shifted(n.keys, c) /\ n2.children = Shifted(n.children, child)
      /\ Header(n2)
  BY <1>1, <1>3 DEF Header
<1> HIDE DEF n2
<1>0. \A b \in Byte :
          /\ \A i \in 1..k : n.keys[i] = b => find_child(n, b) = n.children[i]
          /\ (\A i \in 1..k : n.keys[i] # b) => find_child(n, b) = NULL
  <2>1. n.num_children = k /\ k \in Nat /\ max \in Nat /\ Lists(n, max, C)
        /\ n.type \in {"NODE4", "NODE16"}
    BY <1>1
  <2> HIDE DEF k
  <2> QED BY ONLY <2>1, FindListed
<1>5. \A i \in 1..k : n.keys[i] # c
  <2>1. \A i \in 1..k : n.children[i] # NULL
    <3>1. n.children \in [1..k -> C]
      BY DEF Lists
    <3>2. \A i \in 1..k : n.children[i] \in C
      BY ONLY <3>1
    <3> QED BY ONLY <3>2, NULL \notin C
  <2> QED BY ONLY <2>1, <1>0, find_child(n, c) = NULL, c \in Byte
\* The i-th entry, for i below, at and behind the new one.
<1> DEFINE Old(i) == IF i < idx THEN i ELSE i - 1
<1>6. \A i \in 1..(k + 1) : i # idx => Old(i) \in 1..k
  BY <1>1, <1>2
<1>7. /\ n2.keys[idx] = c /\ n2.children[idx] = child
      /\ \A i \in 1..(k + 1) : i # idx => /\ n2.keys[i] = n.keys[Old(i)]
                                          /\ n2.children[i] = n.children[Old(i)]
  BY <1>1, <1>2, <1>4
<1>8. /\ DOMAIN n2.keys = 1..(k + 1) /\ DOMAIN n2.children = 1..(k + 1)
      /\ n2.keys \in [1..(k + 1) -> Byte] /\ n2.children \in [1..(k + 1) -> C]
  <2>1. ASSUME NEW T, NEW f \in [1..k -> T], NEW new \in T
        PROVE  Shifted(f, new) \in [1..(k + 1) -> T]
    BY <1>1, <1>2
  <2>2. n2.keys \in [1..(k + 1) -> Byte] /\ n2.children \in [1..(k + 1) -> C]
    <3> HIDE DEF Shifted, idx
    <3>1. n.keys \in [1..k -> Byte] /\ n.children \in [1..k -> C]
      BY DEF Lists
    <3>2. Shifted(n.keys, c) \in [1..(k + 1) -> Byte]
      BY <2>1, <3>1, Zenon
    <3>3. Shifted(n.children, child) \in [1..(k + 1) -> C]
      BY <2>1, <3>1, Zenon
    <3> QED BY <1>4, <3>2, <3>3, Zenon
  <2> QED BY <2>2
<1>9. Lists(n2, max, C)
  <2>1. ASSUME NEW i \in 1..(k + 1), NEW j \in 1..(k + 1), n2.keys[i] = n2.keys[j]
        PROVE  i = j
    <3>1. CASE i = idx \/ j = idx
      BY <1>5, <1>6, <1>7, <2>1, <3>1
    <3>2. CASE i # idx /\ j # idx
      <4>1. Old(i) = Old(j)
        BY <1>6, <1>7, <2>1, <3>2 DEF Lists
      <4> QED BY <4>1, <3>2, <1>1, <1>2
    <3> QED BY <3>1, <3>2
  <2> QED BY <1>4, <1>8, <2>1 DEF Lists
<1>10. \A b \in Byte :
           /\ \A i \in 1..(k + 1) : n2.keys[i] = b => find_child(n2, b) = n2.children[i]
           /\ (\A i \in 1..(k + 1) : n2.keys[i] # b) => find_child(n2, b) = NULL
  <2>1. n2.type \in {"NODE4", "NODE16"} /\ k + 1 \in Nat
    BY <1>1, <1>4
  <2>2. n2.num_children = k + 1
    BY <1>4
  <2> HIDE DEF k
  <2> QED BY ONLY <1>9, <2>1, <2>2, max \in Nat, FindListed
<1>11. ASSUME NEW b \in Byte
       PROVE  find_child(n2, b) = IF b = c THEN child ELSE find_child(n, b)
  <2>1. CASE b = c
    BY <1>2, <1>7, <1>10, <2>1
  <2>2. CASE b # c /\ \E i \in 1..k : n.keys[i] = b
    <3>1. PICK i \in 1..k : n.keys[i] = b
      BY <2>2
    <3>2. PICK j \in 1..(k + 1) : j # idx /\ Old(j) = i
      <4>1. CASE i < idx
        BY <4>1, <1>1, <1>2
      <4>2. CASE ~(i < idx)
        <5>1. i + 1 \in 1..(k + 1) /\ i + 1 # idx /\ Old(i + 1) = i
          BY <4>2, <1>1, <1>2
        <5> QED BY <5>1
      <4> QED BY <4>1, <4>2
    <3>3. n2.keys[j] = b /\ n2.children[j] = n.children[i]
      BY <1>7, <3>1, <3>2
    <3>4. find_child(n2, b) = n2.children[j]
      BY <1>10, <3>3
    <3>5. find_child(n, b) = n.children[i]
      BY ONLY <1>0, <3>1, b \in Byte
    <3> QED BY <2>2, <3>3, <3>4, <3>5
  <2>3. CASE b # c /\ \A i \in 1..k : n.keys[i] # b
    <3>1. \A i \in 1..(k + 1) : n2.keys[i] # b
      BY <1>6, <1>7, <2>3
    <3>2. find_child(n2, b) = NULL
      BY <1>10, <3>1
    <3>3. find_child(n, b) = NULL
      BY ONLY <1>0, <2>3, b \in Byte
    <3> QED BY <2>3, <3>2, <3>3
  <2> QED BY <2>1, <2>2, <2>3
<1> QED BY <1>4, <1>9, <1>11 DEF FindsAlso, n2

\* The bytes are a finite set of naturals.
LEMMA BytesFinite ==
    /\ Byte \subseteq Nat /\ IsFiniteSet(Byte) /\ Cardinality(Byte) = ByteCount
    /\ \A S \in SUBSET Byte : /\ IsFiniteSet(S) /\ Cardinality(S) \in Nat
                              /\ Cardinality(S) <= ByteCount
<1>1. ByteCount \in Nat /\ ByteCount > 0
  BY SizesAssumption
<1>2. Byte \subseteq Nat /\ IsFiniteSet(Byte) /\ Cardinality(Byte) = ByteCount
  <2>1. IsFiniteSet(0..(ByteCount - 1)) /\ Cardinality(0..(ByteCount - 1)) = ByteCount
    BY <1>1, FS_Interval
  <2> QED BY <1>1, <2>1 DEF Byte
<1>3. ASSUME NEW S \in SUBSET Byte
      PROVE  IsFiniteSet(S) /\ Cardinality(S) \in Nat /\ Cardinality(S) <= ByteCount
  BY <1>2, FS_Subset, FS_CardinalityType
<1> QED BY <1>2, <1>3

\* A NODE16 as a NODE48 finds the same children.
LEMMA GrowListed ==
    ASSUME NEW C, NULL \notin C, NEW n, n.type = "NODE16", Header(n), Lists(n, Max16, C)
    PROVE  LET n2 == Grown16(n)
           IN  /\ Header(n2) /\ n2.type = "NODE48" /\ Indexes(n2, C)
               /\ n2.num_children = n.num_children
               /\ \A b \in Byte : find_child(n2, b) = find_child(n, b)
<1> DEFINE n2 == Grown16(n)
<1>1. PICK k \in Nat : k = n.num_children
  BY DEF Header
<1>2. /\ k <= Max16 /\ Max16 \in Nat /\ Max48 \in Nat /\ Max16 < Max48
      /\ n.keys \in [1..k -> Byte] /\ n.children \in [1..k -> C]
      /\ \A i, j \in 1..k : n.keys[i] = n.keys[j] => i = j
  BY <1>1, SizesAssumption DEF Lists
<1> DEFINE index == [b \in Byte |-> IF SlotsOf(n, b) = {} THEN 0 ELSE Least(SlotsOf(n, b))]
           places == [p \in 1..Max48 |-> IF p <= k THEN n.children[p] ELSE NULL]
<1>3. /\ n2.num_children = k /\ n2.type = "NODE48" /\ n2.keys = index
      /\ n2.children = places /\ Header(n2)
  BY <1>1 DEF Header, Grown16
<1> HIDE DEF n2
<1>4. ASSUME NEW b \in Byte
      PROVE  \/ \E i \in 1..k : n.keys[i] = b /\ index[b] = i
             \/ (\A i \in 1..k : n.keys[i] # b) /\ index[b] = 0
  <2>1. SlotsOf(n, b) = {i \in 1..k : n.keys[i] = b}
    BY <1>1 DEF SlotsOf, Listed
  <2>2. CASE \A i \in 1..k : n.keys[i] # b
    BY <2>1, <2>2
  <2>3. ASSUME NEW i \in 1..k, n.keys[i] = b PROVE index[b] = i
    <3>1. SlotsOf(n, b) = {i}
      BY <1>2, <2>1, <2>3
    <3>2. Least({i}) = i
      BY LeastOfOne
    <3> QED BY <3>1, <3>2
  <2> QED BY <2>2, <2>3
<1>5. \A i \in 1..k : index[n.keys[i]] = i
  <2> SUFFICES ASSUME NEW i \in 1..k PROVE index[n.keys[i]] = i
    OBVIOUS
  <2>1. n.keys[i] \in Byte
    BY <1>2
  <2> HIDE DEF index
  <2> QED BY <1>2, <1>4, <2>1
<1>6. \A b \in Byte : index[b] # 0 => index[b] \in 1..k /\ n.keys[index[b]] = b
  <2> HIDE DEF index
  <2> QED BY <1>4
<1>7. index \in [Byte -> 0..Max48]
  <2>1. \A b \in Byte : index[b] \in 0..Max48
    <3> HIDE DEF index
    <3> QED BY <1>2, <1>6
  <2> QED BY <2>1
<1>8. /\ places \in [1..Max48 -> C \union {NULL}]
      /\ \A p \in 1..k : p \in 1..Max48 /\ places[p] = n.children[p] /\ places[p] # NULL
      /\ \A p \in 1..Max48 : places[p] # NULL => p \in 1..k
  BY <1>2
<1> HIDE DEF index, places
<1>9. Cardinality({b \in Byte : index[b] # 0}) = k
  <2> DEFINE has == {b \in Byte : index[b] # 0}
             f == [i \in 1..k |-> n.keys[i]]
  <2>1. \A i \in 1..k : f[i] \in has
    BY <1>2, <1>5
  <2>2. \A b \in has : \E i \in 1..k : f[i] = b
    BY <1>6
  <2>3. f \in Bijection(1..k, has)
    BY <1>2, <2>1, <2>2 DEF Bijection, Injection, Surjection, IsInjective
  <2>4. ExistsBijection(1..k, has)
    BY <2>3 DEF ExistsBijection
  <2> HIDE DEF has
  <2>5. Cardinality(has) = k
    BY <2>4, FS_CountingElements
  <2> QED BY <2>5 DEF has
<1>10. Indexes(n2, C)
  <2>1. \A a, b \in Byte : index[a] # 0 /\ index[a] = index[b] => a = b
    BY <1>6
  <2>2. \A p \in 1..Max48 : places[p] # NULL => \E b \in Byte : index[b] = p
    BY <1>2, <1>5, <1>8
  <2> QED BY <1>3, <1>6, <1>7, <1>8, <1>9, <2>1, <2>2 DEF Indexes
<1>11. ASSUME NEW b \in Byte
       PROVE  find_child(n2, b) = find_child(n, b)
  <2>1. find_child(n2, b) = IF index[b] = 0 THEN NULL ELSE places[index[b]]
    BY <1>3, <1>7, FindIndexed
  <2>0. /\ \A i \in 1..k : n.keys[i] = b => find_child(n, b) = n.children[i]
        /\ (\A i \in 1..k : n.keys[i] # b) => find_child(n, b) = NULL
    <3>1. n.type \in {"NODE4", "NODE16"} /\ k \in Nat /\ n.num_children = k /\ Max16 \in Nat
      BY <1>1, <1>2
    <3> QED BY ONLY <3>1, Lists(n, Max16, C), b \in Byte, FindListed
  <2>2. CASE index[b] = 0
    <3>1. \A i \in 1..k : n.keys[i] # b
      BY <1>5, <2>2
    <3> QED BY <2>0, <2>1, <2>2, <3>1
  <2>3. CASE index[b] # 0
    <3>1. index[b] \in 1..k /\ n.keys[index[b]] = b
      BY <1>6, <2>3
    <3> QED BY <1>8, <2>0, <2>1, <2>3, <3>1
  <2> QED BY <2>2, <2>3
<1> QED BY <1>1, <1>3, <1>10, <1>11 DEF n2

\* The children of a NODE48 are found at places of their own: there are no more of
\* them than places, and as many only if no place is free.
LEMMA PlacesTaken ==
    ASSUME NEW C, NEW n, n.type = "NODE48", Header(n), Indexes(n, C)
    PROVE  /\ n.num_children <= Max48
           /\ n.num_children < Max48 => \E p \in 1..Max48 : n.children[p] = NULL
<1> DEFINE has == {b \in Byte : n.keys[b] # 0}
           f == [b \in has |-> n.keys[b]]
<1>1. IsFiniteSet(1..Max48) /\ Cardinality(1..Max48) = Max48 /\ Max48 \in Nat
  <2>1. Max48 \in Nat /\ Max48 > 0
    BY SizesAssumption
  <2> QED BY <2>1, FS_Interval
<1>2. f \in Injection(has, 1..Max48)
  <2>1. \A b \in has : f[b] \in 1..Max48
    BY <1>1 DEF Indexes
  <2>2. \A a, b \in has : f[a] = f[b] => a = b
    BY DEF Indexes
  <2> QED BY <2>1, <2>2 DEF Injection, IsInjective
<1>3. /\ Cardinality(has) <= Max48
      /\ Cardinality(has) = Max48 <=> f \in Surjection(has, 1..Max48)
  <2> HIDE DEF f, has
  <2> QED BY <1>1, <1>2, FS_Injection
<1>4. n.num_children = Cardinality(has)
  BY DEF Indexes
<1>5. ASSUME \A p \in 1..Max48 : n.children[p] # NULL
      PROVE  f \in Surjection(has, 1..Max48)
  <2>1. \A p \in 1..Max48 : \E b \in has : f[b] = p
    BY <1>1, <1>5 DEF Indexes
  <2> QED BY <1>2, <2>1 DEF Injection, Surjection
<1> HIDE DEF f, has
<1> QED BY <1>1, <1>3, <1>4, <1>5 DEF Header

\* A new child in a NODE48 that has a free place.
LEMMA InsertIndexed ==
    ASSUME NEW C, NULL \notin C, NEW n, n.type = "NODE48", Header(n), Indexes(n, C), n.num_children < Max48,
           NEW c \in Byte, find_child(n, c) = NULL, NEW child \in C
    PROVE  LET n2 == add_child48(n, c, child)
           IN  /\ Header(n2) /\ n2.type = "NODE48" /\ Indexes(n2, C)
               /\ FindsAlso(n, n2, c, child)
<1> DEFINE n2 == add_child48(n, c, child)
           pos == Least({p \in 1..Max48 : n.children[p] = NULL})
<1>1. pos \in 1..Max48 /\ n.children[pos] = NULL
  <2>1. {p \in 1..Max48 : n.children[p] = NULL} # {}
    BY PlacesTaken
  <2>2. {p \in 1..Max48 : n.children[p] = NULL} \in SUBSET Nat
    BY SizesAssumption
  <2>3. pos \in {p \in 1..Max48 : n.children[p] = NULL}
    BY <2>1, <2>2, LeastIn
  <2> QED BY <2>3
<1> HIDE DEF pos
<1>2. /\ n2.num_children = n.num_children + 1 /\ n2.type = "NODE48"
      /\ n2.keys = [n.keys EXCEPT ![c] = pos] /\ n2.children = [n.children EXCEPT ![pos] = child]
      /\ Header(n2)
  BY DEF Header, add_child48, pos
<1> HIDE DEF n2
<1>3. n.keys[c] = 0
  <2>1. find_child(n, c) = IF n.keys[c] = 0 THEN NULL ELSE n.children[n.keys[c]]
    BY FindIndexed DEF Indexes
  <2> QED BY <2>1 DEF Indexes
<1>4. \A b \in Byte : n.keys[b] # pos
  BY <1>1, SizesAssumption DEF Indexes
<1>5. /\ n2.keys \in [Byte -> 0..Max48]
      /\ n2.children \in [1..Max48 -> C \union {NULL}]
  BY <1>1, <1>2, SizesAssumption DEF Indexes
<1>6. /\ n2.keys[c] = pos /\ \A b \in Byte : b # c => n2.keys[b] = n.keys[b]
      /\ n2.children[pos] = child
      /\ \A p \in 1..Max48 : p # pos => n2.children[p] = n.children[p]
  BY <1>1, <1>2 DEF Indexes
<1>7. n2.num_children = Cardinality({b \in Byte : n2.keys[b] # 0})
  <2> DEFINE has == {b \in Byte : n.keys[b] # 0}
  <2>1. {b \in Byte : n2.keys[b] # 0} = has \union {c}
    BY <1>1, <1>6
  <2>2. IsFiniteSet(has)
    BY BytesFinite
  <2>3. c \notin has
    BY <1>3
  <2>4. Cardinality(has) = n.num_children
    BY DEF Indexes
  <2> HIDE DEF has
  <2> QED BY <1>2, <2>1, <2>2, <2>3, <2>4, FS_AddElement, ZenonT(40)
<1>8. Indexes(n2, C)
  <2>1. \A b \in Byte : n.keys[b] # 0 => n.keys[b] \in 1..Max48
    BY SizesAssumption DEF Indexes
  <2>2. \A b \in Byte : n2.keys[b] # 0 => n2.children[n2.keys[b]] # NULL
    BY <1>4, <1>6, <2>1 DEF Indexes
  <2>3. \A a, b \in Byte : n2.keys[a] # 0 /\ n2.keys[a] = n2.keys[b] => a = b
    BY <1>4, <1>6 DEF Indexes
  <2>4. \A p \in 1..Max48 : n2.children[p] # NULL => \E b \in Byte : n2.keys[b] = p
    BY <1>1, <1>3, <1>6 DEF Indexes
  <2> QED BY <1>5, <1>7, <2>2, <2>3, <2>4 DEF Indexes
<1>9. ASSUME NEW b \in Byte
      PROVE  find_child(n2, b) = IF b = c THEN child ELSE find_child(n, b)
  <2>1. find_child(n2, b) = IF n2.keys[b] = 0 THEN NULL ELSE n2.children[n2.keys[b]]
    BY <1>2, <1>5, FindIndexed
  <2>2. find_child(n, b) = IF n.keys[b] = 0 THEN NULL ELSE n.children[n.keys[b]]
    BY FindIndexed DEF Indexes
  <2>3. n.keys[b] # 0 => n.keys[b] \in 1..Max48
    BY SizesAssumption DEF Indexes
  <2> QED BY <1>1, <1>4, <1>6, <2>1, <2>2, <2>3
<1> QED BY <1>2, <1>8, <1>9 DEF FindsAlso, n2

\* A full NODE48 as a NODE256 finds the same children.
LEMMA GrowIndexed ==
    ASSUME NEW C, NEW n, n.type = "NODE48", Header(n), Indexes(n, C)
    PROVE  LET n2 == Grown48(n)
           IN  /\ Header(n2) /\ n2.type = "NODE256" /\ Direct(n2, C)
               /\ \A b \in Byte : find_child(n2, b) = find_child(n, b)
<1> DEFINE n2 == Grown48(n)
<1>1. /\ n2.num_children = n.num_children /\ n2.type = "NODE256"
      /\ n2.children = [b \in Byte |-> find_child(n, b)] /\ Header(n2)
  BY DEF Header, Grown48
<1> HIDE DEF n2
<1>2. \A b \in Byte : /\ find_child(n, b) \in C \union {NULL}
                      /\ find_child(n, b) # NULL <=> n.keys[b] # 0
  <2> SUFFICES ASSUME NEW b \in Byte
               PROVE  /\ find_child(n, b) \in C \union {NULL}
                      /\ find_child(n, b) # NULL <=> n.keys[b] # 0
    OBVIOUS
  <2>1. find_child(n, b) = IF n.keys[b] = 0 THEN NULL ELSE n.children[n.keys[b]]
    BY FindIndexed DEF Indexes
  <2>2. n.keys[b] # 0 => n.keys[b] \in 1..Max48
    BY SizesAssumption DEF Indexes
  <2>3. CASE n.keys[b] = 0
    BY <2>1, <2>3
  <2>4. CASE n.keys[b] # 0
    <3>1. /\ n.children[n.keys[b]] \in C \union {NULL}
          /\ n.children[n.keys[b]] # NULL
      BY <2>2, <2>4 DEF Indexes
    <3> QED BY <2>1, <2>4, <3>1
  <2> QED BY <2>3, <2>4
<1>3. Direct(n2, C)
  <2>1. {b \in Byte : n2.children[b] # NULL} = {b \in Byte : n.keys[b] # 0}
    BY <1>1, <1>2
  <2>2. n2.num_children = n2.num_children % ByteCount
    <3>1. n2.num_children \in 0..(ByteCount - 1) /\ ByteCount \in Nat
      BY <1>1, PlacesTaken, SizesAssumption DEF Header
    <3> QED BY <3>1
  <2>3. n2.num_children = Cardinality({b \in Byte : n.keys[b] # 0})
    BY <1>1 DEF Indexes
  <2>4. n2.children \in [Byte -> C \union {NULL}]
    BY <1>1, <1>2
  <2> QED BY <2>1, <2>2, <2>3, <2>4 DEF Direct
<1>4. ASSUME NEW b \in Byte PROVE find_child(n2, b) = find_child(n, b)
  BY <1>1, FindDirect
<1> QED BY <1>1, <1>3, <1>4 DEF n2

\* Counting one more in a byte.
LEMMA OneMore ==
    ASSUME NEW m \in Nat, m > 1, NEW x \in 0..(m - 1)
    PROVE  x % m = x /\ ((x % m) + 1) % m = (x + 1) % m
  OBVIOUS

\* A new child in a NODE256.
LEMMA InsertDirect ==
    ASSUME NEW C, NULL \notin C, NEW n, n.type = "NODE256", Header(n), Direct(n, C),
           NEW c \in Byte, find_child(n, c) = NULL, NEW child \in C
    PROVE  LET n2 == add_child256(n, c, child)
           IN  /\ Header(n2) /\ n2.type = "NODE256" /\ Direct(n2, C)
               /\ FindsAlso(n, n2, c, child)
<1> DEFINE n2 == add_child256(n, c, child)
           has == {b \in Byte : n.children[b] # NULL}
<1>1. ByteCount \in Nat /\ ByteCount > 1
  BY SizesAssumption
<1>2. /\ n2.num_children = (n.num_children + 1) % ByteCount /\ n2.type = "NODE256"
      /\ n2.children = [n.children EXCEPT ![c] = child]
      /\ DOMAIN n2 = DOMAIN n
  BY DEF Header, add_child256
<1> HIDE DEF n2
<1>3. Header(n2)
  BY <1>1, <1>2 DEF Header
<1>4. n.children[c] = NULL
  BY FindDirect
<1>5. {b \in Byte : n2.children[b] # NULL} = has \union {c}
  BY <1>2 DEF Direct
<1>6. IsFiniteSet(has) /\ Cardinality(has) \in 0..(ByteCount - 1)
  <2>1. has \in SUBSET Byte /\ has # Byte
    BY <1>4
  <2> HIDE DEF has
  <2>2. IsFiniteSet(has) /\ Cardinality(has) \in Nat /\ Cardinality(has) <= ByteCount
    BY <2>1, BytesFinite
  <2>3. IsFiniteSet(Byte) /\ Cardinality(Byte) = ByteCount
    BY BytesFinite
  <2>4. Cardinality(has) # ByteCount
    BY <2>1, <2>3, FS_Subset
  <2> QED BY <1>1, <2>2, <2>4
<1>7. Cardinality(has \union {c}) = Cardinality(has) + 1
  <2>1. c \notin has
    BY <1>4
  <2> HIDE DEF has
  <2> QED BY <1>6, <2>1, FS_AddElement
<1>8. n2.num_children = (Cardinality(has) + 1) % ByteCount
  <2>1. n.num_children = Cardinality(has) % ByteCount
    BY DEF Direct
  <2> HIDE DEF has
  <2> QED BY <1>1, <1>2, <1>6, <2>1, OneMore
<1>9. Direct(n2, C)
  <2>1. n2.children \in [Byte -> C \union {NULL}]
    BY <1>2 DEF Direct
  <2> HIDE DEF has
  <2> QED BY <2>1, <1>5, <1>7, <1>8 DEF Direct
<1>10. ASSUME NEW b \in Byte
       PROVE  find_child(n2, b) = IF b = c THEN child ELSE find_child(n, b)
  BY <1>2, FindDirect DEF Direct
<1> QED BY <1>2, <1>3, <1>9, <1>10 DEF FindsAlso, n2

\* Growing and adding: what the larger node finds is what the smaller one found.
LEMMA FindsThrough ==
    ASSUME NEW n, NEW n1, NEW n2, NEW c, NEW child,
           \A b \in Byte : find_child(n1, b) = find_child(n, b), FindsAlso(n1, n2, c, child)
    PROVE  FindsAlso(n, n2, c, child)
  BY DEF FindsAlso

\* add_child48, in a node with a free place and in a full one that grows.
LEMMA Add48 ==
    ASSUME NEW C, NULL \notin C, NEW n, n.type = "NODE48", Header(n), Indexes(n, C),
           NEW c \in Byte, find_child(n, c) = NULL, NEW child \in C
    PROVE  LET n2 == add_child48(n, c, child) IN WellFormed(n2, C) /\ FindsAlso(n, n2, c, child)
<1>1. CASE n.num_children < Max48
  BY <1>1, InsertIndexed DEF WellFormed
<1>2. CASE ~(n.num_children < Max48)
  <2> DEFINE n1 == Grown48(n)
  <2>1. /\ Header(n1) /\ n1.type = "NODE256" /\ Direct(n1, C)
        /\ \A b \in Byte : find_child(n1, b) = find_child(n, b)
    BY GrowIndexed
  <2>2. add_child48(n, c, child) = add_child256(n1, c, child)
    BY <1>2 DEF add_child48
  <2> HIDE DEF n1
  <2>3. LET n2 == add_child256(n1, c, child)
        IN  /\ Header(n2) /\ n2.type = "NODE256" /\ Direct(n2, C) /\ FindsAlso(n1, n2, c, child)
    BY <2>1, InsertDirect
  <2> QED BY <2>1, <2>2, <2>3, FindsThrough DEF WellFormed
<1> QED BY <1>1, <1>2

\* add_child16, in a node with room and in a full one that grows.
LEMMA Add16 ==
    ASSUME NEW C, NULL \notin C, NEW n, n.type = "NODE16", Header(n), Lists(n, Max16, C),
           NEW c \in Byte, find_child(n, c) = NULL, NEW child \in C
    PROVE  LET n2 == add_child16(n, c, child) IN WellFormed(n2, C) /\ FindsAlso(n, n2, c, child)
<1>1. CASE n.num_children < Max16
  <2> DEFINE larger == {i \in 1..n.num_children : AsCompared(c) < AsCompared(n.keys[i])}
             n2 == InsertAt(n, larger, c, child)
  <2>1. add_child16(n, c, child) = n2
    BY <1>1 DEF add_child16
  <2>2. larger \in SUBSET (1..n.num_children) /\ Max16 \in Nat /\ n.num_children + 1 <= Max16
    BY <1>1, SizesAssumption DEF Header
  <2> HIDE DEF larger
  <2>3. Header(n2) /\ n2.type = n.type /\ Lists(n2, Max16, C) /\ FindsAlso(n, n2, c, child)
    BY <2>2, InsertListed
  <2> QED BY <2>1, <2>3 DEF WellFormed
<1>2. CASE ~(n.num_children < Max16)
  <2> DEFINE n1 == Grown16(n)
  <2>1. /\ Header(n1) /\ n1.type = "NODE48" /\ Indexes(n1, C)
        /\ \A b \in Byte : find_child(n1, b) = find_child(n, b)
    BY GrowListed
  <2>2. add_child16(n, c, child) = add_child48(n1, c, child)
    BY <1>2 DEF add_child16
  <2> HIDE DEF n1
  <2>3. LET n2 == add_child48(n1, c, child) IN WellFormed(n2, C) /\ FindsAlso(n1, n2, c, child)
    BY <2>1, Add48
  <2> QED BY <2>1, <2>2, <2>3, FindsThrough
<1> QED BY <1>1, <1>2

\* add_child4, in a node with room and in a full one that grows.
LEMMA Add4 ==
    ASSUME NEW C, NULL \notin C, NEW n, n.type = "NODE4", Header(n), Lists(n, Max4, C),
           NEW c \in Byte, find_child(n, c) = NULL, NEW child \in C
    PROVE  LET n2 == add_child4(n, c, child) IN WellFormed(n2, C) /\ FindsAlso(n, n2, c, child)
<1>1. CASE n.num_children < Max4
  <2> DEFINE larger == {i \in 1..n.num_children : c < n.keys[i]}
             n2 == InsertAt(n, larger, c, child)
  <2>1. add_child4(n, c, child) = n2
    BY <1>1 DEF add_child4
  <2>2. larger \in SUBSET (1..n.num_children) /\ Max4 \in Nat /\ n.num_children + 1 <= Max4
    BY <1>1, SizesAssumption DEF Header
  <2> HIDE DEF larger
  <2>3. Header(n2) /\ n2.type = n.type /\ Lists(n2, Max4, C) /\ FindsAlso(n, n2, c, child)
    BY <2>2, InsertListed
  <2> QED BY <2>1, <2>3 DEF WellFormed
<1>2. CASE ~(n.num_children < Max4)
  <2> DEFINE n1 == [n EXCEPT !.type = "NODE16"]
  <2>1. /\ Header(n1) /\ n1.type = "NODE16" /\ n1.num_children = n.num_children
        /\ n1.keys = n.keys /\ n1.children = n.children
    BY DEF Header
  <2>2. add_child4(n, c, child) = add_child16(n1, c, child)
    BY <1>2 DEF add_child4
  <2> HIDE DEF n1
  <2>3. Lists(n1, Max16, C)
    BY <2>1, SizesAssumption DEF Lists, Header
  <2>4. \A b \in Byte : find_child(n1, b) = find_child(n, b)
    BY <2>1 DEF find_child, SlotsOf, Listed
  <2>5. LET n2 == add_child16(n1, c, child) IN WellFormed(n2, C) /\ FindsAlso(n1, n2, c, child)
    BY <2>1, <2>3, <2>4, Add16
  <2> QED BY <2>2, <2>4, <2>5, FindsThrough
<1> QED BY <1>1, <1>2

\* art.c, add_child: in a well-formed node with no child for c, whatever its layout
\* and however full, the child is found for c afterwards and all others as before.
THEOREM AddChildCorrect ==
    ASSUME NEW C, NULL \notin C, NEW n, WellFormed(n, C), NEW c \in Byte, find_child(n, c) = NULL, NEW child \in C
    PROVE  WellFormed(add_child(n, c, child), C) /\ FindsAlso(n, add_child(n, c, child), c, child)
<1>1. CASE n.type = "NODE4"
  BY <1>1, Add4 DEF WellFormed, add_child
<1>2. CASE n.type = "NODE16"
  BY <1>2, Add16 DEF WellFormed, add_child
<1>3. CASE n.type = "NODE48"
  BY <1>3, Add48 DEF WellFormed, add_child
<1>4. CASE n.type = "NODE256"
  <2>1. add_child(n, c, child) = add_child256(n, c, child)
    BY <1>4 DEF add_child
  <2> QED BY <1>4, <2>1, InsertDirect DEF WellFormed
<1> QED BY <1>1, <1>2, <1>3, <1>4 DEF WellFormed

-----------------------------------------------------------------------------
(* Removing a child.                                                        *)

\* Counting a set of bytes from below: the ranks are 1..Cardinality(S), each is
\* that of one byte, and Nth gives it.
LEMMA RankCounts ==
    ASSUME NEW S \in SUBSET Byte
    PROVE  /\ \A b \in S : Rank(S, b) \in 1..Cardinality(S) /\ Nth(S, Rank(S, b)) = b
           /\ \A i \in 1..Cardinality(S) : Nth(S, i) \in S /\ Rank(S, Nth(S, i)) = i
           /\ \A a, b \in S : a < b => Rank(S, a) < Rank(S, b)
<1> DEFINE upTo(b) == {a \in S : a <= b}
           k == Cardinality(S)
           f == [b \in S |-> Rank(S, b)]
<1>1. IsFiniteSet(S) /\ k \in Nat
  BY BytesFinite
<1>2. \A b \in S : IsFiniteSet(upTo(b)) /\ Rank(S, b) = Cardinality(upTo(b))
  BY BytesFinite DEF Rank
<1>3. ASSUME NEW b \in S PROVE Rank(S, b) \in 1..k
  <2>1. upTo(b) \in SUBSET S /\ b \in upTo(b)
    BY BytesFinite
  <2> HIDE DEF upTo
  <2>2. Cardinality(upTo(b)) <= k /\ Cardinality(upTo(b)) \in Nat
    BY <1>1, <1>2, <2>1, FS_Subset, FS_CardinalityType
  <2>3. Cardinality(upTo(b)) # 0
    BY <1>2, <2>1, FS_EmptySet
  <2> QED BY <1>1, <1>2, <2>2, <2>3
<1>4. ASSUME NEW a \in S, NEW b \in S, a < b PROVE Rank(S, a) < Rank(S, b)
  <2>1. upTo(a) \in SUBSET upTo(b) /\ b \in upTo(b) /\ b \notin upTo(a)
    <3>1. \A x \in S : x \in Nat
      BY BytesFinite
    <3>2. \A x \in S : x <= a => x <= b
      BY <1>4, <3>1
    <3>3. b <= b /\ ~(b <= a)
      BY <1>4, <3>1
    <3> QED BY <3>2, <3>3
  <2> HIDE DEF upTo
  <2>2. upTo(a) # upTo(b)
    BY <2>1
  <2>3. /\ Cardinality(upTo(a)) <= Cardinality(upTo(b))
        /\ Cardinality(upTo(a)) # Cardinality(upTo(b))
    BY <1>2, <2>1, <2>2, FS_Subset
  <2> QED BY <1>1, <1>2, <1>3, <2>3
<1>5. \A a, b \in S : Rank(S, a) = Rank(S, b) => a = b
  <2> SUFFICES ASSUME NEW a \in S, NEW b \in S, a # b PROVE Rank(S, a) # Rank(S, b)
    OBVIOUS
  <2>1. a \in Nat /\ b \in Nat
    BY BytesFinite
  <2>2. Rank(S, a) \in Nat /\ Rank(S, b) \in Nat
    BY <1>1, <1>3
  <2>3. a < b \/ b < a
    BY <2>1
  <2> QED BY <1>4, <2>2, <2>3
<1>6. f \in Surjection(S, 1..k)
  <2>1. f \in Injection(S, 1..k)
    <3> HIDE DEF k
    <3> QED BY <1>3, <1>5 DEF Injection, IsInjective
  <2>2. IsFiniteSet(1..k) /\ Cardinality(1..k) = k
    <3> HIDE DEF k
    <3> QED BY <1>1, FS_Interval
  <2> HIDE DEF f
  <2> QED BY <2>1, <2>2, FS_Injection
<1>7. ASSUME NEW i \in 1..k PROVE Nth(S, i) \in S /\ Rank(S, Nth(S, i)) = i
  <2>1. \E b \in S : Rank(S, b) = i
    BY <1>6 DEF Surjection
  <2> QED BY <2>1, Zenon DEF Nth
<1>8. ASSUME NEW b \in S PROVE Nth(S, Rank(S, b)) = b
  <2>1. Rank(S, b) \in 1..k
    BY <1>3
  <2>2. Nth(S, Rank(S, b)) \in S /\ Rank(S, Nth(S, Rank(S, b))) = Rank(S, b)
    BY <1>7, <2>1
  <2> QED BY <1>5, <2>2
<1> QED BY <1>3, <1>4, <1>7, <1>8

\* A NODE256 with few enough children as a NODE48.
LEMMA ShrinkDirect ==
    ASSUME NEW C, NEW n, n.type = "NODE256", Header(n), Direct(n, C), n.num_children <= Max48,
           n.num_children = Cardinality({b \in Byte : n.children[b] # NULL})
    PROVE  LET n2 == Shrunk256(n)
           IN  WellFormed(n2, C) /\ \A b \in Byte : find_child(n2, b) = find_child(n, b)
<1> DEFINE n2 == Shrunk256(n)
           has == {b \in Byte : n.children[b] # NULL}
           index == [b \in Byte |-> IF b \in has THEN Rank(has, b) ELSE 0]
           places == [p \in 1..Max48 |-> IF p <= n.num_children THEN n.children[Nth(has, p)]
                                         ELSE NULL]
<1>1. PICK k \in Nat : k = n.num_children
  BY DEF Header
<1>2. k = Cardinality(has) /\ k <= Max48 /\ Max48 \in Nat /\ has \in SUBSET Byte
  BY <1>1, SizesAssumption
<1>3. /\ n2.num_children = k /\ n2.type = "NODE48" /\ n2.keys = index
      /\ n2.children = places /\ Header(n2)
  BY <1>1 DEF Header, Shrunk256
<1>4. \A b \in Byte : b \in has <=> n.children[b] # NULL
  OBVIOUS
<1> HIDE DEF n2, has
<1>5. /\ \A b \in has : Rank(has, b) \in 1..k /\ Nth(has, Rank(has, b)) = b
      /\ \A i \in 1..k : Nth(has, i) \in has /\ Rank(has, Nth(has, i)) = i
  BY <1>2, RankCounts
<1>6. \A b \in Byte : index[b] # 0 <=> b \in has
  BY <1>5
<1>7. \A b \in has : index[b] = Rank(has, b) /\ index[b] \in 1..k
  BY <1>2, <1>5
<1>8. /\ \A p \in 1..Max48 : p \notin 1..k => places[p] = NULL
      /\ \A p \in 1..k : p \in 1..Max48 /\ places[p] = n.children[Nth(has, p)]
  <2>1. \A p \in 1..Max48 : p \in 1..k <=> p <= n.num_children
    BY <1>1, <1>2
  <2>2. \A p \in 1..k : p \in 1..Max48
    BY <1>2
  <2> QED BY <2>1, <2>2
<1>9. index \in [Byte -> 0..Max48]
  <2>1. 0 \in 0..Max48 /\ \A i \in 1..k : i \in 0..Max48
    BY <1>2
  <2> QED BY <1>5, <2>1
<1>10. places \in [1..Max48 -> C \union {NULL}]
  <2>1. \A p \in 1..Max48 : places[p] \in C \union {NULL}
    BY <1>2, <1>5, <1>8 DEF Direct
  <2> QED BY <2>1
<1> HIDE DEF index, places
<1>11. Indexes(n2, C)
  <2>1. \A b \in Byte : index[b] # 0 => places[index[b]] # NULL
    BY <1>2, <1>4, <1>5, <1>6, <1>7, <1>8
  <2>2. \A a, b \in Byte : index[a] # 0 /\ index[a] = index[b] => a = b
    BY <1>2, <1>5, <1>6, <1>7
  <2>3. \A p \in 1..Max48 : places[p] # NULL => \E b \in Byte : index[b] = p
    BY <1>2, <1>5, <1>7, <1>8
  <2>4. {b \in Byte : index[b] # 0} = has
    BY <1>2, <1>6
  <2> QED BY <1>2, <1>3, <1>9, <1>10, <2>1, <2>2, <2>3, <2>4 DEF Indexes
<1>12. ASSUME NEW b \in Byte PROVE find_child(n2, b) = find_child(n, b)
  <2>1. find_child(n2, b) = IF index[b] = 0 THEN NULL ELSE places[index[b]]
    BY <1>3, <1>9, FindIndexed
  <2>2. find_child(n, b) = n.children[b]
    BY FindDirect
  <2>3. CASE b \in has
    BY <1>5, <1>6, <1>7, <1>8, <2>1, <2>2, <2>3
  <2>4. CASE b \notin has
    BY <1>4, <1>6, <2>1, <2>2, <2>4
  <2> QED BY <2>3, <2>4
<1> QED BY <1>3, <1>11, <1>12 DEF WellFormed, n2

\* A NODE48 with few enough children as a NODE16.
LEMMA ShrinkIndexed ==
    ASSUME NEW C, NULL \notin C, NEW n, n.type = "NODE48", Header(n), Indexes(n, C),
           n.num_children <= Max16
    PROVE  LET n2 == Shrunk48(n)
           IN  WellFormed(n2, C) /\ \A b \in Byte : find_child(n2, b) = find_child(n, b)
<1> DEFINE n2 == Shrunk48(n)
           has == {b \in Byte : n.keys[b] # 0}
           list == [i \in 1..n.num_children |-> Nth(has, i)]
           beside == [i \in 1..n.num_children |-> n.children[n.keys[Nth(has, i)]]]
<1>1. PICK k \in Nat : k = n.num_children
  BY DEF Header
<1>2. k = Cardinality(has) /\ k <= Max16 /\ Max16 \in Nat /\ has \in SUBSET Byte
  BY <1>1, SizesAssumption DEF Indexes
<1>3. /\ n2.num_children = k /\ n2.type = "NODE16" /\ n2.keys = list
      /\ n2.children = beside /\ Header(n2)
  BY <1>1 DEF Header, Shrunk48
<1>4. \A b \in Byte : b \in has <=> n.keys[b] # 0
  OBVIOUS
<1> HIDE DEF n2, has
<1>5. /\ \A b \in has : Rank(has, b) \in 1..k /\ Nth(has, Rank(has, b)) = b
      /\ \A i \in 1..k : Nth(has, i) \in has /\ Rank(has, Nth(has, i)) = i
  BY <1>2, RankCounts
<1>6. \A i \in 1..k : list[i] = Nth(has, i) /\ beside[i] = n.children[n.keys[Nth(has, i)]]
  BY <1>1
<1>7. \A b \in has : n.children[n.keys[b]] \in C
  <2> SUFFICES ASSUME NEW b \in has PROVE n.children[n.keys[b]] \in C
    OBVIOUS
  <2>1. b \in Byte /\ n.keys[b] # 0
    BY <1>2, <1>4
  <2>2. n.keys[b] \in 1..Max48
    BY <2>1, SizesAssumption DEF Indexes
  <2> QED BY <2>1, <2>2 DEF Indexes
<1>8. list \in [1..k -> Byte] /\ beside \in [1..k -> C]
  <2>1. \A i \in 1..k : list[i] \in Byte /\ beside[i] \in C
    BY <1>2, <1>5, <1>6, <1>7
  <2> QED BY <1>1, <2>1
<1> HIDE DEF list, beside
<1>9. Lists(n2, Max16, C)
  <2>1. \A i, j \in 1..k : list[i] = list[j] => i = j
    BY <1>5, <1>6
  <2> QED BY <1>2, <1>3, <1>8, <2>1 DEF Lists
<1>10. ASSUME NEW b \in Byte PROVE find_child(n2, b) = find_child(n, b)
  <2>1. find_child(n, b) = IF n.keys[b] = 0 THEN NULL ELSE n.children[n.keys[b]]
    BY FindIndexed DEF Indexes
  <2>2. /\ \A i \in 1..k : list[i] = b => find_child(n2, b) = beside[i]
        /\ (\A i \in 1..k : list[i] # b) => find_child(n2, b) = NULL
    BY <1>2, <1>3, <1>9, FindListed
  <2>3. CASE b \in has
    <3>1. Rank(has, b) \in 1..k /\ list[Rank(has, b)] = b
      BY <1>5, <1>6, <2>3
    <3>2. beside[Rank(has, b)] = n.children[n.keys[b]]
      BY <1>5, <1>6, <2>3
    <3> QED BY <1>4, <2>1, <2>2, <2>3, <3>1, <3>2
  <2>4. CASE b \notin has
    <3>1. \A i \in 1..k : list[i] # b
      BY <1>5, <1>6, <2>4
    <3> QED BY <1>4, <2>1, <2>2, <2>4, <3>1
  <2> QED BY <2>3, <2>4
<1> QED BY <1>3, <1>9, <1>10 DEF WellFormed, n2

\* Taking a key and its child out of the lists.
LEMMA RemoveListed ==
    ASSUME NEW C, NULL \notin C, NEW n, n.type \in {"NODE4", "NODE16"}, Header(n),
           NEW max \in Nat, Lists(n, max, C), NEW pos \in 1..n.num_children
    PROVE  LET n2 == RemoveAt(n, pos)
           IN  /\ Header(n2) /\ n2.type = n.type /\ n2.num_children = n.num_children - 1
               /\ Lists(n2, max, C) /\ FindsAlso(n, n2, n.keys[pos], NULL)
<1> DEFINE n2 == RemoveAt(n, pos)
           from(i) == IF i < pos THEN i ELSE i + 1
<1>1. PICK k \in Nat : k = n.num_children
  BY DEF Header
<1>2. pos \in 1..k /\ pos \in Nat /\ k - 1 \in Nat
  BY <1>1
<1>3. \A i \in 1..(k - 1) : from(i) \in 1..k /\ from(i) # pos
  BY <1>2
<1>4. \A i, j \in 1..(k - 1) : from(i) = from(j) => i = j
  BY <1>2
<1>5. \A i \in 1..k : i # pos => \E j \in 1..(k - 1) : from(j) = i
  <2> SUFFICES ASSUME NEW i \in 1..k, i # pos PROVE \E j \in 1..(k - 1) : from(j) = i
    OBVIOUS
  <2>1. CASE i < pos
    <3>1. i \in 1..(k - 1) /\ from(i) = i
      BY <1>2, <2>1
    <3> QED BY <3>1
  <2>2. CASE ~(i < pos)
    <3>1. i - 1 \in 1..(k - 1) /\ from(i - 1) = i
      BY <1>2, <2>2
    <3> QED BY <3>1
  <2> QED BY <2>1, <2>2
<1>6. /\ n2.num_children = k - 1 /\ n2.type = n.type
      /\ n2.keys = [i \in 1..(k - 1) |-> IF i < pos THEN n.keys[i] ELSE n.keys[i + 1]]
      /\ n2.children = [i \in 1..(k - 1) |-> IF i < pos THEN n.children[i]
                                             ELSE n.children[i + 1]]
      /\ DOMAIN n2 = DOMAIN n
  BY <1>1 DEF Header, RemoveAt
<1> HIDE DEF n2
<1>7. \A i \in 1..(k - 1) : n2.keys[i] = n.keys[from(i)] /\ n2.children[i] = n.children[from(i)]
  BY <1>6
<1> HIDE DEF from
<1>8. Header(n2)
  BY <1>2, <1>6 DEF Header
<1>9. Lists(n2, max, C)
  <2>1. k - 1 <= max
    BY <1>1, <1>2 DEF Lists
  <2>2. \A i \in 1..(k - 1) : n2.keys[i] \in Byte /\ n2.children[i] \in C
    BY <1>1, <1>3, <1>7 DEF Lists
  <2>3. n2.keys \in [1..(k - 1) -> Byte] /\ n2.children \in [1..(k - 1) -> C]
    BY <1>6, <2>2
  <2>4. \A i, j \in 1..(k - 1) : n2.keys[i] = n2.keys[j] => i = j
    BY <1>1, <1>3, <1>4, <1>7, SMTT(40) DEF Lists
  <2> QED BY <1>6, <2>1, <2>3, <2>4 DEF Lists
<1>10. ASSUME NEW b \in Byte
       PROVE  find_child(n2, b) = IF b = n.keys[pos] THEN NULL ELSE find_child(n, b)
  <2>1. /\ \A i \in 1..k : n.keys[i] = b => find_child(n, b) = n.children[i]
        /\ (\A i \in 1..k : n.keys[i] # b) => find_child(n, b) = NULL
    BY <1>1, FindListed
  <2>2. /\ \A i \in 1..(k - 1) : n2.keys[i] = b => find_child(n2, b) = n2.children[i]
        /\ (\A i \in 1..(k - 1) : n2.keys[i] # b) => find_child(n2, b) = NULL
    <3>1. PICK l \in Nat : l = k - 1
      BY <1>2
    <3>2. n2.type \in {"NODE4", "NODE16"} /\ n2.num_children = l
      BY <1>6, <3>1
    <3>3. /\ \A i \in 1..l : n2.keys[i] = b => find_child(n2, b) = n2.children[i]
          /\ (\A i \in 1..l : n2.keys[i] # b) => find_child(n2, b) = NULL
      BY <1>9, <3>2, FindListed
    <3> QED BY <3>1, <3>3
  <2>3. CASE b = n.keys[pos]
    <3>1. ASSUME NEW i \in 1..(k - 1) PROVE n2.keys[i] # b
      <4>1. n2.keys[i] = n.keys[from(i)] /\ from(i) \in 1..k /\ from(i) # pos
        BY <1>3, <1>7
      <4> QED BY <1>1, <1>2, <2>3, <4>1 DEF Lists
    <3> QED BY <2>2, <2>3, <3>1
  <2>4. CASE b # n.keys[pos] /\ \E i \in 1..k : n.keys[i] = b
    <3>1. PICK i \in 1..k : n.keys[i] = b
      BY <2>4
    <3>2. PICK j \in 1..(k - 1) : from(j) = i
      BY <1>5, <2>4, <3>1
    <3> QED BY <1>7, <2>1, <2>2, <2>4, <3>1, <3>2
  <2>5. CASE b # n.keys[pos] /\ \A i \in 1..k : n.keys[i] # b
    <3>1. \A i \in 1..(k - 1) : n2.keys[i] # b
      BY <1>3, <1>7, <2>5
    <3> QED BY <2>1, <2>2, <2>5, <3>1
  <2> QED BY <2>3, <2>4, <2>5
<1> QED BY <1>1, <1>6, <1>8, <1>9, <1>10 DEF FindsAlso, n2

\* Taking a child out of a NODE48.
LEMMA RemoveIndexed ==
    ASSUME NEW C, NEW n, n.type = "NODE48", Header(n), Indexes(n, C),
           NEW c \in Byte, find_child(n, c) # NULL
    PROVE  LET n2 == [n EXCEPT !.num_children = @ - 1, !.keys[c] = 0,
                               !.children[n.keys[c]] = NULL]
           IN  /\ Header(n2) /\ n2.type = "NODE48" /\ Indexes(n2, C)
               /\ FindsAlso(n, n2, c, NULL)
<1> DEFINE n2 == [n EXCEPT !.num_children = @ - 1, !.keys[c] = 0, !.children[n.keys[c]] = NULL]
           has == {b \in Byte : n.keys[b] # 0}
<1>1. PICK pos : pos = n.keys[c]
  OBVIOUS
<1>2. pos # 0 /\ pos \in 1..Max48
  <2>1. find_child(n, c) = IF n.keys[c] = 0 THEN NULL ELSE n.children[n.keys[c]]
    BY FindIndexed DEF Indexes
  <2> QED BY <1>1, <2>1, SizesAssumption DEF Indexes
<1>3. /\ n2.num_children = n.num_children - 1 /\ n2.type = "NODE48"
      /\ n2.keys = [n.keys EXCEPT ![c] = 0] /\ n2.children = [n.children EXCEPT ![pos] = NULL]
      /\ DOMAIN n2 = DOMAIN n
  BY <1>1 DEF Header
<1> HIDE DEF n2
<1>4. /\ n2.keys \in [Byte -> 0..Max48]
      /\ n2.children \in [1..Max48 -> C \union {NULL}]
  <2>1. 0 \in 0..Max48
    BY SizesAssumption
  <2>2. n.keys \in [Byte -> 0..Max48] /\ n.children \in [1..Max48 -> C \union {NULL}]
    BY DEF Indexes
  <2> QED BY <1>3, <2>1, <2>2
<1>5. /\ n2.keys[c] = 0 /\ \A b \in Byte : b # c => n2.keys[b] = n.keys[b]
      /\ n2.children[pos] = NULL
      /\ \A p \in 1..Max48 : p # pos => n2.children[p] = n.children[p]
  BY <1>2, <1>3 DEF Indexes
<1>6. \A b \in Byte : n.keys[b] # 0 => n.keys[b] \in 1..Max48
  BY SizesAssumption DEF Indexes
<1>7. \A b \in Byte : b # c => n.keys[b] # pos
  BY <1>1, <1>2 DEF Indexes
<1>8. n2.num_children \in Nat /\ n2.num_children = Cardinality({b \in Byte : n2.keys[b] # 0})
  <2>1. {b \in Byte : n2.keys[b] # 0} = has \ {c}
    BY <1>5
  <2>2. IsFiniteSet(has) /\ c \in has
    BY <1>1, <1>2, BytesFinite
  <2>3. Cardinality(has) = n.num_children
    BY DEF Indexes
  <2> HIDE DEF has
  <2>4. Cardinality(has \ {c}) = Cardinality(has) - 1 /\ IsFiniteSet(has \ {c})
    BY <2>2, FS_RemoveElement
  <2>5. Cardinality(has \ {c}) \in Nat
    BY <2>4, FS_CardinalityType
  <2> QED BY <1>3, <2>1, <2>3, <2>4, <2>5
<1>9. Indexes(n2, C)
  <2>1. \A b \in Byte : n2.keys[b] # 0 => n2.children[n2.keys[b]] # NULL
    BY <1>5, <1>6, <1>7 DEF Indexes
  <2>2. \A a, b \in Byte : n2.keys[a] # 0 /\ n2.keys[a] = n2.keys[b] => a = b
    BY <1>5 DEF Indexes
  <2>3. \A p \in 1..Max48 : n2.children[p] # NULL => \E b \in Byte : n2.keys[b] = p
    BY <1>1, <1>5 DEF Indexes
  <2> QED BY <1>4, <1>8, <2>1, <2>2, <2>3 DEF Indexes
<1>10. ASSUME NEW b \in Byte
       PROVE  find_child(n2, b) = IF b = c THEN NULL ELSE find_child(n, b)
  <2>1. find_child(n2, b) = IF n2.keys[b] = 0 THEN NULL ELSE n2.children[n2.keys[b]]
    BY <1>3, <1>4, FindIndexed
  <2>2. find_child(n, b) = IF n.keys[b] = 0 THEN NULL ELSE n.children[n.keys[b]]
    BY FindIndexed DEF Indexes
  <2> QED BY <1>5, <1>6, <1>7, <2>1, <2>2
<1> QED BY <1>3, <1>8, <1>9, <1>10 DEF FindsAlso, Header, n2

\* Counting one less in a byte, from 1 to all the values of a byte.
LEMMA OneLess ==
    ASSUME NEW m \in Nat, m > 1, NEW x \in 1..m
    PROVE  ((x % m) - 1) % m = x - 1
<1>1. CASE x = m
  <2>1. m % m = 0 /\ (0 - 1) % m = m - 1
    OBVIOUS
  <2> QED BY <1>1, <2>1
<1>2. CASE x < m
  <2>1. x % m = x /\ (x - 1) % m = x - 1
    BY <1>2
  <2> QED BY <2>1
<1> QED BY <1>1, <1>2

\* Taking a child out of a NODE256, whose count is exact afterwards.
LEMMA RemoveDirect ==
    ASSUME NEW C, NEW n, n.type = "NODE256", Header(n), Direct(n, C),
           NEW c \in Byte, find_child(n, c) # NULL
    PROVE  LET n2 == [n EXCEPT !.num_children = (@ - 1) % ByteCount, !.children[c] = NULL]
           IN  /\ Header(n2) /\ n2.type = "NODE256" /\ Direct(n2, C)
               /\ n2.num_children = Cardinality({b \in Byte : n2.children[b] # NULL})
               /\ FindsAlso(n, n2, c, NULL)
<1> DEFINE n2 == [n EXCEPT !.num_children = (@ - 1) % ByteCount, !.children[c] = NULL]
           has == {b \in Byte : n.children[b] # NULL}
<1>1. ByteCount \in Nat /\ ByteCount > 1
  BY SizesAssumption
<1>2. /\ n2.num_children = (n.num_children - 1) % ByteCount /\ n2.type = "NODE256"
      /\ n2.children = [n.children EXCEPT ![c] = NULL]
      /\ DOMAIN n2 = DOMAIN n
  BY DEF Header
<1> HIDE DEF n2
<1>3. c \in has
  BY FindDirect
<1>4. {b \in Byte : n2.children[b] # NULL} = has \ {c}
  BY <1>2 DEF Direct
<1>5. IsFiniteSet(has) /\ Cardinality(has) \in 1..ByteCount
  <2>1. has \in SUBSET Byte
    OBVIOUS
  <2> HIDE DEF has
  <2>2. IsFiniteSet(has) /\ Cardinality(has) \in Nat /\ Cardinality(has) <= ByteCount
    BY <2>1, BytesFinite
  <2>3. Cardinality(has) # 0
    BY <1>3, <2>2, FS_EmptySet
  <2> QED BY <1>1, <2>2, <2>3
<1>6. n.num_children = Cardinality(has) % ByteCount
  BY DEF Direct
<1> HIDE DEF has
<1>7. Cardinality(has \ {c}) = Cardinality(has) - 1
  BY <1>3, <1>5, FS_RemoveElement
<1>8. n2.num_children = Cardinality(has) - 1
  BY <1>1, <1>2, <1>5, <1>6, OneLess
<1>9. n2.num_children \in 0..(ByteCount - 1) /\ n2.num_children % ByteCount = n2.num_children
  BY <1>1, <1>5, <1>8
<1>10. n2.children \in [Byte -> C \union {NULL}]
  BY <1>2 DEF Direct
<1>11. ASSUME NEW b \in Byte
       PROVE  find_child(n2, b) = IF b = c THEN NULL ELSE find_child(n, b)
  BY <1>2, FindDirect DEF Direct
<1>12. n2.num_children = Cardinality({b \in Byte : n2.children[b] # NULL})
  BY <1>4, <1>7, <1>8
<1>13. Header(n2) /\ Direct(n2, C) /\ FindsAlso(n, n2, c, NULL)
  <2>1. Header(n2)
    BY <1>2, <1>9 DEF Header
  <2>2. Direct(n2, C)
    BY <1>9, <1>10, <1>12 DEF Direct
  <2>3. FindsAlso(n, n2, c, NULL)
    BY <1>11 DEF FindsAlso
  <2> QED BY <2>1, <2>2, <2>3
<1> QED BY <1>2, <1>12, <1>13 DEF n2

\* art.c, remove_child256, remove_child48 and remove_child16: taking out the child of c
\* leaves a well-formed node, the next smaller one when it shrinks, that finds nothing
\* for c and for the other bytes what was found before.
THEOREM RemoveChildCorrect ==
    ASSUME NEW C, NULL \notin C, NEW n, WellFormed(n, C), NEW c \in Byte, find_child(n, c) # NULL
    PROVE  /\ n.type = "NODE256" => /\ WellFormed(remove_child256(n, c), C)
                                    /\ FindsAlso(n, remove_child256(n, c), c, NULL)
           /\ n.type = "NODE48" => /\ WellFormed(remove_child48(n, c), C)
                                   /\ FindsAlso(n, remove_child48(n, c), c, NULL)
           /\ n.type = "NODE16" =>
                  \A pos \in 1..n.num_children : n.keys[pos] = c =>
                      /\ WellFormed(remove_child16(n, pos), C)
                      /\ FindsAlso(n, remove_child16(n, pos), c, NULL)
<1>1. ASSUME n.type = "NODE256"
      PROVE  WellFormed(remove_child256(n, c), C) /\ FindsAlso(n, remove_child256(n, c), c, NULL)
  <2> DEFINE left == [n EXCEPT !.num_children = (@ - 1) % ByteCount, !.children[c] = NULL]
  <2>2. remove_child256(n, c) = IF left.num_children = Min256 THEN Shrunk256(left) ELSE left
    BY DEF remove_child256
  <2>3. /\ Header(left) /\ left.type = "NODE256" /\ Direct(left, C)
        /\ left.num_children = Cardinality({b \in Byte : left.children[b] # NULL})
        /\ FindsAlso(n, left, c, NULL)
    BY <1>1, RemoveDirect DEF WellFormed
  <2> HIDE DEF left
  <2>4. CASE left.num_children = Min256
    <3>1. left.num_children <= Max48
      BY <2>4, SizesAssumption
    <3> QED BY <2>2, <2>3, <2>4, <3>1, ShrinkDirect DEF FindsAlso
  <2> QED BY <2>2, <2>3, <2>4 DEF WellFormed
<1>2. ASSUME n.type = "NODE48"
      PROVE  WellFormed(remove_child48(n, c), C) /\ FindsAlso(n, remove_child48(n, c), c, NULL)
  <2> DEFINE left == [n EXCEPT !.num_children = @ - 1, !.keys[c] = 0,
                               !.children[n.keys[c]] = NULL]
  <2>2. remove_child48(n, c) = IF left.num_children = Min48 THEN Shrunk48(left) ELSE left
    BY DEF remove_child48
  <2>3. /\ Header(left) /\ left.type = "NODE48" /\ Indexes(left, C)
        /\ FindsAlso(n, left, c, NULL)
    BY <1>2, RemoveIndexed DEF WellFormed
  <2> HIDE DEF left
  <2>4. CASE left.num_children = Min48
    <3>1. left.num_children <= Max16
      BY <2>4, SizesAssumption
    <3> QED BY <2>2, <2>3, <2>4, <3>1, ShrinkIndexed DEF FindsAlso
  <2> QED BY <2>2, <2>3, <2>4 DEF WellFormed
<1>3. ASSUME n.type = "NODE16", NEW pos \in 1..n.num_children, n.keys[pos] = c
      PROVE  WellFormed(remove_child16(n, pos), C) /\ FindsAlso(n, remove_child16(n, pos), c, NULL)
  <2>1. PICK left : left = RemoveAt(n, pos)
    OBVIOUS
  <2>2. /\ Header(left) /\ left.type = "NODE16" /\ Lists(left, Max16, C)
        /\ FindsAlso(n, left, c, NULL)
    BY <1>3, <2>1, RemoveListed, SizesAssumption DEF WellFormed
  <2>3. CASE left.num_children = Min16
    <3> DEFINE n2 == [left EXCEPT !.type = "NODE4"]
    <3>1. remove_child16(n, pos) = n2
      BY <2>1, <2>3 DEF remove_child16
    <3>2. /\ Header(n2) /\ n2.type = "NODE4" /\ n2.num_children = left.num_children
          /\ n2.keys = left.keys /\ n2.children = left.children
      BY <2>2 DEF Header
    <3> HIDE DEF n2
    <3>3. Lists(n2, Max4, C)
      BY <2>2, <2>3, <3>2, SizesAssumption DEF Lists
    <3>4. \A b \in Byte : find_child(n2, b) = find_child(left, b)
      BY <2>2, <3>2 DEF find_child, SlotsOf, Listed
    <3> QED BY <2>2, <3>1, <3>2, <3>3, <3>4 DEF WellFormed, FindsAlso
  <2>4. CASE left.num_children # Min16
    <3>1. remove_child16(n, pos) = left
      BY <2>1, <2>4 DEF remove_child16
    <3> QED BY <2>2, <3>1 DEF WellFormed
  <2> QED BY <2>3, <2>4
<1> QED BY <1>1, <1>2, <1>3
-----------------------------------------------------------------------------
(* An inner node as a map from the bytes with a child to their children.    *)

Layouts == {"NODE4", "NODE16", "NODE48", "NODE256"}

\* How many children a layout may have in the tree.
Room(n, count) ==
    /\ n.type = "NODE4" => count \in 2..Max4
    /\ n.type = "NODE16" => count \in (Min16 + 1)..Max16
    /\ n.type = "NODE48" => count \in (Min48 + 1)..Max48
    /\ n.type = "NODE256" => count \in (Min256 + 1)..ByteCount

\* A well-formed node with as many children as its layout is for.
Fits(n) ==
    /\ \E C : NULL \notin C /\ WellFormed(n, C)
    /\ Room(n, Cardinality(Present(n)))

\* The places of a list and the bytes with a child correspond.
ListsPresent(n) ==
    /\ \A i \in 1..n.num_children : /\ n.keys[i] \in Present(n)
                                    /\ n.children[i] = find_child(n, n.keys[i])
    /\ \A i, j \in 1..n.num_children : n.keys[i] = n.keys[j] => i = j
    /\ \A b \in Present(n) : \E i \in 1..n.num_children : n.keys[i] = b

\* Two sets with a bijection between them count the same.
LEMMA Counts ==
    ASSUME NEW S, IsFiniteSet(S), NEW T, NEW f \in [S -> T],
           \A x, y \in S : f[x] = f[y] => x = y, \A y \in T : \E x \in S : f[x] = y
    PROVE  IsFiniteSet(T) /\ Cardinality(T) = Cardinality(S)
<1>1. f \in Injection(S, T)
  BY DEF Injection, IsInjective
<1>2. f \in Surjection(S, T)
  BY DEF Surjection
<1>3. ExistsBijection(S, T)
  BY <1>1, <1>2 DEF Bijection, ExistsBijection
<1> QED BY <1>3, FS_Bijection

\* The sizes of the layouts, with their order.
LEMMA SizesOrdered ==
    /\ ByteCount \in Nat /\ Max4 \in Nat /\ Max16 \in Nat /\ Max48 \in Nat
    /\ Min16 \in Nat /\ Min48 \in Nat /\ Min256 \in Nat
    /\ 2 <= Min16 /\ Min16 <= Max4 /\ Max4 < Max16
    /\ Min16 < Min48 /\ Min48 <= Max16 /\ Max16 < Max48
    /\ Min48 < Min256 /\ Min256 <= Max48 /\ Max48 < ByteCount
  BY SizesAssumption

\* A byte has a child if find_child finds one, and the child is one of those the
\* node is made of.
LEMMA PresentFound ==
    ASSUME NEW C, NULL \notin C, NEW n, WellFormed(n, C), NEW b \in Byte
    PROVE  /\ find_child(n, b) \in C \union {NULL}
           /\ b \in Present(n) <=> find_child(n, b) # NULL
<1>1. b \in Present(n) <=> SlotsOf(n, b) # {}
  BY DEF Present
<1>2. SlotsOf(n, b) = {} => find_child(n, b) = NULL
  BY DEF find_child
<1>3. ASSUME NEW max \in Nat, n.type \in {"NODE4", "NODE16"}, Header(n), Lists(n, max, C)
      PROVE  /\ find_child(n, b) \in C \union {NULL}
             /\ SlotsOf(n, b) # {} => find_child(n, b) # NULL
  <2>1. PICK k \in Nat : k = n.num_children
    BY <1>3 DEF Header
  <2>2. /\ \A i \in 1..k : n.keys[i] = b => find_child(n, b) = n.children[i]
        /\ (\A i \in 1..k : n.keys[i] # b) => find_child(n, b) = NULL
    BY ONLY <1>3, <2>1, b \in Byte, FindListed
  <2>3. \A i \in 1..k : n.children[i] \in C
    <3>1. n.children \in [1..k -> C]
      BY <1>3, <2>1 DEF Lists
    <3> QED BY ONLY <3>1
  <2>4. SlotsOf(n, b) = {i \in 1..k : n.keys[i] = b}
    BY <1>3, <2>1 DEF SlotsOf, Listed
  <2>5. CASE \E i \in 1..k : n.keys[i] = b
    <3>1. find_child(n, b) \in C
      BY ONLY <2>2, <2>3, <2>5
    <3> QED BY ONLY <3>1, NULL \notin C
  <2>6. CASE ~ \E i \in 1..k : n.keys[i] = b
    <3>1. SlotsOf(n, b) = {}
      BY ONLY <2>4, <2>6
    <3> QED BY ONLY <3>1, <2>2, <2>6
  <2> QED BY <2>5, <2>6
<1>4. ASSUME n.type = "NODE48", Indexes(n, C)
      PROVE  /\ find_child(n, b) \in C \union {NULL}
             /\ SlotsOf(n, b) # {} => find_child(n, b) # NULL
  <2>1. find_child(n, b) = IF n.keys[b] = 0 THEN NULL ELSE n.children[n.keys[b]]
    BY <1>4, FindIndexed DEF Indexes
  <2>2. n.keys[b] \in 0..Max48 /\ Max48 \in Nat
    BY <1>4, SizesOrdered DEF Indexes
  <2>3. SlotsOf(n, b) = {n.keys[b]} \ {0}
    BY <1>4 DEF SlotsOf, Listed
  <2>4. n.keys[b] # 0 => n.children[n.keys[b]] # NULL
    BY <1>4 DEF Indexes
  <2>5. n.keys[b] # 0 => n.children[n.keys[b]] \in C \union {NULL}
    <3>1. n.children \in [1..Max48 -> C \union {NULL}]
      BY <1>4 DEF Indexes
    <3> QED BY ONLY <3>1, <2>2
  <2> QED BY ONLY <2>1, <2>3, <2>4, <2>5
<1>5. ASSUME n.type = "NODE256", Direct(n, C)
      PROVE  /\ find_child(n, b) \in C \union {NULL}
             /\ SlotsOf(n, b) # {} => find_child(n, b) # NULL
  <2>1. find_child(n, b) = n.children[b]
    BY <1>5, FindDirect
  <2>2. SlotsOf(n, b) = {x \in {b} : n.children[x] # NULL}
    BY <1>5 DEF SlotsOf, Listed
  <2>3. n.children[b] \in C \union {NULL}
    BY <1>5 DEF Direct
  <2> QED BY ONLY <2>1, <2>2, <2>3
<1> QED BY <1>1, <1>2, <1>3, <1>4, <1>5, SizesOrdered DEF WellFormed

\* A list's places are its bytes with a child.
LEMMA ListedPresent ==
    ASSUME NEW C, NULL \notin C, NEW n, n.type \in {"NODE4", "NODE16"}, WellFormed(n, C)
    PROVE  /\ ListsPresent(n) /\ n.num_children \in Nat
           /\ Cardinality(Present(n)) = n.num_children
           /\ n.num_children <= Max48
<1>1. PICK max \in Nat : Lists(n, max, C) /\ max <= Max48
  BY SizesOrdered DEF WellFormed
<1>2. PICK k \in Nat : k = n.num_children
  BY DEF WellFormed, Header
<1>3. /\ k <= max /\ n.keys \in [1..k -> Byte]
      /\ \A i, j \in 1..k : n.keys[i] = n.keys[j] => i = j
  BY <1>1, <1>2 DEF Lists
<1>4. \A b \in Byte : SlotsOf(n, b) = {i \in 1..k : n.keys[i] = b}
  BY <1>2 DEF SlotsOf, Listed
<1>5. Present(n) = {b \in Byte : \E i \in 1..k : n.keys[i] = b}
  BY <1>4 DEF Present
<1>6. \A i \in 1..k : n.children[i] = find_child(n, n.keys[i])
  <2> SUFFICES ASSUME NEW i \in 1..k
               PROVE  n.children[i] = find_child(n, n.keys[i])
    OBVIOUS
  <2>1. n.keys[i] \in Byte
    BY <1>3
  <2> QED BY ONLY <1>1, <1>2, <2>1, n.type \in {"NODE4", "NODE16"}, i \in 1..k, FindListed
<1>7. ListsPresent(n)
  BY ONLY <1>2, <1>3, <1>5, <1>6 DEF ListsPresent
<1>8. Cardinality(Present(n)) = k
  <2> DEFINE f == [i \in 1..k |-> n.keys[i]]
  <2>1. f \in [1..k -> Present(n)]
    BY <1>3, <1>5
  <2>2. /\ \A x, y \in 1..k : f[x] = f[y] => x = y
        /\ \A b \in Present(n) : \E i \in 1..k : f[i] = b
    BY <1>3, <1>5
  <2>3. IsFiniteSet(1..k) /\ Cardinality(1..k) = k
    BY FS_Interval
  <2> HIDE DEF f
  <2> QED BY ONLY <2>1, <2>2, <2>3, Counts
<1>9. max <= Max48 /\ Max48 \in Nat
  BY <1>1, SizesOrdered
<1> QED BY <1>2, <1>3, <1>7, <1>8, <1>9

\* The children of a NODE48 have places of their own, and no other place is taken.
LEMMA IndexedPresent ==
    ASSUME NEW C, NULL \notin C, NEW n, n.type = "NODE48", WellFormed(n, C)
    PROVE  /\ n.num_children \in Nat /\ n.num_children <= Max48
           /\ Cardinality(Present(n)) = n.num_children
           /\ Cardinality({p \in 1..Max48 : n.children[p] # NULL}) = n.num_children
<1> DEFINE taken == {p \in 1..Max48 : n.children[p] # NULL}
           has == {b \in Byte : n.keys[b] # 0}
           f == [b \in has |-> n.keys[b]]
<1>1. Header(n) /\ Indexes(n, C)
  BY DEF WellFormed
<1>2. Present(n) = has
  <2>1. \A b \in Byte : SlotsOf(n, b) = {n.keys[b]} \ {0}
    BY DEF SlotsOf, Listed
  <2> QED BY <2>1 DEF Present
<1>3. /\ n.keys \in [Byte -> 0..Max48] /\ Max48 \in Nat
      /\ \A b \in Byte : n.keys[b] # 0 => n.children[n.keys[b]] # NULL
      /\ \A a, b \in Byte : n.keys[a] # 0 /\ n.keys[a] = n.keys[b] => a = b
      /\ \A p \in 1..Max48 : n.children[p] # NULL => \E b \in Byte : n.keys[b] = p
      /\ n.num_children = Cardinality(has)
  BY <1>1, SizesOrdered DEF Indexes
<1>4. /\ f \in [has -> taken]
      /\ \A x, y \in has : f[x] = f[y] => x = y
      /\ \A p \in taken : \E b \in has : f[b] = p
  BY <1>3
<1>5. IsFiniteSet(has)
  BY BytesFinite
<1>6. Cardinality(taken) = Cardinality(has)
  <2> HIDE DEF f, has, taken
  <2> QED BY ONLY <1>4, <1>5, Counts
<1>7. n.num_children <= Max48
  BY <1>1, PlacesTaken
<1> QED BY <1>1, <1>2, <1>3, <1>6, <1>7 DEF Header

\* The bytes with a child are counted, in one byte.
LEMMA PresentCounted ==
    ASSUME NEW C, NULL \notin C, NEW n, WellFormed(n, C)
    PROVE  /\ n.num_children = Cardinality(Present(n)) % ByteCount
           /\ n.type # "NODE256" => Cardinality(Present(n)) = n.num_children
           /\ Cardinality(Present(n)) \in 0..ByteCount
<1>1. /\ Present(n) \subseteq Byte
      /\ Cardinality(Present(n)) \in 0..ByteCount
  BY BytesFinite, SizesOrdered DEF Present
<1>2. ASSUME Cardinality(Present(n)) = n.num_children, n.num_children \in Nat,
             n.num_children <= Max48
      PROVE  n.num_children = Cardinality(Present(n)) % ByteCount
  BY <1>2, SizesOrdered
<1>3. CASE n.type \in {"NODE4", "NODE16"}
  BY <1>1, <1>2, <1>3, ListedPresent
<1>4. CASE n.type = "NODE48"
  BY <1>1, <1>2, <1>4, IndexedPresent
<1>5. CASE n.type = "NODE256"
  <2>1. \A b \in Byte : SlotsOf(n, b) = {x \in {b} : n.children[x] # NULL}
    BY <1>5 DEF SlotsOf, Listed
  <2>2. Present(n) = {b \in Byte : n.children[b] # NULL}
    BY <2>1 DEF Present
  <2>3. n.num_children = Cardinality({b \in Byte : n.children[b] # NULL}) % ByteCount
    BY <1>5 DEF WellFormed, Direct
  <2> QED BY <1>1, <1>5, <2>2, <2>3
<1> QED BY <1>3, <1>4, <1>5 DEF WellFormed

\* A node of fewer children is well-formed as one of more.
LEMMA WellFormedIn ==
    ASSUME NEW B, NEW C, B \subseteq C, NEW n, WellFormed(n, B)
    PROVE  WellFormed(n, C)
<1>1. ASSUME NEW max, Lists(n, max, B) PROVE Lists(n, max, C)
  BY <1>1 DEF Lists
<1>2. ASSUME Indexes(n, B) PROVE Indexes(n, C)
  BY <1>2 DEF Indexes
<1>3. ASSUME Direct(n, B) PROVE Direct(n, C)
  BY <1>3 DEF Direct
<1> QED BY <1>1, <1>2, <1>3 DEF WellFormed

\* The header of a node: what its prefix is.
SameHeader(n, n2) == n2.partial_len = n.partial_len /\ n2.partial = n.partial

\* Bytes with a child after one has got a child, and after one has lost it.
LEMMA PresentAfter ==
    ASSUME NEW C, NULL \notin C, NEW n, WellFormed(n, C), NEW B, NULL \notin B, NEW n2,
           WellFormed(n2, B), NEW c \in Byte, NEW child, FindsAlso(n, n2, c, child)
    PROVE  /\ child # NULL => Present(n2) = Present(n) \union {c}
           /\ child = NULL => Present(n2) = Present(n) \ {c}
<1>1. \A b \in Byte : (b \in Present(n)) <=> (find_child(n, b) # NULL)
  BY PresentFound
<1>0. \A b \in Byte : (b \in Present(n2)) <=> (find_child(n2, b) # NULL)
  BY PresentFound
<1>2. Present(n) \subseteq Byte /\ Present(n2) \subseteq Byte
  BY DEF Present
<1>3. /\ find_child(n2, c) = child
      /\ \A b \in Byte : b # c => find_child(n2, b) = find_child(n, b)
  BY DEF FindsAlso
<1>4. ASSUME child # NULL, NEW b \in Byte
      PROVE  b \in Present(n2) <=> b \in Present(n) \union {c}
  <2>1. CASE b = c
    BY ONLY <1>0, <1>1, <1>3, b \in Byte, <1>4, <2>1, c \in Byte
  <2>2. CASE b # c
    BY ONLY <1>0, <1>1, <1>3, b \in Byte, <1>4, <2>2
  <2> QED BY <2>1, <2>2
<1>5. ASSUME child = NULL, NEW b \in Byte
      PROVE  b \in Present(n2) <=> b \in Present(n) \ {c}
  <2>1. CASE b = c
    BY ONLY <1>0, <1>1, <1>3, b \in Byte, <1>5, <2>1, c \in Byte
  <2>2. CASE b # c
    BY ONLY <1>0, <1>1, <1>3, b \in Byte, <1>5, <2>2
  <2> QED BY <2>1, <2>2
<1>6. ASSUME child # NULL PROVE Present(n2) = Present(n) \union {c}
  <2>1. \A b : b \in Present(n2) <=> b \in Present(n) \union {c}
    BY ONLY <1>2, <1>4, <1>6, c \in Byte
  <2> QED BY ONLY <2>1
<1>7. ASSUME child = NULL PROVE Present(n2) = Present(n) \ {c}
  <2>1. \A b : b \in Present(n2) <=> b \in Present(n) \ {c}
    BY ONLY <1>2, <1>5, <1>7, c \in Byte
  <2> QED BY ONLY <2>1
<1> QED BY <1>6, <1>7

\* One byte more or less with a child.
LEMMA PresentCount ==
    ASSUME NEW n, NEW c \in Byte
    PROVE  /\ IsFiniteSet(Present(n)) /\ Cardinality(Present(n)) \in Nat
           /\ c \notin Present(n) =>
                  Cardinality(Present(n) \union {c}) = Cardinality(Present(n)) + 1
           /\ c \in Present(n) =>
                  /\ Cardinality(Present(n) \ {c}) = Cardinality(Present(n)) - 1
                  /\ Cardinality(Present(n)) >= 1
<1>1. IsFiniteSet(Present(n)) /\ Cardinality(Present(n)) \in Nat
  BY BytesFinite DEF Present
<1>2. c \notin Present(n) => Cardinality(Present(n) \union {c}) = Cardinality(Present(n)) + 1
  BY <1>1, FS_AddElement
<1>3. c \in Present(n) => Cardinality(Present(n) \ {c}) = Cardinality(Present(n)) - 1
  BY <1>1, FS_RemoveElement
<1>4. c \in Present(n) => Cardinality(Present(n)) >= 1
  <2>1. c \in Present(n) => Cardinality(Present(n)) # 0
    BY <1>1, FS_EmptySet
  <2> QED BY <1>1, <2>1
<1> QED BY <1>1, <1>2, <1>3, <1>4

\* What the layouts make of the header and the layout of a node that gets a child.
LEMMA AddHeader ==
    ASSUME NEW n, Header(n), n.type \in Layouts, NEW c, NEW child
    PROVE  LET n2 == add_child(n, c, child)
           IN  /\ SameHeader(n, n2)
               /\ n.type = "NODE4" =>
                      n2.type = IF n.num_children < Max4 THEN "NODE4" ELSE
                                IF n.num_children < Max16 THEN "NODE16" ELSE
                                IF n.num_children < Max48 THEN "NODE48" ELSE "NODE256"
               /\ n.type = "NODE16" =>
                      n2.type = IF n.num_children < Max16 THEN "NODE16" ELSE
                                IF n.num_children < Max48 THEN "NODE48" ELSE "NODE256"
               /\ n.type = "NODE48" =>
                      n2.type = IF n.num_children < Max48 THEN "NODE48" ELSE "NODE256"
               /\ n.type = "NODE256" => n2.type = "NODE256"
<1> DEFINE Like(m) == Header(m) /\ SameHeader(n, m) /\ m.num_children = n.num_children
<1>1. ASSUME NEW m, Like(m), NEW larger
      PROVE  LET n2 == InsertAt(m, larger, c, child) IN SameHeader(n, n2) /\ n2.type = m.type
  BY <1>1 DEF InsertAt, Header, SameHeader
<1>2. ASSUME NEW m, Like(m)
      PROVE  LET n2 == add_child256(m, c, child) IN SameHeader(n, n2) /\ n2.type = m.type
  BY <1>2 DEF add_child256, Header, SameHeader
<1>3. ASSUME NEW m, Like(m)
      PROVE  LET n2 == Grown48(m) IN Like(n2) /\ n2.type = "NODE256"
  BY <1>3 DEF Grown48, Header, SameHeader
<1>4. ASSUME NEW m, Like(m), m.type = "NODE48"
      PROVE  LET n2 == add_child48(m, c, child)
             IN  /\ SameHeader(n, n2)
                 /\ n2.type = IF n.num_children < Max48 THEN "NODE48" ELSE "NODE256"
  <2>1. CASE n.num_children < Max48
    BY <1>4, <2>1 DEF add_child48, Header, SameHeader
  <2>2. CASE ~(n.num_children < Max48)
    <3>1. add_child48(m, c, child) = add_child256(Grown48(m), c, child)
      BY <1>4, <2>2 DEF add_child48
    <3>2. Like(Grown48(m)) /\ Grown48(m).type = "NODE256"
      BY <1>3, <1>4
    <3> QED BY <1>2, <2>2, <3>1, <3>2
  <2> QED BY <2>1, <2>2
<1>5. ASSUME NEW m, Like(m)
      PROVE  LET n2 == Grown16(m) IN Like(n2) /\ n2.type = "NODE48"
  BY <1>5 DEF Grown16, Header, SameHeader
<1>6. ASSUME NEW m, Like(m), m.type = "NODE16"
      PROVE  LET n2 == add_child16(m, c, child)
             IN  /\ SameHeader(n, n2)
                 /\ n2.type = IF n.num_children < Max16 THEN "NODE16" ELSE
                              IF n.num_children < Max48 THEN "NODE48" ELSE "NODE256"
  <2>1. CASE n.num_children < Max16
    <3>1. add_child16(m, c, child) =
            InsertAt(m, {i \in 1..m.num_children : AsCompared(c) < AsCompared(m.keys[i])}, c, child)
      BY <1>6, <2>1 DEF add_child16
    <3> QED BY <1>1, <1>6, <2>1, <3>1
  <2>2. CASE ~(n.num_children < Max16)
    <3>1. add_child16(m, c, child) = add_child48(Grown16(m), c, child)
      BY <1>6, <2>2 DEF add_child16
    <3>2. Like(Grown16(m)) /\ Grown16(m).type = "NODE48"
      BY <1>5, <1>6
    <3> QED BY <1>4, <2>2, <3>1, <3>2
  <2> QED BY <2>1, <2>2
<1>7. ASSUME n.type = "NODE4"
      PROVE  LET n2 == add_child4(n, c, child)
             IN  /\ SameHeader(n, n2)
                 /\ n2.type = IF n.num_children < Max4 THEN "NODE4" ELSE
                              IF n.num_children < Max16 THEN "NODE16" ELSE
                              IF n.num_children < Max48 THEN "NODE48" ELSE "NODE256"
  <2>0. Like(n)
    BY DEF SameHeader
  <2>1. CASE n.num_children < Max4
    <3>1. add_child4(n, c, child) =
            InsertAt(n, {i \in 1..n.num_children : c < n.keys[i]}, c, child)
      BY <2>1 DEF add_child4
    <3> QED BY <1>1, <1>7, <2>0, <2>1, <3>1
  <2>2. CASE ~(n.num_children < Max4)
    <3> DEFINE m == [n EXCEPT !.type = "NODE16"]
    <3>1. add_child4(n, c, child) = add_child16(m, c, child)
      BY <2>2 DEF add_child4
    <3>2. Like(m) /\ m.type = "NODE16"
      BY <2>0 DEF Header, SameHeader
    <3> HIDE DEF m
    <3> QED BY <1>6, <2>2, <3>1, <3>2
  <2> QED BY <2>1, <2>2
<1>8. Like(n)
  BY DEF SameHeader
<1>9. CASE n.type = "NODE4"
  <2>1. add_child(n, c, child) = add_child4(n, c, child)
    BY <1>9 DEF add_child
  <2> QED BY <1>7, <1>9, <2>1
<1>10. CASE n.type = "NODE16"
  <2>1. add_child(n, c, child) = add_child16(n, c, child)
    BY <1>10 DEF add_child
  <2> QED BY <1>6, <1>8, <1>10, <2>1
<1>11. CASE n.type = "NODE48"
  <2>1. add_child(n, c, child) = add_child48(n, c, child)
    BY <1>11 DEF add_child
  <2> QED BY <1>4, <1>8, <1>11, <2>1
<1>12. CASE n.type = "NODE256"
  <2>1. add_child(n, c, child) = add_child256(n, c, child)
    BY <1>12 DEF add_child
  <2> QED BY <1>2, <1>8, <1>12, <2>1
<1> QED BY <1>9, <1>10, <1>11, <1>12 DEF Layouts

\* A node in the tree that gets a child for a byte without one.
LEMMA AddFits ==
    ASSUME NEW n,
           NEW c \in Byte, find_child(n, c) = NULL, NEW child, child # NULL,
           \/ Fits(n)
           \/ /\ n.type = "NODE4" /\ Cardinality(Present(n)) = 1
              /\ \E C : NULL \notin C /\ WellFormed(n, C)
    PROVE  LET n2 == add_child(n, c, child)
           IN  /\ Fits(n2) /\ SameHeader(n, n2) /\ FindsAlso(n, n2, c, child)
               /\ Present(n2) = Present(n) \union {c}
<1> DEFINE n2 == add_child(n, c, child)
<1>1. PICK B : NULL \notin B /\ WellFormed(n, B)
  BY DEF Fits
<1> DEFINE C == B \union {child}
<1>2. NULL \notin C /\ WellFormed(n, C) /\ child \in C
  <2>1. B \subseteq C
    OBVIOUS
  <2> HIDE DEF C
  <2>2. WellFormed(n, C)
    BY ONLY <1>1, <2>1, WellFormedIn
  <2> USE DEF C
  <2> QED BY <1>1, <2>2
<1> HIDE DEF C
<1>3. WellFormed(n2, C) /\ FindsAlso(n, n2, c, child)
  BY ONLY <1>2, c \in Byte, find_child(n, c) = NULL, AddChildCorrect
<1>4. Present(n2) = Present(n) \union {c}
  <2> HIDE DEF n2
  <2> QED BY ONLY <1>2, <1>3, c \in Byte, child # NULL, PresentAfter
<1>5. Cardinality(Present(n2)) = Cardinality(Present(n)) + 1 /\ Cardinality(Present(n)) \in Nat
  <2>1. c \notin Present(n)
    BY ONLY <1>2, c \in Byte, find_child(n, c) = NULL, PresentFound
  <2> HIDE DEF n2
  <2> QED BY <2>1, <1>4, PresentCount
<1>6. /\ n.type # "NODE256" => Cardinality(Present(n)) = n.num_children
      /\ Cardinality(Present(n2)) \in 0..ByteCount
      /\ Header(n) /\ n.type \in Layouts
  <2> HIDE DEF n2
  <2> QED BY <1>2, <1>3, PresentCounted DEF WellFormed, Layouts
<1>7. \/ Room(n, Cardinality(Present(n)))
      \/ n.type = "NODE4" /\ Cardinality(Present(n)) = 1
  BY DEF Fits
<1> HIDE DEF n2
<1>8. /\ SameHeader(n, n2)
      /\ n.type = "NODE4" =>
             n2.type = IF n.num_children < Max4 THEN "NODE4" ELSE
                       IF n.num_children < Max16 THEN "NODE16" ELSE
                       IF n.num_children < Max48 THEN "NODE48" ELSE "NODE256"
      /\ n.type = "NODE16" =>
             n2.type = IF n.num_children < Max16 THEN "NODE16" ELSE
                       IF n.num_children < Max48 THEN "NODE48" ELSE "NODE256"
      /\ n.type = "NODE48" =>
             n2.type = IF n.num_children < Max48 THEN "NODE48" ELSE "NODE256"
      /\ n.type = "NODE256" => n2.type = "NODE256"
  BY <1>6, AddHeader DEF n2
<1>9. Room(n2, Cardinality(Present(n2)))
  <2>1. PICK k \in Nat : k = Cardinality(Present(n)) /\ k + 1 = Cardinality(Present(n2))
    BY <1>5
  <2>2. k + 1 <= ByteCount
    BY <1>6, <2>1, SizesOrdered
  <2>3. CASE n.type = "NODE4"
    <3>1. 1 <= k /\ k <= Max4 /\ n.num_children = k
      BY <1>6, <1>7, <2>1, <2>3, SizesOrdered DEF Room
    <3> QED BY <1>8, <2>1, <2>3, <3>1, SizesOrdered DEF Room
  <2>4. CASE n.type = "NODE16"
    <3>1. Min16 + 1 <= k /\ k <= Max16 /\ n.num_children = k
      BY <1>6, <1>7, <2>1, <2>4, SizesOrdered DEF Room
    <3> QED BY <1>8, <2>1, <2>4, <3>1, SizesOrdered DEF Room
  <2>5. CASE n.type = "NODE48"
    <3>1. Min48 + 1 <= k /\ k <= Max48 /\ n.num_children = k
      BY <1>6, <1>7, <2>1, <2>5, SizesOrdered DEF Room
    <3> QED BY <1>8, <2>1, <2>5, <3>1, SizesOrdered DEF Room
  <2>6. CASE n.type = "NODE256"
    <3>1. Min256 + 1 <= k
      BY <1>6, <1>7, <2>1, <2>6, SizesOrdered DEF Room
    <3> QED BY <1>8, <2>1, <2>2, <2>6, <3>1, SizesOrdered DEF Room
  <2> QED BY <1>6, <2>3, <2>4, <2>5, <2>6 DEF Layouts
<1> QED BY <1>2, <1>3, <1>4, <1>8, <1>9 DEF Fits, n2

\* A new NODE4 with two children.
LEMMA NewNode4 ==
    ASSUME NEW len, NEW partial, NEW b \in Byte, NEW c \in Byte, b # c,
           NEW m, m # NULL, NEW l, l # NULL
    PROVE  LET n == add_child4(add_child4(alloc_node4(len, partial), b, m), c, l)
           IN  /\ Fits(n) /\ n.partial_len = len /\ n.partial = partial
               /\ Present(n) = {b, c} /\ find_child(n, b) = m /\ find_child(n, c) = l
<1> DEFINE n0 == alloc_node4(len, partial)
           n1 == add_child4(n0, b, m)
           n2 == add_child4(n1, c, l)
<1>1. /\ Header(n0) /\ n0.type = "NODE4" /\ n0.num_children = 0
      /\ n0.partial_len = len /\ n0.partial = partial
  BY DEF alloc_node4, Header
<1>2. Lists(n0, Max4, {m})
  <2>1. /\ n0.keys = <<>> /\ n0.children = <<>> /\ 0 <= Max4
    BY SizesOrdered DEF alloc_node4
  <2>2. \A T : <<>> \in [1..0 -> T]
    <3>1. \A T : <<>> \in Seq(T) /\ Len(<<>>) = 0
      OBVIOUS
    <3> QED BY <3>1
  <2> HIDE DEF n0
  <2> QED BY <1>1, <2>1, <2>2 DEF Lists
<1>3. WellFormed(n0, {m}) /\ NULL \notin {m}
  BY <1>1, <1>2 DEF WellFormed
<1>4. \A a \in Byte : find_child(n0, a) = NULL
  <2>1. \A a \in Byte : SlotsOf(n0, a) = {}
    <3> HIDE DEF n0
    <3> QED BY <1>1 DEF SlotsOf, Listed
  <2> QED BY <2>1 DEF find_child
<1> HIDE DEF n0
<1>5. n1 = add_child(n0, b, m)
  BY <1>1 DEF add_child
<1>6. WellFormed(n1, {m}) /\ FindsAlso(n0, n1, b, m)
  BY <1>3, <1>4, <1>5, AddChildCorrect
<1>7. SameHeader(n0, n1) /\ n1.type = "NODE4"
  <2>1. n0.type \in Layouts /\ 0 < Max4
    BY <1>1, SizesOrdered DEF Layouts
  <2>2. n1.type = IF n0.num_children < Max4 THEN "NODE4" ELSE
                  IF n0.num_children < Max16 THEN "NODE16" ELSE
                  IF n0.num_children < Max48 THEN "NODE48" ELSE "NODE256"
    BY <1>1, <1>5, <2>1, AddHeader
  <2>3. SameHeader(n0, n1)
    BY <1>1, <1>5, <2>1, AddHeader
  <2> QED BY <1>1, <2>1, <2>2, <2>3
<1> HIDE DEF n1
<1>8. Present(n1) = {b}
  <2>1. Present(n1) = Present(n0) \union {b}
    BY ONLY <1>3, <1>6, b \in Byte, m # NULL, PresentAfter
  <2>2. \A a \in Byte : a \notin Present(n0)
    BY ONLY <1>3, <1>4, PresentFound
  <2>3. Present(n0) \subseteq Byte
    BY DEF Present
  <2> QED BY <2>1, <2>2, <2>3
<1>9. Cardinality(Present(n1)) = 1
  BY <1>8, FS_Singleton
<1>10. find_child(n1, c) = NULL /\ find_child(n1, b) = m
  BY <1>4, <1>6 DEF FindsAlso
<1>11. n2 = add_child(n1, c, l)
  BY <1>7 DEF add_child
<1>13. \/ Fits(n1)
       \/ /\ n1.type = "NODE4" /\ Cardinality(Present(n1)) = 1
          /\ \E C : NULL \notin C /\ WellFormed(n1, C)
  BY <1>3, <1>6, <1>7, <1>9
<1>14. /\ Fits(n2) /\ SameHeader(n1, n2) /\ FindsAlso(n1, n2, c, l)
       /\ Present(n2) = Present(n1) \union {c}
  BY <1>10, <1>11, <1>13, AddFits
<1> QED BY <1>1, <1>7, <1>8, <1>10, <1>14 DEF FindsAlso, SameHeader, n1, n0

\* Another child for a byte with a child.
LEMMA SetChildFits ==
    ASSUME NEW n, Fits(n), NEW c \in Byte, find_child(n, c) # NULL, NEW child, child # NULL
    PROVE  LET n2 == SetChild(n, c, child)
           IN  /\ Fits(n2) /\ SameHeader(n, n2) /\ FindsAlso(n, n2, c, child)
               /\ Present(n2) = Present(n)
<1> DEFINE n2 == SetChild(n, c, child)
           slot == Least(SlotsOf(n, c))
<1>1. PICK B : NULL \notin B /\ WellFormed(n, B)
  BY DEF Fits
<1>2. PICK C : NULL \notin C /\ WellFormed(n, C) /\ child \in C
  <2>1. B \subseteq B \union {child}
    OBVIOUS
  <2>2. WellFormed(n, B \union {child})
    BY ONLY <1>1, <2>1, WellFormedIn
  <2> QED BY <1>1, <2>2
<1>3. Header(n)
  BY <1>2 DEF WellFormed
<1>4. n2 = [n EXCEPT !.children = [@ EXCEPT ![slot] = child]]
  BY DEF SetChild
<1>5. /\ n2.type = n.type /\ n2.num_children = n.num_children /\ n2.keys = n.keys
      /\ n2.children = [n.children EXCEPT ![slot] = child]
      /\ Header(n2) /\ SameHeader(n, n2)
  BY <1>3, <1>4 DEF Header, SameHeader
<1> HIDE DEF n2
<1>6. ASSUME NEW max \in Nat, n.type \in {"NODE4", "NODE16"}, Lists(n, max, C)
      PROVE  Lists(n2, max, C) /\ FindsAlso(n, n2, c, child)
  <2>1. PICK k \in Nat : k = n.num_children
    BY <1>3 DEF Header
  <2>2. /\ n.keys \in [1..k -> Byte] /\ n.children \in [1..k -> C]
        /\ \A i, j \in 1..k : n.keys[i] = n.keys[j] => i = j
    BY <1>6, <2>1 DEF Lists
  <2>3. \A b \in Byte : /\ \A i \in 1..k : n.keys[i] = b => find_child(n, b) = n.children[i]
                        /\ (\A i \in 1..k : n.keys[i] # b) => find_child(n, b) = NULL
    BY ONLY <1>6, <2>1, FindListed
  <2>4. PICK pos \in 1..k : n.keys[pos] = c
    BY <2>3
  <2>5. slot = pos
    <3>1. SlotsOf(n, c) = {i \in 1..k : n.keys[i] = c}
      BY <1>6, <2>1 DEF SlotsOf, Listed
    <3>2. SlotsOf(n, c) = {pos}
      BY <3>1, <2>2, <2>4
    <3> QED BY <3>2, LeastOfOne
  <2>6. Lists(n2, max, C)
    <3>1. n2.children \in [1..k -> C]
      BY <1>2, <1>5, <2>2, <2>5
    <3> QED BY <1>5, <1>6, <2>1, <3>1 DEF Lists
  <2>7. \A b \in Byte : /\ \A i \in 1..k : n2.keys[i] = b => find_child(n2, b) = n2.children[i]
                        /\ (\A i \in 1..k : n2.keys[i] # b) => find_child(n2, b) = NULL
    <3>1. n2.type \in {"NODE4", "NODE16"} /\ n2.num_children = k
      BY <1>5, <1>6, <2>1
    <3> QED BY ONLY <1>6, <2>1, <2>6, <3>1, FindListed
  <2>8. ASSUME NEW b \in Byte
        PROVE  find_child(n2, b) = IF b = c THEN child ELSE find_child(n, b)
    <3>1. CASE b = c
      <4>1. n2.children[pos] = child
        BY <1>5, <2>2, <2>5
      <4>2. n2.keys[pos] = b
        BY <1>5, <2>4, <3>1
      <4> QED BY ONLY <2>7, <3>1, <4>1, <4>2, pos \in 1..k, b \in Byte
    <3>2. CASE b # c /\ \E i \in 1..k : n.keys[i] = b
      <4>1. PICK i \in 1..k : n.keys[i] = b
        BY <3>2
      <4>2. i # pos
        BY <2>4, <3>2, <4>1
      <4>3. n2.children[i] = n.children[i] /\ n2.keys[i] = b
        BY <1>5, <2>2, <2>5, <4>1, <4>2
      <4> QED BY ONLY <2>3, <2>7, <3>2, <4>1, <4>3, i \in 1..k, b \in Byte
    <3>3. CASE b # c /\ \A i \in 1..k : n.keys[i] # b
      BY ONLY <1>5, <2>3, <2>7, <3>3, b \in Byte
    <3> QED BY <3>1, <3>2, <3>3
  <2> QED BY <2>6, <2>8 DEF FindsAlso
<1>7. ASSUME n.type = "NODE48", Indexes(n, C)
      PROVE  Indexes(n2, C) /\ FindsAlso(n, n2, c, child)
  <2>1. \A b \in Byte : find_child(n, b) = IF n.keys[b] = 0 THEN NULL ELSE n.children[n.keys[b]]
    BY <1>7, FindIndexed DEF Indexes
  <2>2. /\ n.keys \in [Byte -> 0..Max48] /\ n.children \in [1..Max48 -> C \union {NULL}]
        /\ \A b \in Byte : n.keys[b] # 0 => n.children[n.keys[b]] # NULL
        /\ \A a, b \in Byte : n.keys[a] # 0 /\ n.keys[a] = n.keys[b] => a = b
        /\ \A p \in 1..Max48 : n.children[p] # NULL => \E b \in Byte : n.keys[b] = p
        /\ n.num_children = Cardinality({b \in Byte : n.keys[b] # 0})
        /\ Max48 \in Nat
    BY <1>7, SizesOrdered DEF Indexes
  <2>3. n.keys[c] # 0 /\ n.keys[c] \in 1..Max48
    BY <2>1, <2>2
  <2>4. slot = n.keys[c]
    <3>1. SlotsOf(n, c) = {n.keys[c]} \ {0}
      BY <1>7 DEF SlotsOf, Listed
    <3>2. SlotsOf(n, c) = {n.keys[c]}
      BY <2>3, <3>1
    <3> QED BY <2>3, <3>2, LeastOfOne
  <2>5. /\ n2.children[n.keys[c]] = child
        /\ \A p \in 1..Max48 : p # n.keys[c] => n2.children[p] = n.children[p]
        /\ n2.children \in [1..Max48 -> C \union {NULL}]
    BY <1>2, <1>5, <2>2, <2>3, <2>4
  <2>6. Indexes(n2, C)
    <3>1. \A b \in Byte : n2.keys[b] # 0 => n2.children[n2.keys[b]] # NULL
      BY <1>5, <2>2, <2>5
    <3>2. \A p \in 1..Max48 : n2.children[p] # NULL => \E b \in Byte : n2.keys[b] = p
      BY <1>5, <2>2, <2>3, <2>5
    <3> QED BY <1>5, <2>2, <2>5, <3>1, <3>2 DEF Indexes
  <2>7. \A b \in Byte : find_child(n2, b) = IF n.keys[b] = 0 THEN NULL ELSE n2.children[n.keys[b]]
    BY <1>5, <1>7, <2>2, FindIndexed
  <2> QED BY <2>1, <2>2, <2>3, <2>5, <2>6, <2>7 DEF FindsAlso
<1>8. ASSUME n.type = "NODE256", Direct(n, C)
      PROVE  Direct(n2, C) /\ FindsAlso(n, n2, c, child)
  <2>1. \A b \in Byte : find_child(n, b) = n.children[b] /\ find_child(n2, b) = n2.children[b]
    BY <1>5, <1>8, FindDirect
  <2>2. slot = c
    <3>1. SlotsOf(n, c) = {x \in {c} : n.children[x] # NULL}
      BY <1>8 DEF SlotsOf, Listed
    <3>2. SlotsOf(n, c) = {c} /\ c \in Nat
      BY <2>1, <3>1, BytesFinite
    <3> QED BY <3>2, LeastOfOne
  <2>3. n.children \in [Byte -> C \union {NULL}]
    BY <1>8 DEF Direct
  <2>4. /\ n2.children[c] = child /\ \A b \in Byte : b # c => n2.children[b] = n.children[b]
        /\ n2.children \in [Byte -> C \union {NULL}]
    BY <1>2, <1>5, <2>2, <2>3
  <2>5. {b \in Byte : n2.children[b] # NULL} = {b \in Byte : n.children[b] # NULL}
    BY <2>1, <2>4
  <2> QED BY <1>5, <1>8, <2>1, <2>4, <2>5 DEF Direct, FindsAlso
<1>9. WellFormed(n2, C) /\ FindsAlso(n, n2, c, child)
  BY <1>2, <1>5, <1>6, <1>7, <1>8, SizesOrdered DEF WellFormed
<1>10. Present(n2) = Present(n)
  <2>1. Present(n2) = Present(n) \union {c}
    BY ONLY <1>2, <1>9, c \in Byte, child # NULL, PresentAfter
  <2>2. c \in Present(n)
    BY <1>2, PresentFound
  <2> QED BY <2>1, <2>2
<1>11. Room(n2, Cardinality(Present(n2)))
  BY <1>5, <1>10 DEF Fits, Room
<1> QED BY <1>2, <1>5, <1>9, <1>10, <1>11 DEF Fits, n2

\* Where the layouts with lists have the child of a byte.
LEMMA PlaceInList ==
    ASSUME NEW n, n.type \in {"NODE4", "NODE16"}, Fits(n), NEW c \in Byte,
           find_child(n, c) # NULL
    PROVE  /\ Least(SlotsOf(n, c)) \in 1..n.num_children
           /\ n.keys[Least(SlotsOf(n, c))] = c
<1>1. PICK C : NULL \notin C /\ WellFormed(n, C)
  BY DEF Fits
<1>2. n.num_children \in Nat /\ ListsPresent(n)
  BY ONLY <1>1, n.type \in {"NODE4", "NODE16"}, ListedPresent
<1>3. c \in Present(n)
  BY <1>1, PresentFound
<1>4. PICK pos \in 1..n.num_children : n.keys[pos] = c
  BY <1>2, <1>3 DEF ListsPresent
<1>5. SlotsOf(n, c) = {i \in 1..n.num_children : n.keys[i] = c}
  BY DEF SlotsOf, Listed
<1>6. SlotsOf(n, c) = {pos} /\ pos \in Nat
  BY <1>2, <1>4, <1>5 DEF ListsPresent
<1>7. Least(SlotsOf(n, c)) = pos
  BY <1>6, LeastOfOne
<1> QED BY <1>4, <1>7

\* What the layouts make of the header and the layout of a node that loses a child,
\* but for a NODE4.
LEMMA RemoveHeader ==
    ASSUME NEW n, Header(n), NEW c
    PROVE  /\ n.type = "NODE16" =>
                  \A pos : LET n2 == remove_child16(n, pos)
                           IN  /\ SameHeader(n, n2)
                               /\ n2.type = IF n.num_children - 1 = Min16 THEN "NODE4" ELSE "NODE16"
           /\ n.type = "NODE48" =>
                  LET n2 == remove_child48(n, c)
                  IN  /\ SameHeader(n, n2)
                      /\ n2.type = IF n.num_children - 1 = Min48 THEN "NODE16" ELSE "NODE48"
           /\ n.type = "NODE256" =>
                  LET n2 == remove_child256(n, c)
                  IN  /\ SameHeader(n, n2)
                      /\ n2.type = IF (n.num_children - 1) % ByteCount = Min256 THEN "NODE48"
                                   ELSE "NODE256"
<1> DEFINE Like(m) == Header(m) /\ SameHeader(n, m)
<1>1. ASSUME NEW m, Like(m) PROVE SameHeader(n, Shrunk48(m)) /\ Shrunk48(m).type = "NODE16"
  BY <1>1 DEF Shrunk48, Header, SameHeader
<1>2. ASSUME NEW m, Like(m) PROVE SameHeader(n, Shrunk256(m)) /\ Shrunk256(m).type = "NODE48"
  BY <1>2 DEF Shrunk256, Header, SameHeader
<1>3. ASSUME n.type = "NODE16", NEW pos
      PROVE  LET n2 == remove_child16(n, pos)
             IN  /\ SameHeader(n, n2)
                 /\ n2.type = IF n.num_children - 1 = Min16 THEN "NODE4" ELSE "NODE16"
  <2> DEFINE left == RemoveAt(n, pos)
  <2>1. /\ DOMAIN left = DOMAIN n /\ SameHeader(n, left) /\ left.type = "NODE16"
        /\ left.num_children = n.num_children - 1
    BY <1>3 DEF RemoveAt, Header, SameHeader
  <2> HIDE DEF left
  <2>2. remove_child16(n, pos) = IF left.num_children = Min16 THEN [left EXCEPT !.type = "NODE4"]
                                 ELSE left
    BY DEF remove_child16, left
  <2>3. DOMAIN left = {"type", "num_children", "partial_len", "partial", "keys", "children"}
    BY <2>1 DEF Header
  <2>4. LET m == [left EXCEPT !.type = "NODE4"] IN SameHeader(n, m) /\ m.type = "NODE4"
    BY <2>1, <2>3 DEF SameHeader
  <2> QED BY <2>1, <2>2, <2>4
<1>4. ASSUME n.type = "NODE48"
      PROVE  LET n2 == remove_child48(n, c)
             IN  /\ SameHeader(n, n2)
                 /\ n2.type = IF n.num_children - 1 = Min48 THEN "NODE16" ELSE "NODE48"
  <2> DEFINE left == [n EXCEPT !.num_children = @ - 1, !.keys[c] = 0, !.children[n.keys[c]] = NULL]
  <2>1. DOMAIN left = DOMAIN n /\ SameHeader(n, left) /\ left.type = "NODE48"
    BY <1>4 DEF Header, SameHeader
  <2>2. left.num_children = n.num_children - 1
    BY DEF Header
  <2> HIDE DEF left
  <2>3. remove_child48(n, c) = IF left.num_children = Min48 THEN Shrunk48(left) ELSE left
    BY DEF remove_child48, left
  <2>4. DOMAIN left = {"type", "num_children", "partial_len", "partial", "keys", "children"}
    BY <2>1 DEF Header
  <2>5. SameHeader(n, Shrunk48(left)) /\ Shrunk48(left).type = "NODE16"
    BY <2>1, <2>4 DEF Shrunk48, SameHeader
  <2> QED BY <2>1, <2>2, <2>3, <2>5
<1>5. ASSUME n.type = "NODE256"
      PROVE  LET n2 == remove_child256(n, c)
             IN  /\ SameHeader(n, n2)
                 /\ n2.type = IF (n.num_children - 1) % ByteCount = Min256 THEN "NODE48"
                              ELSE "NODE256"
  <2> DEFINE left == [n EXCEPT !.num_children = (@ - 1) % ByteCount, !.children[c] = NULL]
  <2>1. DOMAIN left = DOMAIN n /\ SameHeader(n, left) /\ left.type = "NODE256"
    BY <1>5 DEF Header, SameHeader
  <2>2. left.num_children = (n.num_children - 1) % ByteCount
    BY DEF Header
  <2> HIDE DEF left
  <2>3. remove_child256(n, c) = IF left.num_children = Min256 THEN Shrunk256(left) ELSE left
    BY DEF remove_child256, left
  <2>4. DOMAIN left = {"type", "num_children", "partial_len", "partial", "keys", "children"}
    BY <2>1 DEF Header
  <2>5. SameHeader(n, Shrunk256(left)) /\ Shrunk256(left).type = "NODE48"
    BY <2>1, <2>4 DEF Shrunk256, SameHeader
  <2> QED BY <2>1, <2>2, <2>3, <2>5
<1> QED BY <1>3, <1>4, <1>5

\* A node in the tree that loses one of more than two children.
LEMMA RemoveFits ==
    ASSUME NEW n, Fits(n), NEW c \in Byte, find_child(n, c) # NULL,
           Cardinality(Present(n)) # 2
    PROVE  LET n2 == remove_child(n, c)
           IN  /\ Fits(n2) /\ SameHeader(n, n2) /\ FindsAlso(n, n2, c, NULL)
               /\ Present(n2) = Present(n) \ {c}
<1> DEFINE n2 == remove_child(n, c)
<1>1. PICK C : NULL \notin C /\ WellFormed(n, C)
  BY DEF Fits
<1>2. Header(n)
  BY <1>1 DEF WellFormed
<1>3. PICK k \in Nat : k = Cardinality(Present(n)) /\ k \in 0..ByteCount
  BY <1>1, PresentCounted
<1>4. /\ Room(n, k) /\ k # 2 /\ n.num_children = k % ByteCount
      /\ n.type # "NODE256" => n.num_children = k
      /\ n.type \in Layouts
  BY <1>1, <1>3, PresentCounted DEF Fits, WellFormed, Layouts
<1>5. c \in Present(n)
  BY <1>1, PresentFound
<1>6. ASSUME NEW m, WellFormed(m, C), SameHeader(n, m), FindsAlso(n, m, c, NULL),
             k - 1 >= 2,
             m.type = "NODE4" => k - 1 <= Max4,
             m.type = "NODE16" => Min16 + 1 <= k - 1 /\ k - 1 <= Max16,
             m.type = "NODE48" => Min48 + 1 <= k - 1 /\ k - 1 <= Max48,
             m.type = "NODE256" => Min256 + 1 <= k - 1
      PROVE  /\ Fits(m) /\ SameHeader(n, m) /\ FindsAlso(n, m, c, NULL)
             /\ Present(m) = Present(n) \ {c}
  <2>1. Present(m) = Present(n) \ {c}
    BY ONLY <1>1, <1>6, c \in Byte, PresentAfter
  <2>2. Cardinality(Present(m)) = k - 1
    BY <1>3, <1>5, <2>1, PresentCount
  <2>3. Room(m, k - 1)
    BY <1>3, <1>6, SizesOrdered DEF Room
  <2> QED BY <1>1, <1>6, <2>1, <2>2, <2>3 DEF Fits
<1>7. CASE n.type = "NODE4"
  <2> DEFINE pos == Least(SlotsOf(n, c))
             left == RemoveAt(n, pos)
  <2>1. pos \in 1..n.num_children /\ n.keys[pos] = c
    BY <1>7, PlaceInList
  <2>2. 3 <= k /\ k <= Max4 /\ n.num_children = k /\ Lists(n, Max4, C) /\ Max4 \in Nat
    BY <1>1, <1>3, <1>4, <1>7, SizesOrdered DEF Room, WellFormed
  <2>3. /\ Header(left) /\ left.type = n.type /\ left.num_children = n.num_children - 1
        /\ Lists(left, Max4, C) /\ FindsAlso(n, left, n.keys[pos], NULL)
    <3>1. n.type \in {"NODE4", "NODE16"}
      BY <1>7
    <3> HIDE DEF pos
    <3> QED BY ONLY <1>1, <1>2, <2>1, <2>2, <3>1, RemoveListed
  <2>4. SameHeader(n, left)
    BY <1>2 DEF RemoveAt, Header, SameHeader
  <2>5. n2 = left
    <3>1. n2 = remove_child4(n, pos)
      BY <1>7 DEF remove_child
    <3>2. left.num_children > 1
      BY <2>2, <2>3
    <3> QED BY <3>1, <3>2 DEF remove_child4
  <2>6. WellFormed(left, C)
    BY <1>7, <2>3 DEF WellFormed
  <2>7. FindsAlso(n, left, c, NULL)
    BY <2>1, <2>3
  <2> HIDE DEF left, n2
  <2>8. left.type = "NODE4" /\ k - 1 >= 2 /\ k - 1 <= Max4
    BY <1>7, <2>2, <2>3
  <2> QED BY <1>6, <2>4, <2>5, <2>6, <2>7, <2>8 DEF n2
<1>8. CASE n.type = "NODE16"
  <2> DEFINE pos == Least(SlotsOf(n, c))
  <2>1. pos \in 1..n.num_children /\ n.keys[pos] = c
    BY <1>8, PlaceInList
  <2>2. Min16 + 1 <= k /\ k <= Max16 /\ n.num_children = k
    BY <1>3, <1>4, <1>8, SizesOrdered DEF Room
  <2>3. n2 = remove_child16(n, pos)
    BY <1>8 DEF remove_child
  <2>4. WellFormed(n2, C) /\ FindsAlso(n, n2, c, NULL)
    <3>1. \A p \in 1..n.num_children : n.keys[p] = c =>
              /\ WellFormed(remove_child16(n, p), C)
              /\ FindsAlso(n, remove_child16(n, p), c, NULL)
      BY ONLY <1>1, <1>8, c \in Byte, find_child(n, c) # NULL, RemoveChildCorrect
    <3> HIDE DEF pos, n2
    <3> QED BY <2>1, <2>3, <3>1
  <2>5. SameHeader(n, n2) /\ n2.type = IF k - 1 = Min16 THEN "NODE4" ELSE "NODE16"
    <3> HIDE DEF pos, n2
    <3> QED BY <1>2, <1>8, <2>2, <2>3, RemoveHeader
  <2> HIDE DEF n2
  <2>6. /\ k - 1 >= 2 /\ (n2.type = "NODE4" => k - 1 <= Max4)
        /\ n2.type = "NODE16" => Min16 + 1 <= k - 1 /\ k - 1 <= Max16
        /\ n2.type \in {"NODE4", "NODE16"}
    BY <2>2, <2>5, SizesOrdered
  <2> QED BY <1>6, <2>4, <2>5, <2>6 DEF n2
<1>9. CASE n.type = "NODE48"
  <2>1. n2 = remove_child48(n, c)
    BY <1>9 DEF remove_child
  <2>2. Min48 + 1 <= k /\ k <= Max48 /\ n.num_children = k
    BY <1>3, <1>4, <1>9, SizesOrdered DEF Room
  <2>3. WellFormed(n2, C) /\ FindsAlso(n, n2, c, NULL)
    BY <2>1, <1>1, <1>9, RemoveChildCorrect
  <2>4. SameHeader(n, n2) /\ n2.type = IF k - 1 = Min48 THEN "NODE16" ELSE "NODE48"
    BY <1>2, <1>9, <2>1, <2>2, RemoveHeader
  <2> HIDE DEF n2
  <2>5. /\ k - 1 >= 2
        /\ n2.type = "NODE16" => Min16 + 1 <= k - 1 /\ k - 1 <= Max16
        /\ n2.type = "NODE48" => Min48 + 1 <= k - 1 /\ k - 1 <= Max48
        /\ n2.type \in {"NODE16", "NODE48"}
    BY <2>2, <2>4, SizesOrdered
  <2> QED BY <1>6, <2>3, <2>4, <2>5 DEF n2
<1>10. CASE n.type = "NODE256"
  <2>1. n2 = remove_child256(n, c)
    BY <1>10 DEF remove_child
  <2>2. Min256 + 1 <= k /\ k <= ByteCount /\ n.num_children = k % ByteCount /\ k \in 1..ByteCount
    BY <1>3, <1>4, <1>10, SizesOrdered DEF Room
  <2>3. WellFormed(n2, C) /\ FindsAlso(n, n2, c, NULL)
    BY <2>1, <1>1, <1>10, RemoveChildCorrect
  <2>4. (n.num_children - 1) % ByteCount = k - 1
    <3>1. ByteCount \in Nat /\ ByteCount > 1
      BY SizesOrdered
    <3> QED BY <2>2, <3>1, OneLess
  <2>5. SameHeader(n, n2) /\ n2.type = IF k - 1 = Min256 THEN "NODE48" ELSE "NODE256"
    BY <1>2, <1>10, <2>1, <2>4, RemoveHeader
  <2> HIDE DEF n2
  <2>6. /\ k - 1 >= 2
        /\ n2.type = "NODE48" => Min48 + 1 <= k - 1 /\ k - 1 <= Max48
        /\ n2.type = "NODE256" => Min256 + 1 <= k - 1
        /\ n2.type \in {"NODE48", "NODE256"}
    BY <2>2, <2>5, SizesOrdered
  <2> QED BY <1>6, <2>3, <2>5, <2>6 DEF n2
<1> QED BY <1>4, <1>7, <1>8, <1>9, <1>10 DEF Layouts

\* Of two children one is left alone: it takes the place of the node.
LEMMA RemoveOfTwo ==
    ASSUME NEW n, Fits(n), NEW c \in Byte, find_child(n, c) # NULL,
           Cardinality(Present(n)) = 2
    PROVE  \E b \in Byte :
               /\ b # c /\ Present(n) = {b, c} /\ n.type = "NODE4" /\ n.num_children = 2
               /\ remove_child(n, c) =
                      LET child == find_child(n, b)
                      IN  IF IS_LEAF(child) THEN child ELSE MergePrefix(n, b, child)
<1>1. PICK C : NULL \notin C /\ WellFormed(n, C)
  BY DEF Fits
<1>2. Header(n)
  BY <1>1 DEF WellFormed
<1>3. n.type = "NODE4" /\ n.num_children = 2
  <2>1. n.type \in Layouts
    BY <1>1 DEF WellFormed, Layouts
  <2>2. n.type = "NODE4"
    BY <2>1, SizesOrdered DEF Fits, Room, Layouts
  <2> QED BY <1>1, <2>2, PresentCounted
<1> DEFINE pos == Least(SlotsOf(n, c))
           left == RemoveAt(n, pos)
<1>4. pos \in 1..2 /\ n.keys[pos] = c
  BY <1>3, PlaceInList
<1>5. ListsPresent(n) /\ Lists(n, Max4, C)
  BY <1>1, <1>3, ListedPresent DEF WellFormed
<1>6. PICK other \in 1..2 : other = 3 - pos
  BY <1>4
<1>7. /\ left.num_children = 1 /\ left.keys[1] = n.keys[other]
      /\ left.children[1] = n.children[other] /\ SameHeader(n, left)
  <2>1. /\ left.keys = [i \in 1..(n.num_children - 1) |->
                            IF i < pos THEN n.keys[i] ELSE n.keys[i + 1]]
        /\ left.children = [i \in 1..(n.num_children - 1) |->
                            IF i < pos THEN n.children[i] ELSE n.children[i + 1]]
        /\ left.num_children = n.num_children - 1 /\ SameHeader(n, left)
    BY <1>2 DEF RemoveAt, Header, SameHeader
  <2> HIDE DEF left, pos
  <2> QED BY <1>3, <1>4, <1>6, <2>1
<1> DEFINE b == n.keys[other]
<1>8. b \in Byte /\ b # c /\ n.children[other] = find_child(n, b)
  <2>1. n.keys \in [1..2 -> Byte]
    BY <1>3, <1>5 DEF Lists
  <2>2. other # pos
    BY <1>4, <1>6
  <2> HIDE DEF pos
  <2> QED BY <1>3, <1>4, <1>5, <2>1, <2>2 DEF ListsPresent
<1>9. Present(n) = {b, c}
  <2>1. \A i \in 1..2 : i = pos \/ i = other
    BY <1>4, <1>6
  <2>2. \A x \in Present(n) : x = b \/ x = c
    <3> HIDE DEF pos
    <3> QED BY <1>3, <1>4, <1>5, <2>1 DEF ListsPresent
  <2>3. b \in Present(n) /\ c \in Present(n)
    BY <1>1, <1>3, <1>5, PresentFound DEF ListsPresent
  <2> QED BY <2>2, <2>3
<1>10. remove_child(n, c) = IF IS_LEAF(find_child(n, b)) THEN find_child(n, b)
                            ELSE MergePrefix(left, b, find_child(n, b))
  <2>1. remove_child(n, c) = remove_child4(n, pos)
    BY <1>3 DEF remove_child
  <2>2. ~(left.num_children > 1)
    BY <1>7
  <2>3. remove_child4(n, pos) = IF IS_LEAF(left.children[1]) THEN left.children[1]
                                ELSE MergePrefix(left, left.keys[1], left.children[1])
    BY <2>2 DEF remove_child4
  <2> HIDE DEF left, pos
  <2> QED BY <1>7, <1>8, <2>1, <2>3
<1>11. MergePrefix(left, b, find_child(n, b)) = MergePrefix(n, b, find_child(n, b))
  <2> HIDE DEF left, b
  <2> QED BY <1>7 DEF MergePrefix, SameHeader
<1> HIDE DEF left, b, pos
<1> QED BY <1>3, <1>8, <1>9, <1>10, <1>11
===============================================================================
