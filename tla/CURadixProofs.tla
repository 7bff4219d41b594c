--------------------------- MODULE CURadixProofs ---------------------------
(***************************************************************************)
(* CURadix for any nodes and any number of key bits: its types, its        *)
(* assertions, the shape of its trie, its queues and its search.           *)
(*                                                                         *)
(* The inductive invariant says where each node of the trie is, with       *)
(* witnesses for the depths D and the paths X, and that each ring has a    *)
(* head, with a witness for the rank R along it.                           *)
(***************************************************************************)
EXTENDS CURadix, FiniteSetTheorems, WellFoundedInduction, TLAPS

\* The nodes of the trie and the slots in which one can be.
Placed == {n \in linked : selfPtr[n] # NULL}
Slots == {RootSlot} \union (Placed \X Side)

\* Links lead both ways, and a linked node that is not in the trie has none.
LinksOK ==
    /\ \A n \in Placed : selfPtr[n] \in Slots /\ At(selfPtr[n]) = n /\ parent[n] = selfPtr[n][1]
    /\ \A s \in Slots : At(s) # NULL => At(s) \in Placed /\ selfPtr[At(s)] = s
    /\ \A n \in linked \ Placed : Unlinked(n)

\* The first d bits of a key.
Prefix(k, d) == k \div (2 ^ (KeyBits - d))

\* Where a slot is when the nodes are D[n] deep, at the end of the path X[n].
DepthOf(s, D) == IF s = RootSlot THEN 0 ELSE D[s[1]] + 1
PathOf(s, X) == IF s = RootSlot THEN 0 ELSE 2 * X[s[1]] + s[2]

\* D and X are depths and paths of the nodes of the trie; no two are in one place.
PlacesOK(D, X) ==
    /\ D \in [Node -> 0..KeyBits] /\ X \in [Node -> Nat]
    /\ \A n \in Placed : D[n] = DepthOf(selfPtr[n], D) /\ X[n] = PathOf(selfPtr[n], X)
    /\ \A n, m \in Placed : D[n] = D[m] /\ X[n] = X[m] => n = m

\* The node a remove pushes down.
Pushed(n) == pc = "remove" /\ node = n /\ Alone(n)

\* Every other node is on the path its key tells, and below a smaller key; those
\* below the pushed node are so without it.
KeysOK(D, X) ==
    /\ \A n \in Placed : Pushed(n) \/ Prefix(key[n], D[n]) = X[n]
    /\ \A n \in Placed : parent[n] # NULL =>
          Pushed(n) \/ Pushed(parent[n]) \/ key[parent[n]] < key[n]
    /\ \A n \in Placed :
          parent[n] # NULL /\ Pushed(parent[n]) /\ parent[parent[n]] # NULL =>
              key[parent[parent[n]]] < key[n]

\* The first nodes of the rings, with the one an insert carries.
Heads == Placed \union (IF pc = "insert" THEN {node} ELSE {})

\* The links of the rings lead both ways, among nodes with one key; the rank R grows
\* along a ring, so that it has a head, and no two rings have the same key, but
\* for the new node's own before it is put in.
RingsOK(R) ==
    /\ R \in [Node -> Nat]
    /\ \A n \in linked : /\ next[n] \in linked /\ prev[n] \in linked
                         /\ prev[next[n]] = n /\ next[prev[n]] = n
                         /\ key[next[n]] = key[n]
                         /\ next[n] \in Heads \/ R[n] < R[next[n]]
    /\ \A n, m \in Heads :
          key[n] = key[m] => n = m \/ (pc = "insert" /\ node = new /\ new \in {n, m})

\* The insert is in a place on the path of the key in hand, which no smaller key has
\* passed.  A node with the new node's key is not above it; a displaced node is
\* smaller than those that were below it.
CallOK(D, X) ==
    /\ pc = "insert" =>
          /\ new \in linked /\ node \in linked \ Placed /\ slot \in Slots
          /\ bit = KeyBits - DepthOf(slot, D)
          /\ Prefix(key[node], DepthOf(slot, D)) = PathOf(slot, X)
          /\ slot # RootSlot => key[slot[1]] < key[node]
          /\ node = new =>
                /\ next[new] = new
                /\ \A m \in Placed : key[m] = key[new] => D[m] >= DepthOf(slot, D)
          /\ node # new =>
                /\ new \in Placed /\ key[new] < key[node]
                /\ At(slot) # NULL => key[node] < key[At(slot)]
    /\ pc = "remove" => node \in linked

Inv(D, X, R) ==
    TypeOK /\ LinksOK /\ PlacesOK(D, X) /\ KeysOK(D, X) /\ RingsOK(R) /\ CallOK(D, X)

IInv == \E D, X, R : Inv(D, X, R)

-----------------------------------------------------------------------------
(* Numbers.                                                                 *)

\* A set of naturals that is not empty has a least member.
LEMMA LeastOfNaturals ==
    ASSUME NEW S \in SUBSET Nat, S # {}
    PROVE  \E m \in S : \A y \in S : m <= y
<1> DEFINE R == OpToRel(<, Nat)
<1>1. IsWellFoundedOn(R, Nat)
  BY NatLessThanWellFounded
<1>2. R = {x \in Nat \X Nat : x[1] < x[2]}
  BY Zenon DEF OpToRel
<1> HIDE DEF R
<1>3. PICK m \in S : \A y \in S : ~(<<y, m>> \in R)
  BY <1>1, WFMin, Zenon
<1>4. \A y \in S : m <= y
  <2> SUFFICES ASSUME NEW y \in S PROVE m <= y
    OBVIOUS
  <2>1. <<y, m>> \in Nat \X Nat /\ <<y, m>>[1] = y /\ <<y, m>>[2] = m
    OBVIOUS
  <2>2. ~(<<y, m>>[1] < <<y, m>>[2])
    BY <1>2, <1>3, <2>1, Zenon
  <2> QED BY <2>1, <2>2
<1> QED BY <1>4

\* A quotient is told by the multiples next to the number.
LEMMA QuotientUnique ==
    ASSUME NEW u \in Nat, u > 0, NEW x \in Nat, NEW y \in Nat, NEW k \in Nat,
           u * x <= k, k < u * x + u, u * y <= k, k < u * y + u
    PROVE  x = y
<1>1. ASSUME NEW a \in Nat, NEW b \in Nat, a < b PROVE u * a + u <= u * b
  <2>1. u * b = u * a + u * (b - a)
    OBVIOUS
  <2>2. b - a >= 1
    BY <1>1
  <2>3. u * (b - a) >= u
    BY <2>2
  <2> QED BY <2>1, <2>3
<1> QED BY <1>1

\* A number is its quotient times the divisor and a rest.
LEMMA Quotient ==
    ASSUME NEW k \in Nat, NEW u \in Nat, u > 0
    PROVE  k \div u \in Nat /\ u * (k \div u) <= k /\ k < u * (k \div u) + u
<1>1. k = u * (k \div u) + (k % u) /\ (k % u) \in 0..(u - 1) /\ (k \div u) \in Nat
  OBVIOUS
<1> QED BY <1>1

-----------------------------------------------------------------------------
(* Bits of keys.                                                            *)

\* Dividing by twice as much drops the last bit of the quotient.
LEMMA QuotientOfDouble ==
    ASSUME NEW k \in Nat, NEW u \in Nat, u > 0
    PROVE  k \div u = 2 * (k \div (2 * u)) + ((k \div u) % 2)
<1>1. PICK q \in Nat : q = k \div u
  BY Quotient
<1>2. PICK h \in Nat, r \in {0, 1} : q = 2 * h + r /\ r = q % 2
  <2>1. q = 2 * (q \div 2) + (q % 2) /\ q \div 2 \in Nat /\ q % 2 \in {0, 1}
    OBVIOUS
  <2> QED BY <2>1
<1>3. u * q <= k /\ k < u * q + u
  BY <1>1, Quotient
<1>4. u * q = (2 * u) * h + u * r
  BY <1>2
<1>5. (2 * u) * h <= k /\ k < (2 * u) * h + 2 * u
  <2>1. u * r \in {0, u}
    BY <1>2
  <2>2. (2 * u) * h \in Nat /\ u * q \in Nat
    OBVIOUS
  <2> QED BY <1>3, <1>4, <2>1, <2>2
<1>6. k \div (2 * u) = h
  <2>1. PICK v \in Nat : v = 2 * u /\ v > 0
    OBVIOUS
  <2>2. k \div v \in Nat /\ v * (k \div v) <= k /\ k < v * (k \div v) + v
    BY <2>1, Quotient
  <2>3. v * h <= k /\ k < v * h + v
    BY <1>5, <2>1
  <2>4. k \div v = h
    BY <2>1, <2>2, <2>3, QuotientUnique
  <2> QED BY <2>1, <2>4
<1> QED BY <1>1, <1>2, <1>6

\* A prefix is one bit longer than the one before.
LEMMA PrefixNext ==
    ASSUME NEW k \in Key, NEW d \in 0..KeyBits, d # KeyBits
    PROVE  /\ Prefix(k, d) \in Nat
           /\ IsBitSet(k, KeyBits - (d + 1)) \in Side
           /\ Prefix(k, d + 1) = 2 * Prefix(k, d) + IsBitSet(k, KeyBits - (d + 1))
<1>1. KeyBits \in Nat /\ k \in Nat
  BY KeyBitsAssumption DEF Key
<1>2. PICK e \in 0..KeyBits : e = KeyBits - (d + 1) /\ e + 1 = KeyBits - d
  BY <1>1
<1>3. PICK u \in Nat : u = 2 ^ e /\ u > 0 /\ 2 ^ (e + 1) = 2 * u
  BY <1>2, KeyBitsAssumption
<1>4. /\ k \div u = 2 * (k \div (2 * u)) + ((k \div u) % 2)
      /\ (k \div u) \in Nat /\ (k \div (2 * u)) \in Nat
  BY <1>1, <1>3, Quotient, QuotientOfDouble
<1>5. (k \div u) % 2 \in {0, 1}
  BY <1>4
<1>6. Prefix(k, d) = k \div (2 * u) /\ Prefix(k, d + 1) = k \div u
  BY <1>2, <1>3 DEF Prefix
<1>7. IsBitSet(k, KeyBits - (d + 1)) = (k \div u) % 2
  BY <1>2, <1>3 DEF IsBitSet
<1> QED BY <1>4, <1>5, <1>6, <1>7 DEF Side

\* The empty prefix, and the whole key.
LEMMA PrefixEnds ==
    ASSUME NEW k \in Key
    PROVE  Prefix(k, 0) = 0 /\ Prefix(k, KeyBits) = k
<1>1. KeyBits \in Nat /\ KeyBits - 0 = KeyBits /\ KeyBits - KeyBits = 0
  BY KeyBitsAssumption
<1>2. PICK u \in Nat : u = 2 ^ KeyBits /\ u > 0
  BY <1>1, KeyBitsAssumption
<1>3. k \in 0..(u - 1) /\ k \in Nat
  BY <1>2 DEF Key
<1>4. k \div u = 0
  BY <1>2, <1>3
<1>5. k \div 1 = k
  BY <1>3
<1> QED BY <1>1, <1>2, <1>4, <1>5, KeyBitsAssumption DEF Prefix

\* A key is below another where its prefix is.
LEMMA PrefixOrder ==
    ASSUME NEW j \in Key, NEW k \in Key, NEW d \in 0..KeyBits, Prefix(j, d) < Prefix(k, d)
    PROVE  j < k
<1>1. KeyBits \in Nat /\ j \in Nat /\ k \in Nat
  BY KeyBitsAssumption DEF Key
<1>2. PICK u \in Nat : u = 2 ^ (KeyBits - d) /\ u > 0
  BY <1>1, KeyBitsAssumption
<1>3. PICK x \in Nat, y \in Nat : x = j \div u /\ y = k \div u
  BY <1>1, <1>2, Quotient
<1>4. x < y
  BY <1>2, <1>3 DEF Prefix
<1>5. j < u * x + u /\ u * y <= k
  BY <1>1, <1>2, <1>3, Quotient
<1>6. u * y = u * x + u * (y - x)
  OBVIOUS
<1>7. u * (y - x) >= u
  <2>1. y - x >= 1
    BY <1>4
  <2> QED BY <2>1
<1> QED BY <1>1, <1>5, <1>6, <1>7

-----------------------------------------------------------------------------
(* Places in the trie.                                                      *)

\* The root's slot is no node's, and slots that are nodes' have a node and a side.
LEMMA SlotShape ==
    ASSUME TypeOK, NEW s \in Slots
    PROVE  /\ s \in SlotSet
           /\ s # RootSlot => s[1] \in Placed /\ s[2] \in Side /\ s = <<s[1], s[2]>>
           /\ (s[1] = NULL <=> s = RootSlot)
           /\ \A n \in Node, i \in Side : <<n, i>> # RootSlot
<1>2. RootSlot[1] = NULL /\ \A n \in Node, i \in Side : <<n, i>> # RootSlot
  BY NodeAssumption DEF RootSlot
<1>3. CASE s = RootSlot
  BY <1>2, <1>3 DEF SlotSet
<1>4. CASE s # RootSlot
  <2>1. PICK n \in Placed, i \in Side : s = <<n, i>>
    BY <1>4 DEF Slots
  <2>2. n \in Node
    BY DEF Placed, TypeOK
  <2> QED BY <1>2, <1>4, <2>1, <2>2, NodeAssumption DEF SlotSet
<1> QED BY <1>3, <1>4

\* A node with the depth and the path of a slot is in the slot.
LEMMA FoundAt ==
    ASSUME NEW D, NEW X, TypeOK, LinksOK, PlacesOK(D, X), NEW q \in Placed, NEW s \in Slots,
           D[q] = DepthOf(s, D), X[q] = PathOf(s, X)
    PROVE  At(s) = q
<1>1. PICK t \in Slots : t = selfPtr[q] /\ At(t) = q
  BY DEF LinksOK
<1>2. D[q] = DepthOf(t, D) /\ X[q] = PathOf(t, X)
  BY <1>1 DEF PlacesOK
<1>3. \A n \in Placed : D[n] \in Nat /\ X[n] \in Nat
  BY KeyBitsAssumption DEF PlacesOK, Placed, TypeOK
<1>4. CASE s = RootSlot
  <2>1. t = RootSlot
    <3> SUFFICES ASSUME t # RootSlot PROVE FALSE
      OBVIOUS
    <3>1. D[t[1]] \in Nat
      BY <1>3, SlotShape
    <3> QED BY <1>2, <1>4, <3>1 DEF DepthOf
  <2> QED BY <1>1, <1>4, <2>1
<1>5. CASE s # RootSlot
  <2>1. s[1] \in Placed /\ s[2] \in {0, 1} /\ s = <<s[1], s[2]>>
    BY <1>5, SlotShape DEF Side
  <2>2. t # RootSlot
    BY <1>2, <1>3, <1>5, <2>1 DEF DepthOf
  <2>3. t[1] \in Placed /\ t[2] \in {0, 1} /\ t = <<t[1], t[2]>>
    BY <2>2, SlotShape DEF Side
  <2>4. D[s[1]] + 1 = D[t[1]] + 1 /\ 2 * X[s[1]] + s[2] = 2 * X[t[1]] + t[2]
    BY <1>2, <1>5, <2>2 DEF DepthOf, PathOf
  <2>5. D[s[1]] = D[t[1]] /\ X[s[1]] = X[t[1]] /\ s[2] = t[2]
    BY <1>3, <2>1, <2>3, <2>4
  <2>6. s[1] = t[1]
    BY <2>1, <2>3, <2>5 DEF PlacesOK
  <2> QED BY <1>1, <2>1, <2>3, <2>5, <2>6
<1> QED BY <1>4, <1>5

\* What is above a node in the trie: one deep less, at the path without its last
\* step.
LEMMA Above ==
    ASSUME NEW D, NEW X, TypeOK, LinksOK, PlacesOK(D, X), NEW n \in Placed, D[n] # 0
    PROVE  /\ parent[n] # NULL /\ parent[n] \in Placed
           /\ D[n] = D[parent[n]] + 1
           /\ \E i \in Side : X[n] = 2 * X[parent[n]] + i
<1>1. PICK t \in Slots : t = selfPtr[n] /\ parent[n] = t[1]
  BY DEF LinksOK
<1>2. D[n] = DepthOf(t, D) /\ X[n] = PathOf(t, X)
  BY <1>1 DEF PlacesOK
<1>3. t # RootSlot
  BY <1>2 DEF DepthOf
<1>4. t[1] \in Placed /\ t[2] \in Side /\ t[1] # NULL
  BY <1>3, SlotShape, Zenon
<1> QED BY <1>1, <1>2, <1>3, <1>4 DEF DepthOf, PathOf

\* While no remove runs, a node has one above it at every smaller depth, on the path of
\* its key and with no larger key.
LEMMA Ancestors ==
    ASSUME NEW D, NEW X, TypeOK, LinksOK, PlacesOK(D, X), KeysOK(D, X), pc # "remove",
           NEW m \in Placed, NEW d \in 0..D[m]
    PROVE  \E q \in Placed : D[q] = d /\ X[q] = Prefix(key[m], d) /\ key[q] <= key[m]
<1> DEFINE Good(e) == \E q \in Placed : D[q] = e /\ X[q] = Prefix(key[m], e) /\ key[q] <= key[m]
           Bad == {j \in 0..D[m] : ~Good(D[m] - j)}
<1>1. /\ KeyBits \in Nat /\ D[m] \in 0..KeyBits /\ m \in Node
      /\ \A n \in Placed : key[n] \in Key /\ key[n] \in Nat /\ D[n] \in Nat /\ X[n] \in Nat
  BY KeyBitsAssumption DEF PlacesOK, Placed, TypeOK, Key
<1>2. Good(D[m])
  BY <1>1 DEF KeysOK, Pushed
<1>3. ASSUME NEW j \in 1..D[m], Good(D[m] - (j - 1)) PROVE Good(D[m] - j)
  <2>1. PICK e \in 0..KeyBits : e = D[m] - j /\ e + 1 = D[m] - (j - 1) /\ e # KeyBits
    BY <1>1
  <2>2. PICK q \in Placed : D[q] = e + 1 /\ X[q] = Prefix(key[m], e + 1) /\ key[q] <= key[m]
    BY <1>3, <2>1
  <2>3. PICK p \in Placed, i \in Side : /\ p = parent[q] /\ p # NULL
                                        /\ D[q] = D[p] + 1 /\ X[q] = 2 * X[p] + i
    <3>1. D[q] # 0
      BY <2>1, <2>2
    <3> QED BY <3>1, Above
  <2>4. D[p] = e
    BY <1>1, <2>1, <2>2, <2>3
  <2>5. X[p] = Prefix(key[m], e)
    <3>1. PICK b \in Side, x \in Nat : x = Prefix(key[m], e) /\ Prefix(key[m], e + 1) = 2 * x + b
      BY <1>1, <2>1, PrefixNext
    <3> QED BY <1>1, <2>2, <2>3, <3>1 DEF Side
  <2>6. key[p] <= key[m]
    <3>1. key[p] < key[q]
      BY <2>2, <2>3 DEF KeysOK, Pushed
    <3> QED BY <1>1, <2>2, <2>3, <3>1
  <2> QED BY <2>1, <2>3, <2>4, <2>5, <2>6
<1> HIDE DEF Good
<1>4. Bad = {}
  <2> SUFFICES ASSUME Bad # {} PROVE FALSE
    OBVIOUS
  <2>1. Bad \in SUBSET Nat
    BY <1>1
  <2>2. PICK j \in Bad : \A k \in Bad : j <= k
    BY <2>1, LeastOfNaturals
  <2>3. j \in 0..D[m] /\ ~Good(D[m] - j)
    OBVIOUS
  <2>4. j # 0
    BY <1>1, <1>2, <2>3
  <2>5. j \in 1..D[m] /\ j - 1 \in 0..D[m] /\ ~(j <= j - 1)
    BY <1>1, <2>3, <2>4
  <2>6. Good(D[m] - (j - 1))
    BY <2>2, <2>5
  <2> QED BY <1>3, <2>3, <2>5, <2>6
<1>5. D[m] - d \in 0..D[m] /\ D[m] - (D[m] - d) = d
  BY <1>1
<1>6. Good(d)
  BY <1>4, <1>5
<1> QED BY <1>6 DEF Good

-----------------------------------------------------------------------------
(* What relinking does to the links.                                        *)

\* NULL is no slot.
LEMMA NoSlot == NULL \notin SlotSet
  BY NodeAssumption DEF SlotSet, RootSlot, Side

\* The nodes have the types TypeOK gives them.
LEMMA Types ==
    ASSUME TypeOK
    PROVE  /\ Placed \subseteq Node /\ linked \subseteq Node /\ NULL \notin Node
           /\ \A n \in Node : /\ \A i \in Side : child[n][i] \in Node \union {NULL}
                              /\ parent[n] \in Node \union {NULL}
                              /\ selfPtr[n] \in SlotSet \union {NULL}
                              /\ key[n] \in Key
  BY NodeAssumption DEF TypeOK, Placed

\* What is in the slots after one has been set.
LEMMA SlotsSet ==
    ASSUME NEW s \in SlotSet, NEW n, NEW children, SetSlot(s, n, children), NEW t \in SlotSet
    PROVE  At(t)' = IF t = s THEN n ELSE IF t = RootSlot THEN root ELSE children[t[1]][t[2]]
<1>1. CASE t = RootSlot
  BY <1>1 DEF SetSlot, At
<1>2. CASE t # RootSlot
  <2>1. PICK m \in Node, i \in Side : t = <<m, i>>
    BY <1>2 DEF SlotSet
  <2> QED BY <1>2, <2>1 DEF SetSlot, At
<1> QED BY <1>1, <1>2

\* The children of a node of the trie are those nodes whose parent it is, each on
\* the side its selfPtr tells.
LEMMA Children ==
    ASSUME TypeOK, LinksOK, NEW p \in Placed
    PROVE  /\ \A i \in Side : child[p][i] # NULL =>
                 child[p][i] \in Placed /\ selfPtr[child[p][i]] = <<p, i>> /\ parent[child[p][i]] = p
           /\ \A m \in Node : ChildOf(child[p], m) <=> m \in Placed /\ parent[m] = p
           /\ \A m \in Placed : parent[m] = p =>
                 /\ SideOf(child[p], m) \in Side /\ selfPtr[m] = <<p, SideOf(child[p], m)>>
                 /\ child[p][SideOf(child[p], m)] = m
<1>1. p \in Node /\ p # NULL /\ \A i \in Side : <<p, i>> # RootSlot /\ <<p, i>> \in Slots
  BY Types, NodeAssumption DEF Slots, RootSlot
<1>2. \A i \in Side : At(<<p, i>>) = child[p][i]
  BY <1>1 DEF At
<1>3. ASSUME NEW i \in Side, child[p][i] # NULL
      PROVE  /\ child[p][i] \in Placed /\ selfPtr[child[p][i]] = <<p, i>>
             /\ parent[child[p][i]] = p
  <2>1. child[p][i] \in Placed /\ selfPtr[child[p][i]] = <<p, i>>
    BY <1>1, <1>2, <1>3 DEF LinksOK
  <2> QED BY <2>1 DEF LinksOK
<1>4. ASSUME NEW m \in Placed, parent[m] = p
      PROVE  \E i \in Side : selfPtr[m] = <<p, i>> /\ child[p][i] = m
  <2>1. PICK t \in Slots : t = selfPtr[m] /\ At(t) = m /\ p = t[1]
    BY <1>4 DEF LinksOK
  <2>2. t # RootSlot
    BY <1>1, <2>1, SlotShape
  <2>3. t[2] \in Side /\ t = <<p, t[2]>>
    BY <2>1, <2>2, SlotShape
  <2> QED BY <1>2, <2>1, <2>3
<1>5. \A m \in Node : ChildOf(child[p], m) <=> m \in Placed /\ parent[m] = p
  <2>1. \A m \in Node : m # NULL
    BY NodeAssumption
  <2> QED BY <1>3, <1>4, <2>1 DEF ChildOf
<1>6. ASSUME NEW m \in Placed, parent[m] = p
      PROVE  /\ SideOf(child[p], m) \in Side /\ selfPtr[m] = <<p, SideOf(child[p], m)>>
             /\ child[p][SideOf(child[p], m)] = m
  <2>1. PICK i \in Side : selfPtr[m] = <<p, i>> /\ child[p][i] = m
    BY <1>4, <1>6
  <2>2. m # NULL
    BY Types, NodeAssumption
  <2>3. child[p][0] = m => <<p, 0>> = <<p, i>>
    BY <1>3, <2>1, <2>2 DEF Side
  <2>4. SideOf(child[p], m) = i
    BY <2>1, <2>3 DEF SideOf, Side
  <2> QED BY <2>1, <2>4
<1> QED BY <1>3, <1>5, <1>6

\* A node of the trie is not its own parent.
LEMMA NotOwnParent ==
    ASSUME NEW D, NEW X, TypeOK, LinksOK, PlacesOK(D, X), NEW n \in Placed
    PROVE  /\ parent[n] # n /\ parent[n] \in Placed \union {NULL}
           /\ parent[n] = NULL <=> selfPtr[n] = RootSlot
           /\ D[n] = IF parent[n] = NULL THEN 0 ELSE D[parent[n]] + 1
<1>1. PICK t \in Slots : t = selfPtr[n] /\ parent[n] = t[1]
  BY DEF LinksOK
<1>2. D[n] = DepthOf(t, D) /\ D[n] \in Nat
  BY <1>1, Types, KeyBitsAssumption DEF PlacesOK
<1>3. CASE t = RootSlot
  BY <1>1, <1>2, <1>3, Types DEF RootSlot, DepthOf
<1>4. CASE t # RootSlot
  <2>1. t[1] \in Placed /\ t[1] # NULL
    BY <1>4, SlotShape, Zenon
  <2>2. D[n] = D[t[1]] + 1
    BY <1>2, <1>4 DEF DepthOf
  <2>3. t[1] # n
    BY <1>2, <2>2
  <2> QED BY <1>1, <1>4, <2>1, <2>2, <2>3
<1> QED BY <1>3, <1>4

\* The children of a node whose place another takes are the other's.
LEMMA ReplacedParent ==
    ASSUME TypeOK, LinksOK, NEW orig \in Placed, NEW repl \in linked \ Placed,
           NEW reset \in BOOLEAN, ReplaceNode(orig, repl, reset), NEW m \in Placed, m # orig
    PROVE  parent'[m] = IF parent[m] = orig THEN repl ELSE parent[m]
<1>1. ChildOf(child[orig], m) <=> parent[m] = orig
  BY Children, Types
<1>2. m \in Node /\ m # repl
  BY Types
<1> QED BY <1>1, <1>2 DEF ReplaceNode

\* A node that takes the place of another has its links and place, and the others
\* have kept theirs.
LEMMA Replaced ==
    ASSUME NEW D, NEW X, TypeOK, LinksOK, PlacesOK(D, X),
           NEW orig \in Placed, NEW repl \in linked \ Placed,
           \/ ReplaceNode(orig, repl, TRUE) /\ linked' = linked
           \/ ReplaceNode(orig, repl, FALSE) /\ linked' = linked \ {orig}
    PROVE  /\ root' \in Node \union {NULL}
           /\ child' \in [Node -> [Side -> Node \union {NULL}]]
           /\ parent' \in [Node -> Node \union {NULL}]
           /\ selfPtr' \in [Node -> SlotSet \union {NULL}]
           /\ Placed' = (Placed \ {orig}) \union {repl}
           /\ LinksOK'
           /\ PlacesOK([D EXCEPT ![repl] = D[orig]], [X EXCEPT ![repl] = X[orig]])'
           /\ parent'[repl] = parent[orig]
           /\ \A i \in Side : child'[repl][i] = child[orig][i]
<1> DEFINE Ren(s) == IF s # RootSlot /\ s[1] = orig THEN <<repl, s[2]>> ELSE s
           kids == child[orig]
           D2 == [D EXCEPT ![repl] = D[orig]]
           X2 == [X EXCEPT ![repl] = X[orig]]
<1>0. PICK reset \in BOOLEAN : /\ ReplaceNode(orig, repl, reset)
                               /\ linked' = IF reset THEN linked ELSE linked \ {orig}
  <2>1. CASE ReplaceNode(orig, repl, TRUE) /\ linked' = linked
    <3> WITNESS TRUE \in BOOLEAN
    <3> QED BY <2>1
  <2>2. CASE ReplaceNode(orig, repl, FALSE) /\ linked' = linked \ {orig}
    <3> WITNESS FALSE \in BOOLEAN
    <3> QED BY <2>2
  <2> QED BY <2>1, <2>2
<1> USE <1>0
<1>1. /\ orig \in Node /\ repl \in Node /\ orig # repl /\ orig # NULL /\ repl # NULL
      /\ Unlinked(repl)
  BY Types DEF LinksOK
<1>2. PICK so \in Slots : /\ so = selfPtr[orig] /\ so # NULL /\ At(so) = orig
                          /\ parent[orig] = so[1]
  BY DEF LinksOK, Placed
<1>3. /\ so \in SlotSet
      /\ so # RootSlot => so[1] \in Placed \ {orig} /\ so[1] # repl
      /\ \A i \in Side : so # <<orig, i>> /\ so # <<repl, i>>
  <2>1. so # RootSlot => so[1] \in Placed \ {orig}
    BY <1>2, SlotShape, NotOwnParent
  <2>2. \A n \in Node, i \in Side : <<n, i>> # RootSlot
    BY SlotShape
  <2> QED BY <1>1, <2>1, <2>2, SlotShape
<1>4. /\ \A i \in Side : kids[i] # NULL =>
            kids[i] \in Placed /\ selfPtr[kids[i]] = <<orig, i>> /\ parent[kids[i]] = orig
      /\ \A m \in Node : ChildOf(kids, m) <=> m \in Placed /\ parent[m] = orig
      /\ \A m \in Placed : parent[m] = orig =>
            /\ SideOf(kids, m) \in Side /\ selfPtr[m] = <<orig, SideOf(kids, m)>>
            /\ kids[SideOf(kids, m)] = m
  BY Children
<1>5. PICK links : /\ SetSlot(so, repl, links)
                   /\ links[repl] = kids /\ links[orig] = LinksAfter(reset, kids)
                   /\ \A n \in Node : n # orig /\ n # repl => links[n] = child[n]
  <2> DEFINE ls == [child EXCEPT ![repl] = kids, ![orig] = LinksAfter(reset, kids)]
  <2>1. SetSlot(so, repl, ls)
    BY <1>1, <1>2 DEF ReplaceNode
  <2>2. /\ ls[repl] = kids /\ ls[orig] = LinksAfter(reset, kids)
        /\ \A n \in Node : n # orig /\ n # repl => ls[n] = child[n]
    BY <1>1 DEF TypeOK
  <2> HIDE DEF ls
  <2> QED BY <2>1, <2>2
<1>5a. \A t \in SlotSet :
          At(t)' = IF t = so THEN repl ELSE IF t = RootSlot THEN root ELSE links[t[1]][t[2]]
  BY <1>3, <1>5, SlotsSet
<1>6. /\ \A i \in Side : At(<<repl, i>>)' = kids[i]
      /\ \A n \in Node, i \in Side : n # orig /\ n # repl /\ <<n, i>> # so =>
            At(<<n, i>>)' = child[n][i] /\ At(<<n, i>>) = child[n][i]
      /\ At(so)' = repl
      /\ so # RootSlot => At(RootSlot)' = At(RootSlot)
  <2>1. \A n \in Node, i \in Side : <<n, i>> \in SlotSet /\ <<n, i>> # RootSlot
    BY SlotShape DEF SlotSet, Slots
  <2>2. RootSlot \in SlotSet
    BY DEF SlotSet
  <2>3. child \in [Node -> [Side -> Node \union {NULL}]]
    BY DEF TypeOK
  <2> QED BY <1>1, <1>3, <1>5, <1>5a, <2>1, <2>2, <2>3 DEF At
<1>7. /\ \A m \in Node :
            parent'[m] = IF m = repl THEN parent[orig]
                         ELSE IF m = orig THEN (IF reset THEN NULL ELSE parent[m])
                         ELSE IF ChildOf(kids, m) THEN repl ELSE parent[m]
      /\ \A m \in Node :
            selfPtr'[m] = IF m = repl THEN selfPtr[orig]
                          ELSE IF m = orig THEN NULL
                          ELSE IF ChildOf(kids, m) THEN <<repl, SideOf(kids, m)>>
                          ELSE selfPtr[m]
  BY DEF ReplaceNode
<1>8. /\ parent'[repl] = parent[orig]
      /\ \A m \in Placed \ {orig} : parent'[m] = IF parent[m] = orig THEN repl ELSE parent[m]
  BY <1>1, <1>4, <1>7, Types
<1>9. /\ selfPtr'[repl] = so
      /\ \A m \in Placed \ {orig} : selfPtr'[m] = Ren(selfPtr[m])
      /\ selfPtr'[orig] = NULL
      /\ \A m \in Node \ Placed : m # repl => selfPtr'[m] = selfPtr[m] /\ parent'[m] = parent[m]
  <2>1. ASSUME NEW m \in Placed \ {orig} PROVE selfPtr'[m] = Ren(selfPtr[m])
    <3>1. m \in Node /\ m # repl /\ selfPtr[m] \in Slots /\ parent[m] = selfPtr[m][1]
      BY Types DEF LinksOK
    <3>2. CASE parent[m] = orig
      <4>1. selfPtr[m] # RootSlot
        BY <1>1, <3>1, <3>2, SlotShape
      <4>2. PICK i \in Side : i = SideOf(kids, m) /\ selfPtr[m] = <<orig, i>>
        BY <1>4, <3>2
      <4>3. selfPtr'[m] = <<repl, i>>
        BY <1>4, <1>7, <3>1, <3>2, <4>2
      <4>4. Ren(selfPtr[m]) = <<repl, i>>
        BY <4>1, <4>2
      <4> QED BY <4>3, <4>4
    <3>3. CASE parent[m] # orig
      BY <1>4, <1>7, <3>1, <3>3
    <3> QED BY <3>2, <3>3
  <2> QED BY <1>1, <1>2, <1>4, <1>7, <2>1
<1>10. ASSUME NEW m \in Placed \ {orig}, NEW s \in Slots, s = selfPtr[m]
       PROVE  /\ Ren(s) \in SlotSet \ {so}
              /\ At(Ren(s))' = m
              /\ parent'[m] = Ren(s)[1]
              /\ Ren(s) # RootSlot => Ren(s)[1] \in (Placed \ {orig}) \union {repl}
  <2>1. m \in Node /\ m # repl /\ At(s) = m /\ parent[m] = s[1] /\ s # so
    BY <1>2, <1>10, Types DEF LinksOK
  <2>2. CASE s = RootSlot
    <3>1. parent[m] # orig
      BY <1>1, <2>1, <2>2, SlotShape
    <3> QED BY <1>6, <1>8, <2>1, <2>2, <3>1 DEF SlotSet
  <2>3. CASE s # RootSlot
    <3>1. PICK n \in Placed, i \in Side : s = <<n, i>> /\ n \in Node /\ n # repl
      BY <2>3, SlotShape, Types
    <3>2. CASE n = orig
      <4>1. Ren(s) = <<repl, i>>
        BY <2>3, <3>1, <3>2
      <4>2. parent[m] = orig
        BY <2>1, <3>1, <3>2
      <4>3. kids[i] = m
        <5>1. PICK j \in Side : selfPtr[m] = <<orig, j>> /\ kids[j] = m
          BY <1>4, <4>2
        <5>2. <<orig, i>> = <<orig, j>>
          BY <1>10, <3>1, <3>2, <5>1
        <5>3. i = j
          BY <5>2
        <5> QED BY <5>1, <5>3
      <4> QED BY <1>1, <1>3, <1>6, <1>8, <4>1, <4>2, <4>3 DEF SlotSet
    <3>3. CASE n # orig
      <4>1. Ren(s) = <<n, i>> /\ <<n, i>> # so
        BY <2>1, <3>1, <3>3
      <4>2. parent[m] = n
        BY <2>1, <3>1
      <4> QED BY <1>6, <1>8, <2>1, <3>1, <3>3, <4>1, <4>2 DEF SlotSet
    <3> QED BY <3>2, <3>3
  <2> QED BY <2>2, <2>3
<1>11. Placed' = (Placed \ {orig}) \union {repl}
  <2>1. ASSUME NEW m \in Placed \ {orig} PROVE selfPtr'[m] # NULL
    <3>1. selfPtr[m] \in Slots
      BY DEF LinksOK
    <3>2. Ren(selfPtr[m]) \in SlotSet
      BY <1>10, <3>1
    <3> QED BY <1>9, <3>2, NoSlot
  <2>2. Placed' = {m \in linked' : selfPtr'[m] # NULL}
    BY DEF Placed
  <2>3. repl \in linked' /\ Placed \ {orig} \subseteq linked'
    BY <1>1 DEF Placed
  <2>4. ASSUME NEW m \in linked', m # repl, m \notin Placed \ {orig} PROVE selfPtr'[m] = NULL
    <3>1. CASE m = orig
      BY <1>9, <3>1
    <3>2. CASE m # orig
      <4>1. m \in linked /\ m \notin Placed /\ m \in Node
        BY <2>4, <3>2, Types
      <4> QED BY <1>9, <2>4, <4>1 DEF Placed
    <3> QED BY <3>1, <3>2
  <2> QED BY <1>2, <1>9, <2>1, <2>2, <2>3, <2>4
<1>12. /\ root' \in Node \union {NULL}
       /\ child' \in [Node -> [Side -> Node \union {NULL}]]
       /\ parent' \in [Node -> Node \union {NULL}]
       /\ selfPtr' \in [Node -> SlotSet \union {NULL}]
  <2>1. \A n \in Node, i \in Side : links[n][i] \in Node \union {NULL}
    <3>1. \A n \in Node, i \in Side : child[n][i] \in Node \union {NULL}
      BY Types
    <3>2. \A i \in Side : LinksAfter(reset, kids)[i] \in Node \union {NULL}
      BY <1>1, <3>1 DEF LinksAfter, NoChild
    <3> QED BY <1>1, <1>5, <3>1, <3>2
  <2>2. root' \in Node \union {NULL} /\ child' \in [Node -> [Side -> Node \union {NULL}]]
    BY <1>1, <1>5, <2>1 DEF SetSlot, TypeOK
  <2>3. /\ parent' = [m \in Node |-> parent'[m]] /\ selfPtr' = [m \in Node |-> selfPtr'[m]]
    BY DEF ReplaceNode
  <2>4. ASSUME NEW m \in Node
        PROVE  parent'[m] \in Node \union {NULL} /\ selfPtr'[m] \in SlotSet \union {NULL}
    <3>1. /\ parent[m] \in Node \union {NULL} /\ selfPtr[m] \in SlotSet \union {NULL}
          /\ parent[orig] \in Node \union {NULL} /\ selfPtr[orig] \in SlotSet \union {NULL}
      BY <1>1, Types
    <3>2. ChildOf(kids, m) => <<repl, SideOf(kids, m)>> \in SlotSet
      BY <1>1, <1>4 DEF SlotSet
    <3> QED BY <1>1, <1>7, <3>1, <3>2
  <2> HIDE DEF kids
  <2>5. \A m \in Node : parent'[m] \in Node \union {NULL} /\ selfPtr'[m] \in SlotSet \union {NULL}
    BY <2>4
  <2>6. parent' \in [Node -> Node \union {NULL}] /\ selfPtr' \in [Node -> SlotSet \union {NULL}]
    BY <2>3, <2>5
  <2> QED BY <2>2, <2>6
<1>13. LinksOK'
  <2>1. Slots' = {RootSlot} \union (Placed' \X Side)
    BY DEF Slots, RootSlot
  <2>2. ASSUME NEW n \in Placed'
        PROVE  \E s \in Slots' : s = selfPtr'[n] /\ At(s)' = n /\ parent'[n] = s[1]
    <3>1. CASE n = repl
      <4>1. so \in Slots'
        <5>1. CASE so = RootSlot
          BY <2>1, <5>1
        <5>2. CASE so # RootSlot
          <6>1. so = <<so[1], so[2]>> /\ so[2] \in Side /\ so[1] \in Placed'
            BY <1>3, <1>11, <5>2, SlotShape
          <6> QED BY <2>1, <6>1
        <5> QED BY <5>1, <5>2
      <4> QED BY <1>2, <1>6, <1>8, <1>9, <3>1, <4>1
    <3>2. CASE n # repl
      <4>1. n \in Placed \ {orig}
        BY <1>11, <3>2
      <4>2. PICK s \in Slots : s = selfPtr[n]
        BY <4>1 DEF LinksOK
      <4>3. PICK t : t = Ren(s)
        OBVIOUS
      <4>4. /\ t \in SlotSet /\ At(t)' = n /\ parent'[n] = t[1]
            /\ t # RootSlot => t[1] \in (Placed \ {orig}) \union {repl}
        BY <1>10, <4>1, <4>2, <4>3
      <4>5. t \in Slots'
        <5>1. CASE t = RootSlot
          BY <2>1, <5>1
        <5>2. CASE t # RootSlot
          <6>1. PICK q \in Node, i \in Side : t = <<q, i>>
            BY <4>4, <5>2 DEF SlotSet
          <6>2. q \in Placed'
            BY <1>11, <4>4, <5>2, <6>1
          <6> QED BY <2>1, <6>1, <6>2
        <5> QED BY <5>1, <5>2
      <4>6. selfPtr'[n] = t
        BY <1>9, <4>1, <4>2, <4>3
      <4> QED BY <4>4, <4>5, <4>6
    <3> QED BY <3>1, <3>2
  <2>3. ASSUME NEW s \in Slots', At(s)' # NULL
        PROVE  At(s)' \in Placed' /\ selfPtr'[At(s)'] = s
    <3>1. CASE s = so
      BY <1>6, <1>9, <1>11, <3>1
    <3>2. CASE s # so /\ s = RootSlot
      <4>1. so # RootSlot /\ At(s)' = At(RootSlot) /\ At(RootSlot) # NULL
        BY <1>6, <2>3, <3>2
      <4>2. PICK m : m = At(RootSlot) /\ m \in Placed /\ selfPtr[m] = RootSlot
        BY <4>1 DEF LinksOK, Slots
      <4>3. m # orig /\ Ren(RootSlot) = RootSlot
        BY <1>2, <4>1, <4>2
      <4> QED BY <1>9, <1>11, <3>2, <4>1, <4>2, <4>3
    <3>3. CASE s # so /\ s # RootSlot
      <4>1. PICK q \in Placed', i \in Side : s = <<q, i>>
        BY <2>1, <3>3
      <4>2. CASE q = repl
        <5>1. PICK m : m = kids[i] /\ At(s)' = m
          BY <1>6, <4>1, <4>2
        <5>2. m \in Placed /\ selfPtr[m] = <<orig, i>> /\ parent[m] = orig
          BY <1>4, <2>3, <5>1
        <5>3. m # orig
          BY <5>2, NotOwnParent
        <5>4. Ren(<<orig, i>>) = <<repl, i>>
          BY <1>1, SlotShape
        <5> QED BY <1>9, <1>11, <4>1, <4>2, <5>1, <5>2, <5>3, <5>4
      <4>3. CASE q # repl
        <5>1. q \in Placed /\ q # orig /\ q \in Node
          BY <1>11, <4>1, <4>3, Types
        <5>2. At(s)' = At(s) /\ s \in Slots
          BY <1>6, <3>3, <4>1, <4>3, <5>1 DEF Slots
        <5>3. PICK m : m = At(s) /\ m \in Placed /\ selfPtr[m] = s
          BY <2>3, <5>2 DEF LinksOK
        <5>4. m # orig /\ Ren(s) = s
          BY <1>2, <3>3, <4>1, <5>1, <5>3
        <5> QED BY <1>9, <1>11, <5>2, <5>3, <5>4, ZenonT(40)
      <4> QED BY <4>2, <4>3
    <3> QED BY <3>1, <3>2, <3>3
  <2>4. ASSUME NEW n \in linked' \ Placed' PROVE Unlinked(n)'
    <3>1. n \in Node /\ n # repl /\ (n = orig => reset) /\ n \in linked
      BY <1>1, <1>11, <2>4, Types
    <3>2. CASE n = orig
      <4>1. child'[n] = [i \in Side |-> IF <<n, i>> = so THEN repl ELSE NoChild[i]]
        BY <1>5, <3>1, <3>2 DEF SetSlot, LinksAfter
      <4>2. child'[n] = NoChild
        BY <1>3, <3>2, <4>1 DEF NoChild
      <4> QED BY <1>1, <1>7, <1>9, <3>1, <3>2, <4>2 DEF Unlinked, NoChild
    <3>3. CASE n # orig
      <4>1. n \in linked \ Placed
        BY <1>11, <2>4, <3>1, <3>3
      <4>2. Unlinked(n)
        BY <4>1 DEF LinksOK
      <4>3. ASSUME NEW i \in Side PROVE <<n, i>> # so
        <5>1. <<n, i>> # RootSlot /\ <<n, i>>[1] = n
          BY <3>1, NodeAssumption DEF RootSlot
        <5> QED BY <1>3, <4>1, <5>1
      <4>4. child'[n] = [i \in Side |-> child[n][i]]
        BY <1>5, <3>1, <3>3, <4>3 DEF SetSlot
      <4>5. child'[n] = NoChild
        BY <4>2, <4>4 DEF Unlinked, NoChild
      <4> QED BY <1>9, <3>1, <4>1, <4>2, <4>5 DEF Unlinked, NoChild
    <3> QED BY <3>2, <3>3
  <2>5. \A n \in Placed' :
            /\ selfPtr'[n] \in Slots' /\ parent'[n] = selfPtr'[n][1]
            /\ (IF selfPtr'[n] = RootSlot THEN root'
                ELSE child'[selfPtr'[n][1]][selfPtr'[n][2]]) = n
    BY <2>2 DEF At
  <2> QED BY <2>3, <2>4, <2>5 DEF LinksOK, At
<1>14. PlacesOK(D2, X2)'
  <2>1. /\ D \in [Node -> 0..KeyBits] /\ X \in [Node -> Nat]
        /\ \A n \in Placed : D[n] = DepthOf(selfPtr[n], D) /\ X[n] = PathOf(selfPtr[n], X)
        /\ \A n, m \in Placed : D[n] = D[m] /\ X[n] = X[m] => n = m
    BY DEF PlacesOK
  <2>2. /\ D2 \in [Node -> 0..KeyBits] /\ X2 \in [Node -> Nat]
        /\ D2[repl] = D[orig] /\ X2[repl] = X[orig]
        /\ \A n \in Node : n # repl => D2[n] = D[n] /\ X2[n] = X[n]
    BY <1>1, <2>1
  <2> HIDE DEF D2, X2
  <2>3. ASSUME NEW s \in Slots
        PROVE  DepthOf(Ren(s), D2) = DepthOf(s, D) /\ PathOf(Ren(s), X2) = PathOf(s, X)
    <3>1. CASE s = RootSlot
      BY <3>1 DEF DepthOf, PathOf
    <3>2. CASE s # RootSlot
      <4>1. PICK n \in Placed, i \in Side : s = <<n, i>> /\ n \in Node /\ n # repl
        BY <3>2, SlotShape, Types
      <4>2. <<repl, i>> # RootSlot
        BY <1>1, SlotShape
      <4>3. CASE n = orig
        <5>1. Ren(s) = <<repl, i>>
          BY <3>2, <4>1, <4>3
        <5> QED BY <2>2, <3>2, <4>1, <4>2, <4>3, <5>1 DEF DepthOf, PathOf
      <4>4. CASE n # orig
        <5>1. Ren(s) = s
          BY <4>1, <4>4
        <5> QED BY <2>2, <3>2, <4>1, <5>1 DEF DepthOf, PathOf
      <4> QED BY <4>3, <4>4
    <3> QED BY <3>1, <3>2
  <2>4. ASSUME NEW n \in Placed'
        PROVE  D2[n] = DepthOf(selfPtr'[n], D2) /\ X2[n] = PathOf(selfPtr'[n], X2)
    <3>1. CASE n = repl
      <4>1. Ren(so) = so
        BY <1>3
      <4> QED BY <1>2, <1>9, <2>1, <2>2, <2>3, <3>1, <4>1
    <3>2. CASE n # repl
      <4>1. n \in Placed \ {orig} /\ n \in Node
        BY <1>11, <3>2, Types
      <4>2. PICK s \in Slots : s = selfPtr[n]
        BY <4>1 DEF LinksOK
      <4>3. selfPtr'[n] = Ren(s)
        BY <1>9, <4>1, <4>2
      <4> HIDE DEF Ren
      <4> QED BY <2>1, <2>2, <2>3, <3>2, <4>1, <4>2, <4>3
    <3> QED BY <3>1, <3>2
  <2>5. ASSUME NEW n \in Placed', NEW m \in Placed', D2[n] = D2[m], X2[n] = X2[m] PROVE n = m
    <3>1. /\ n = repl \/ (n \in Placed \ {orig} /\ n \in Node /\ n # repl)
          /\ m = repl \/ (m \in Placed \ {orig} /\ m \in Node /\ m # repl)
      BY <1>1, <1>11, Types
    <3> QED BY <2>1, <2>2, <2>5, <3>1
  <2> QED BY <2>2, <2>4, <2>5 DEF PlacesOK
<1>15. \A i \in Side : child'[repl][i] = child[orig][i]
  <2>1. \A i \in Side : <<repl, i>> # RootSlot /\ <<repl, i>>[1] = repl /\ <<repl, i>>[2] = i
    BY <1>1, SlotShape
  <2> QED BY <1>6, <2>1 DEF At
<1> QED BY <1>8, <1>11, <1>12, <1>13, <1>14, <1>15

\* When a node and its child change places, each has the other's children.
LEMMA SwappedParent ==
    ASSUME TypeOK, LinksOK, NEW p \in Placed, NEW c \in Placed, parent[c] = p,
           SwapParentWithChild(p, c), NEW m \in Placed, m \notin {p, c}
    PROVE  parent'[m] = IF parent[m] = p THEN c ELSE IF parent[m] = c THEN p ELSE parent[m]
<1>1. m \in Node /\ m # NULL
  BY Types
<1>2. PICK side \in Side : side = SideOf(child[p], c) /\ child[p][side] = c
  BY Children
<1>3. m = child[p][1 - side] <=> parent[m] = p
  <2>1. 1 - side \in Side /\ \A i \in Side : i = side \/ i = 1 - side
    BY DEF Side
  <2>2. m = child[p][1 - side] => parent[m] = p
    BY <1>1, <2>1, Children
  <2>3. parent[m] = p => \E i \in Side : child[p][i] = m
    BY Children
  <2> QED BY <1>2, <2>1, <2>2, <2>3
<1>4. ChildOf(child[c], m) <=> parent[m] = c
  BY <1>1, Children
<1> QED BY <1>1, <1>2, <1>3, <1>4 DEF SwapParentWithChild

\* A node and its child that change places have each other's links and place, and the
\* others have kept theirs.
LEMMA Swapped ==
    ASSUME NEW D, NEW X, TypeOK, LinksOK, PlacesOK(D, X),
           NEW p \in Placed, NEW c \in Placed, parent[c] = p,
           SwapParentWithChild(p, c), linked' = linked
    PROVE  /\ root' \in Node \union {NULL}
           /\ child' \in [Node -> [Side -> Node \union {NULL}]]
           /\ parent' \in [Node -> Node \union {NULL}]
           /\ selfPtr' \in [Node -> SlotSet \union {NULL}]
           /\ Placed' = Placed
           /\ LinksOK'
           /\ PlacesOK([D EXCEPT ![p] = D[c], ![c] = D[p]], [X EXCEPT ![p] = X[c], ![c] = X[p]])'
           /\ parent'[p] = c /\ parent'[c] = parent[p]
<1> DEFINE Sw(n) == IF n = p THEN c ELSE IF n = c THEN p ELSE n
           Ren(s) == IF s = RootSlot THEN s ELSE <<Sw(s[1]), s[2]>>
           D2 == [D EXCEPT ![p] = D[c], ![c] = D[p]]
           X2 == [X EXCEPT ![p] = X[c], ![c] = X[p]]
<1>1. /\ p \in Node /\ c \in Node /\ p # c /\ p # NULL /\ c # NULL
      /\ parent[p] # p /\ parent[p] # c
  <2>1. parent[c] # c /\ parent[p] # p /\ D[c] = D[p] + 1
    BY Types, NotOwnParent
  <2>2. D[p] \in Nat /\ D[c] \in Nat
    BY Types, KeyBitsAssumption DEF PlacesOK
  <2>3. parent[p] = c => D[p] = D[c] + 1
    BY Types, NotOwnParent
  <2> QED BY <2>1, <2>2, <2>3, Types
<1>2. PICK so \in Slots : /\ so = selfPtr[p] /\ so # NULL /\ At(so) = p
                          /\ parent[p] = so[1] /\ so \in SlotSet
  BY SlotShape DEF LinksOK, Placed
<1>3. so # RootSlot => so[1] \in Placed \ {p, c}
  BY <1>1, <1>2, SlotShape
<1>4. PICK side \in Side : /\ side = SideOf(child[p], c) /\ selfPtr[c] = <<p, side>>
                           /\ child[p][side] = c /\ 1 - side \in Side /\ 1 - side # side
                           /\ \A i \in Side : i = side \/ i = 1 - side
  BY Children DEF Side
<1>5a. PICK other : other = child[p][1 - side]
  OBVIOUS
<1>5b. PICK kids : kids = child[c]
  OBVIOUS
<1>5. PICK links : /\ SetSlot(so, c, links) /\ links[p] = kids
                   /\ links[c][side] = p /\ links[c][1 - side] = other
                   /\ \A n \in Node : n # p /\ n # c => links[n] = child[n]
  <2>1. SetSlot(so, c, [child EXCEPT ![c] = [i \in Side |-> IF i = side THEN p ELSE other],
                                     ![p] = kids])
    BY <1>2, <1>4, <1>5a, <1>5b DEF SwapParentWithChild
  <2>2. PICK links : links = [child EXCEPT ![c] = [i \in Side |-> IF i = side THEN p ELSE other],
                                           ![p] = kids]
    OBVIOUS
  <2>3. /\ links[p] = kids /\ links[c][side] = p /\ links[c][1 - side] = other
        /\ \A n \in Node : n # p /\ n # c => links[n] = child[n]
    BY <1>1, <1>4, <2>2 DEF TypeOK
  <2> QED BY <2>1, <2>2, <2>3
<1>6. /\ \A m \in Node :
            parent'[m] = IF m = p THEN c ELSE IF m = c THEN parent[p] ELSE IF m = other THEN c
                         ELSE IF ChildOf(kids, m) THEN p ELSE parent[m]
      /\ \A m \in Node :
            selfPtr'[m] = IF m = p THEN <<c, side>> ELSE IF m = c THEN so
                          ELSE IF m = other THEN <<c, 1 - side>>
                          ELSE IF ChildOf(kids, m) THEN <<p, SideOf(kids, m)>> ELSE selfPtr[m]
  BY <1>2, <1>4, <1>5a, <1>5b DEF SwapParentWithChild
<1>7. /\ \A m \in Node : ChildOf(kids, m) <=> m \in Placed /\ parent[m] = c
      /\ \A m \in Placed : parent[m] = c =>
            SideOf(kids, m) \in Side /\ selfPtr[m] = <<c, SideOf(kids, m)>>
      /\ \A m \in Placed : parent[m] = p => m = c \/ m = other
      /\ other # NULL => other \in Placed /\ selfPtr[other] = <<p, 1 - side>> /\ parent[other] = p
      /\ other # c
  <2>1. /\ other # NULL => other \in Placed /\ selfPtr[other] = <<p, 1 - side>> /\ parent[other] = p
    BY <1>4, <1>5a, Children
  <2>2. \A m \in Placed : parent[m] = p => \E i \in Side : child[p][i] = m
    BY Children
  <2>3. <<p, 1 - side>> # <<p, side>>
    BY <1>4
  <2>4. other # c
    BY <1>1, <1>4, <2>1, <2>3
  <2> QED BY <1>4, <1>5a, <1>5b, <2>1, <2>2, <2>4, Children
<1>8. /\ parent'[p] = c /\ parent'[c] = parent[p]
      /\ \A m \in Placed \ {p, c} :
            parent'[m] = IF parent[m] = p THEN c ELSE IF parent[m] = c THEN p ELSE parent[m]
  BY <1>1, <1>6, <1>7, Types
<1>9. ASSUME NEW m \in Placed PROVE selfPtr'[Sw(m)] = Ren(selfPtr[m]) /\ Sw(m) \in Placed
  <2>1. /\ m \in Node /\ selfPtr[m] \in Slots /\ parent[m] = selfPtr[m][1]
    BY Types DEF LinksOK
  <2>2. \A n \in Node, i \in Side : <<n, i>> # RootSlot /\ <<n, i>>[1] = n /\ <<n, i>>[2] = i
    BY SlotShape
  <2>3. CASE m = p
    <3>1. Ren(so) = so
      <4>1. CASE so = RootSlot
        BY <4>1
      <4>2. CASE so # RootSlot
        BY <1>3, <4>2, SlotShape
      <4> QED BY <4>1, <4>2
    <3> QED BY <1>1, <1>2, <1>6, <2>3, <3>1
  <2>4. CASE m = c
    <3>1. Ren(<<p, side>>) = <<c, side>>
      BY <1>1, <2>2
    <3> QED BY <1>1, <1>4, <1>6, <2>4, <3>1
  <2>5. CASE m = other /\ m # p /\ m # c
    <3>1. Ren(<<p, 1 - side>>) = <<c, 1 - side>>
      BY <1>1, <1>4, <2>2
    <3>2. selfPtr[m] = <<p, 1 - side>> /\ selfPtr'[m] = <<c, 1 - side>>
      BY <1>6, <1>7, <2>1, <2>5, Types
    <3> QED BY <2>5, <3>1, <3>2
  <2>6. CASE m # other /\ m # p /\ m # c /\ parent[m] = c
    <3>1. PICK i \in Side : i = SideOf(kids, m) /\ selfPtr[m] = <<c, i>>
      BY <1>7, <2>6
    <3>2. Ren(<<c, i>>) = <<p, i>>
      BY <1>1, <2>2
    <3>3. selfPtr'[m] = <<p, i>>
      BY <1>6, <1>7, <2>1, <2>6, <3>1
    <3> QED BY <2>6, <3>1, <3>2, <3>3
  <2>7. CASE m # other /\ m # p /\ m # c /\ parent[m] # c
    <3>1. parent[m] # p
      BY <1>7, <2>7
    <3>2. Ren(selfPtr[m]) = selfPtr[m]
      BY <2>1, <2>7, <3>1, SlotShape
    <3> QED BY <1>6, <1>7, <2>1, <2>7, <3>2
  <2> QED BY <2>3, <2>4, <2>5, <2>6, <2>7
<1>10. ASSUME NEW s \in Slots PROVE Ren(s) \in Slots /\ Ren(Ren(s)) = s /\ At(Ren(s))' = Sw(At(s))
  <2>1. \A t \in SlotSet :
            At(t)' = IF t = so THEN c ELSE IF t = RootSlot THEN root ELSE links[t[1]][t[2]]
    BY <1>2, <1>5, SlotsSet
  <2>2. CASE s = RootSlot
    <3>1. s \in SlotSet
      BY SlotShape
    <3>2. CASE s = so
      BY <1>2, <2>1, <2>2, <3>1, <3>2
    <3>3. CASE s # so
      <4>1. At(s)' = root /\ At(s) = root
        BY <2>1, <2>2, <3>1, <3>3 DEF At
      <4>2. At(s) # NULL => selfPtr[At(s)] = s
        BY DEF LinksOK
      <4>3. root # p /\ root # c
        BY <1>1, <1>2, <1>4, <2>2, <3>3, <4>1, <4>2, SlotShape
      <4> QED BY <2>2, <4>1, <4>3
    <3> QED BY <2>2, <3>2, <3>3
  <2>3. CASE s # RootSlot
    <3>1. PICK n \in Placed, i \in Side : s = <<n, i>> /\ n \in Node
      BY <2>3, SlotShape, Types
    <3>2. \A m \in Node : <<m, i>> # RootSlot /\ <<m, i>>[1] = m /\ <<m, i>>[2] = i
      BY SlotShape
    <3>3. Sw(n) \in Placed /\ Sw(n) \in Node /\ Sw(Sw(n)) = n
      BY <1>1, <3>1
    <3>4. Ren(s) = <<Sw(n), i>> /\ <<Sw(n), i>> \in Slots /\ <<Sw(n), i>> \in SlotSet
      BY <2>3, <3>1, <3>3 DEF Slots, SlotSet
    <3>5. Ren(Ren(s)) = s
      BY <3>1, <3>2, <3>3, <3>4
    <3>6. At(s) = child[n][i]
      BY <3>1, <3>2 DEF At
    <3>7. CASE n = p
      <4>1. Ren(s) = <<c, i>> /\ <<c, i>> # so
        BY <1>1, <1>3, <3>2, <3>4, <3>7
      <4>2. At(Ren(s))' = links[c][i]
        BY <1>1, <2>1, <3>2, <3>4, <4>1
      <4>3. CASE i = side
        BY <1>1, <1>4, <1>5, <3>4, <3>5, <3>6, <3>7, <4>2, <4>3
      <4>4. CASE i # side
        <5>1. other # p
          BY <1>1, <1>7
        <5>2. At(Ren(s))' = other /\ At(s) = other
          BY <1>4, <1>5, <1>5a, <3>6, <3>7, <4>2, <4>4
        <5> QED BY <1>7, <3>4, <3>5, <5>1, <5>2
      <4> QED BY <3>4, <3>5, <4>3, <4>4
    <3>8. CASE n = c
      <4>1. Ren(s) = <<p, i>> /\ <<p, i>> # so
        BY <1>1, <1>3, <3>2, <3>4, <3>8
      <4>2. At(Ren(s))' = child[c][i]
        BY <1>1, <1>5, <1>5b, <2>1, <3>2, <3>4, <4>1
      <4>3. child[c][i] # p /\ child[c][i] # c
        BY <1>1, Children
      <4> QED BY <3>4, <3>5, <3>6, <3>8, <4>2, <4>3
    <3>9. CASE n # p /\ n # c
      <4>1. Ren(s) = s
        BY <3>1, <3>4, <3>9
      <4>2. CASE s = so
        BY <1>2, <2>1, <3>4, <4>1, <4>2
      <4>3. CASE s # so
        <5>1. At(s)' = child[n][i]
          BY <1>5, <2>1, <3>1, <3>2, <3>4, <3>9, <4>1, <4>3
        <5>2. child[n][i] # NULL => selfPtr[child[n][i]] = <<n, i>>
          BY <3>1, Children
        <5>3. child[n][i] # c
          BY <1>1, <1>4, <3>9, <5>2
        <5>4. child[n][i] # p
          BY <1>1, <1>2, <3>1, <4>3, <5>2
        <5> QED BY <3>4, <3>6, <4>1, <5>1, <5>3, <5>4
      <4> QED BY <3>4, <3>5, <4>2, <4>3
    <3> QED BY <3>7, <3>8, <3>9
  <2> QED BY <2>2, <2>3
<1>11. Placed' = Placed
  <2>1. Placed' = {m \in linked : selfPtr'[m] # NULL}
    BY DEF Placed
  <2>2. ASSUME NEW m \in Placed PROVE selfPtr'[m] # NULL
    <3>1. Sw(m) \in Placed /\ m = Sw(Sw(m))
      BY <1>1
    <3>2. PICK n \in Placed : n = Sw(m) /\ m = Sw(n)
      BY <3>1
    <3>3. selfPtr[n] \in Slots
      BY DEF LinksOK
    <3>4. selfPtr'[Sw(n)] = Ren(selfPtr[n]) /\ Ren(selfPtr[n]) \in Slots
      BY <1>9, <1>10, <3>3
    <3>5. PICK t : t = Ren(selfPtr[n]) /\ t \in SlotSet
      BY <3>4, SlotShape
    <3> QED BY <3>2, <3>4, <3>5, NoSlot
  <2>3. ASSUME NEW m \in linked, m \notin Placed PROVE selfPtr'[m] = NULL
    <3>1. m \in Node /\ m # p /\ m # c /\ m # other /\ ~ChildOf(kids, m)
      BY <1>7, <2>3, Types
    <3> QED BY <1>6, <2>3, <3>1 DEF Placed
  <2> QED BY <2>1, <2>2, <2>3 DEF Placed
<1>12. Slots' = Slots
  BY <1>11 DEF Slots, RootSlot
<1>13. /\ root' \in Node \union {NULL}
       /\ child' \in [Node -> [Side -> Node \union {NULL}]]
       /\ parent' \in [Node -> Node \union {NULL}]
       /\ selfPtr' \in [Node -> SlotSet \union {NULL}]
  <2>1. \A n \in Node, i \in Side : links[n][i] \in Node \union {NULL}
    <3>1. \A n \in Node, i \in Side : child[n][i] \in Node \union {NULL}
      BY Types
    <3>2. other \in Node \union {NULL}
      BY <1>1, <1>4, <1>5a, <3>1
    <3>3. \A i \in Side : links[c][i] \in Node \union {NULL}
      BY <1>1, <1>4, <1>5, <3>2
    <3> QED BY <1>1, <1>5, <1>5b, <3>1, <3>3
  <2>2. root' \in Node \union {NULL} /\ child' \in [Node -> [Side -> Node \union {NULL}]]
    BY <1>1, <1>5, <2>1 DEF SetSlot, TypeOK
  <2>3. /\ parent' = [m \in Node |-> parent'[m]] /\ selfPtr' = [m \in Node |-> selfPtr'[m]]
    BY DEF SwapParentWithChild
  <2>4. ASSUME NEW m \in Node
        PROVE  parent'[m] \in Node \union {NULL} /\ selfPtr'[m] \in SlotSet \union {NULL}
    <3>1. /\ parent[m] \in Node \union {NULL} /\ selfPtr[m] \in SlotSet \union {NULL}
          /\ parent[p] \in Node \union {NULL}
      BY <1>1, Types
    <3>2. ChildOf(kids, m) => <<p, SideOf(kids, m)>> \in SlotSet
      BY <1>1, <1>7 DEF SlotSet
    <3>3. <<c, side>> \in SlotSet /\ <<c, 1 - side>> \in SlotSet
      BY <1>1, <1>4 DEF SlotSet
    <3> QED BY <1>1, <1>2, <1>6, <3>1, <3>2, <3>3
  <2>5. \A m \in Node : parent'[m] \in Node \union {NULL} /\ selfPtr'[m] \in SlotSet \union {NULL}
    BY <2>4
  <2>6. parent' \in [Node -> Node \union {NULL}] /\ selfPtr' \in [Node -> SlotSet \union {NULL}]
    BY <2>3, <2>5
  <2> QED BY <2>2, <2>6
<1>14. ASSUME NEW n \in Placed
       PROVE  \E m \in Placed, s \in Slots :
                  /\ n = Sw(m) /\ m = Sw(n) /\ s = selfPtr[m] /\ At(s) = m
                  /\ selfPtr'[n] = Ren(s) /\ parent'[n] = Ren(s)[1]
  <2>1. Sw(n) \in Placed /\ n = Sw(Sw(n))
    BY <1>1
  <2>2. PICK m \in Placed : m = Sw(n) /\ n = Sw(m)
    BY <2>1
  <2>3. PICK s \in Slots : s = selfPtr[m] /\ At(s) = m /\ parent[m] = s[1]
    BY DEF LinksOK
  <2>4. selfPtr'[n] = Ren(s)
    BY <1>9, <2>2, <2>3
  <2>5. Ren(s)[1] = IF s = RootSlot THEN NULL ELSE Sw(parent[m])
    BY <2>3, SlotShape
  <2>6. parent'[n] = IF s = RootSlot THEN NULL ELSE Sw(parent[m])
    <3>1. s = RootSlot <=> parent[m] = NULL
      BY <2>3, SlotShape
    <3>2. CASE m = p
      BY <1>1, <1>8, <2>2, <3>1, <3>2
    <3>3. CASE m = c
      BY <1>1, <1>8, <2>2, <3>1, <3>3
    <3>4. CASE m # p /\ m # c
      BY <1>1, <1>8, <2>2, <3>1, <3>4
    <3> QED BY <3>2, <3>3, <3>4
  <2> QED BY <2>2, <2>3, <2>4, <2>5, <2>6
<1>15. LinksOK'
  <2>1. ASSUME NEW n \in Placed
        PROVE  \E s \in Slots : s = selfPtr'[n] /\ At(s)' = n /\ parent'[n] = s[1]
    <3>1. PICK m \in Placed, s \in Slots :
              /\ n = Sw(m) /\ s = selfPtr[m] /\ At(s) = m
              /\ selfPtr'[n] = Ren(s) /\ parent'[n] = Ren(s)[1]
      BY <1>14, ZenonT(40)
    <3>2. PICK t : t = Ren(s)
      OBVIOUS
    <3>3. t \in Slots /\ At(t)' = Sw(m)
      BY <1>10, <3>1, <3>2
    <3> QED BY <3>1, <3>2, <3>3
  <2>2. ASSUME NEW s \in Slots, At(s)' # NULL
        PROVE  At(s)' \in Placed /\ selfPtr'[At(s)'] = s
    <3>1. PICK t \in Slots : t = Ren(s) /\ s = Ren(t)
      BY <1>10
    <3>2. At(s)' = Sw(At(t))
      <4>1. At(Ren(t))' = Sw(At(t))
        BY <1>10
      <4> QED BY <3>1, <4>1
    <3>3. At(t) # NULL
      BY <1>1, <2>2, <3>2
    <3>4. PICK m \in Placed : m = At(t) /\ selfPtr[m] = t
      BY <3>3 DEF LinksOK
    <3>5. selfPtr'[Sw(m)] = Ren(selfPtr[m]) /\ Sw(m) \in Placed
      BY <1>9
    <3>6. At(s)' = Sw(m)
      BY <3>2, <3>4
    <3>7. selfPtr'[Sw(m)] = s
      BY <3>1, <3>4, <3>5
    <3> QED BY <3>5, <3>6, <3>7
  <2>3. ASSUME NEW n \in linked \ Placed PROVE Unlinked(n)'
    <3>1. n \in Node /\ n # p /\ n # c /\ n # other /\ ~ChildOf(kids, n) /\ Unlinked(n)
      BY <1>7, Types DEF LinksOK
    <3>2. ASSUME NEW i \in Side PROVE <<n, i>> # so
      <4>1. <<n, i>> # RootSlot /\ <<n, i>>[1] = n
        BY <3>1, NodeAssumption DEF RootSlot
      <4> QED BY <1>3, <4>1
    <3>3. child'[n] = [i \in Side |-> child[n][i]]
      BY <1>5, <3>1, <3>2 DEF SetSlot
    <3>4. child'[n] = NoChild
      BY <3>1, <3>3 DEF Unlinked, NoChild
    <3> QED BY <1>6, <3>1, <3>4 DEF Unlinked, NoChild
  <2>4. \A n \in Placed :
            /\ selfPtr'[n] \in Slots /\ parent'[n] = selfPtr'[n][1]
            /\ (IF selfPtr'[n] = RootSlot THEN root'
                ELSE child'[selfPtr'[n][1]][selfPtr'[n][2]]) = n
    BY <2>1 DEF At
  <2> QED BY <1>11, <1>12, <2>2, <2>3, <2>4 DEF LinksOK, At
<1>16. PlacesOK(D2, X2)'
  <2>1. /\ D \in [Node -> 0..KeyBits] /\ X \in [Node -> Nat]
        /\ \A n \in Placed : D[n] = DepthOf(selfPtr[n], D) /\ X[n] = PathOf(selfPtr[n], X)
        /\ \A n, m \in Placed : D[n] = D[m] /\ X[n] = X[m] => n = m
    BY DEF PlacesOK
  <2>2. /\ D2 \in [Node -> 0..KeyBits] /\ X2 \in [Node -> Nat]
        /\ \A n \in Placed : D2[n] = D[Sw(n)] /\ X2[n] = X[Sw(n)]
    <3>1. /\ D2[p] = D[c] /\ D2[c] = D[p] /\ X2[p] = X[c] /\ X2[c] = X[p]
          /\ \A n \in Node : n # p /\ n # c => D2[n] = D[n] /\ X2[n] = X[n]
      BY <1>1, <2>1
    <3>2. D2 \in [Node -> 0..KeyBits] /\ X2 \in [Node -> Nat]
      BY <1>1, <2>1
    <3> HIDE DEF D2, X2
    <3> QED BY <1>1, <3>1, <3>2, Types
  <2> HIDE DEF D2, X2
  <2>3. ASSUME NEW s \in Slots
        PROVE  DepthOf(Ren(s), D2) = DepthOf(s, D) /\ PathOf(Ren(s), X2) = PathOf(s, X)
    <3>1. CASE s = RootSlot
      BY <3>1 DEF DepthOf, PathOf
    <3>2. CASE s # RootSlot
      <4>1. PICK n \in Placed, i \in Side : s = <<n, i>>
        BY <3>2, SlotShape
      <4>2. PICK m \in Placed : m = Sw(n) /\ n = Sw(m) /\ m \in Node
        BY <1>1, Types
      <4>3. <<m, i>> # RootSlot /\ Ren(s) = <<m, i>>
        BY <3>2, <4>1, <4>2, SlotShape
      <4>4. D2[m] = D[n] /\ X2[m] = X[n]
        BY <2>2, <4>2
      <4> QED BY <3>2, <4>1, <4>3, <4>4 DEF DepthOf, PathOf
    <3> QED BY <3>1, <3>2
  <2>4. ASSUME NEW n \in Placed
        PROVE  D2[n] = DepthOf(selfPtr'[n], D2) /\ X2[n] = PathOf(selfPtr'[n], X2)
    <3>1. PICK m \in Placed, s \in Slots : m = Sw(n) /\ s = selfPtr[m] /\ selfPtr'[n] = Ren(s)
      BY <1>14, ZenonT(40)
    <3>2. D2[n] = D[m] /\ X2[n] = X[m]
      BY <2>2, <3>1
    <3> HIDE DEF Ren
    <3> QED BY <2>1, <2>3, <3>1, <3>2
  <2>5. ASSUME NEW n \in Placed, NEW m \in Placed, D2[n] = D2[m], X2[n] = X2[m] PROVE n = m
    <3>1. Sw(n) \in Placed /\ Sw(m) \in Placed /\ n = Sw(Sw(n)) /\ m = Sw(Sw(m))
      BY <1>1
    <3>2. Sw(n) = Sw(m)
      BY <2>1, <2>2, <2>5, <3>1
    <3> QED BY <3>1, <3>2
  <2> QED BY <1>11, <2>2, <2>4, <2>5 DEF PlacesOK
<1> QED BY <1>8, <1>11, <1>13, <1>15, <1>16

\* A node hung in an empty slot.
LEMMA HungIn ==
    ASSUME NEW D, NEW X, TypeOK, LinksOK, PlacesOK(D, X),
           NEW n \in linked \ Placed, NEW s \in Slots, At(s) = NULL, DepthOf(s, D) \in 0..KeyBits,
           SetSlot(s, n, child), selfPtr' = [selfPtr EXCEPT ![n] = s],
           parent' = [parent EXCEPT ![n] = s[1]], linked' = linked
    PROVE  /\ root' \in Node \union {NULL}
           /\ child' \in [Node -> [Side -> Node \union {NULL}]]
           /\ parent' \in [Node -> Node \union {NULL}]
           /\ selfPtr' \in [Node -> SlotSet \union {NULL}]
           /\ Placed' = Placed \union {n}
           /\ LinksOK'
           /\ PlacesOK([D EXCEPT ![n] = DepthOf(s, D)], [X EXCEPT ![n] = PathOf(s, X)])'
<1> DEFINE D2 == [D EXCEPT ![n] = DepthOf(s, D)]
           X2 == [X EXCEPT ![n] = PathOf(s, X)]
<1>1. /\ n \in Node /\ n # NULL /\ Unlinked(n) /\ s \in SlotSet
      /\ s # RootSlot => s[1] \in Placed /\ s[2] \in Side /\ s[1] \in Node /\ s[1] # n
      /\ s = RootSlot => s[1] = NULL
  BY Types, SlotShape DEF LinksOK
<1>2. s # NULL
  BY <1>1, NoSlot
<1>3. /\ \A m \in Node : m # n => selfPtr'[m] = selfPtr[m] /\ parent'[m] = parent[m]
      /\ selfPtr'[n] = s /\ parent'[n] = s[1]
  BY <1>1 DEF TypeOK
<1>4. \A t \in SlotSet : At(t)' = IF t = s THEN n ELSE At(t)
  BY <1>1, SlotsSet DEF At
<1>5. Placed' = Placed \union {n}
  BY <1>1, <1>2, <1>3, Types DEF Placed
<1>6. Slots' = Slots \union ({n} \X Side)
  BY <1>5 DEF Slots, RootSlot
<1>7. /\ root' \in Node \union {NULL}
      /\ child' \in [Node -> [Side -> Node \union {NULL}]]
      /\ parent' \in [Node -> Node \union {NULL}]
      /\ selfPtr' \in [Node -> SlotSet \union {NULL}]
  BY <1>1 DEF SetSlot, TypeOK
<1>8. \A i \in Side : <<n, i>> # RootSlot /\ <<n, i>> \in SlotSet /\ <<n, i>> # s /\ At(<<n, i>>) = NULL
  <2>1. \A i \in Side : <<n, i>> # RootSlot /\ <<n, i>>[1] = n /\ <<n, i>>[2] = i
    BY <1>1, SlotShape
  <2>2. \A i \in Side : At(<<n, i>>) = NULL
    BY <1>1, <2>1 DEF At, Unlinked, NoChild
  <2> QED BY <1>1, <2>1, <2>2 DEF SlotSet
<1>9. LinksOK'
  <2>1. ASSUME NEW m \in Placed'
        PROVE  \E t \in Slots' : t = selfPtr'[m] /\ At(t)' = m /\ parent'[m] = t[1]
    <3>1. CASE m = n
      BY <1>1, <1>3, <1>4, <1>6, <3>1
    <3>2. CASE m # n
      <4>1. m \in Placed /\ m \in Node /\ m # NULL
        BY <1>5, <3>2, Types
      <4>2. PICK t \in Slots : t = selfPtr[m] /\ At(t) = m /\ parent[m] = t[1]
        BY <4>1 DEF LinksOK
      <4>3. At(t)' = m
        BY <1>4, <4>1, <4>2, SlotShape
      <4> QED BY <1>3, <1>6, <3>2, <4>1, <4>2, <4>3
    <3> QED BY <3>1, <3>2
  <2>2. ASSUME NEW t \in Slots', At(t)' # NULL
        PROVE  At(t)' \in Placed' /\ selfPtr'[At(t)'] = t
    <3>1. CASE t = s
      BY <1>1, <1>3, <1>4, <1>5, <3>1
    <3>2. CASE t # s
      <4>1. t \in Slots \/ \E i \in Side : t = <<n, i>>
        BY <1>6
      <4>2. t \in SlotSet /\ At(t)' = At(t) /\ t \in Slots
        BY <1>4, <1>8, <2>2, <3>2, <4>1, SlotShape
      <4>3. PICK m : m = At(t) /\ m \in Placed /\ selfPtr[m] = t
        BY <2>2, <4>2 DEF LinksOK
      <4> QED BY <1>3, <1>5, <4>2, <4>3, Types
    <3> QED BY <3>1, <3>2
  <2>3. ASSUME NEW m \in linked' \ Placed' PROVE Unlinked(m)'
    <3>1. m \in Node /\ m # n /\ m \in linked \ Placed /\ Unlinked(m)
      BY <1>5, Types DEF LinksOK
    <3>2. \A i \in Side : <<m, i>> # s
      <4>1. \A i \in Side : <<m, i>> # RootSlot /\ <<m, i>>[1] = m
        BY <3>1, SlotShape
      <4> QED BY <1>1, <3>1, <4>1
    <3>3. child'[m] = [i \in Side |-> child[m][i]]
      BY <3>1, <3>2 DEF SetSlot
    <3>4. child'[m] = NoChild
      BY <3>1, <3>3 DEF Unlinked, NoChild
    <3> QED BY <1>3, <3>1, <3>4 DEF Unlinked, NoChild
  <2>4. \A m \in Placed' :
            /\ selfPtr'[m] \in Slots' /\ parent'[m] = selfPtr'[m][1]
            /\ (IF selfPtr'[m] = RootSlot THEN root'
                ELSE child'[selfPtr'[m][1]][selfPtr'[m][2]]) = m
    BY <2>1 DEF At
  <2> QED BY <2>2, <2>3, <2>4 DEF LinksOK, At
<1>10. PlacesOK(D2, X2)'
  <2>1. /\ D \in [Node -> 0..KeyBits] /\ X \in [Node -> Nat]
        /\ \A m \in Placed : D[m] = DepthOf(selfPtr[m], D) /\ X[m] = PathOf(selfPtr[m], X)
        /\ \A m, q \in Placed : D[m] = D[q] /\ X[m] = X[q] => m = q
    BY DEF PlacesOK
  <2>2. PathOf(s, X) \in Nat
    BY <1>1, <2>1 DEF PathOf, Side
  <2>3. /\ D2 \in [Node -> 0..KeyBits] /\ X2 \in [Node -> Nat]
        /\ D2[n] = DepthOf(s, D) /\ X2[n] = PathOf(s, X)
        /\ \A m \in Node : m # n => D2[m] = D[m] /\ X2[m] = X[m]
    BY <1>1, <2>1, <2>2
  <2> HIDE DEF D2, X2
  <2>4. ASSUME NEW t \in Slots PROVE DepthOf(t, D2) = DepthOf(t, D) /\ PathOf(t, X2) = PathOf(t, X)
    <3>1. CASE t = RootSlot
      BY <3>1 DEF DepthOf, PathOf
    <3>2. CASE t # RootSlot
      <4>1. t[1] \in Placed /\ t[1] \in Node /\ t[1] # n
        BY <3>2, SlotShape, Types
      <4> QED BY <2>3, <4>1 DEF DepthOf, PathOf
    <3> QED BY <3>1, <3>2
  <2>5. ASSUME NEW m \in Placed'
        PROVE  D2[m] = DepthOf(selfPtr'[m], D2) /\ X2[m] = PathOf(selfPtr'[m], X2)
    <3>1. CASE m = n
      BY <1>3, <2>3, <2>4, <3>1
    <3>2. CASE m # n
      <4>1. m \in Placed /\ m \in Node
        BY <1>5, <3>2, Types
      <4>2. selfPtr[m] \in Slots
        BY <4>1 DEF LinksOK
      <4> QED BY <1>3, <2>1, <2>3, <2>4, <3>2, <4>1, <4>2
    <3> QED BY <3>1, <3>2
  <2>6. ASSUME NEW q \in Placed PROVE ~(D[q] = DepthOf(s, D) /\ X[q] = PathOf(s, X))
    BY FoundAt, Types
  <2>7. ASSUME NEW m \in Placed', NEW q \in Placed', D2[m] = D2[q], X2[m] = X2[q] PROVE m = q
    <3>1. /\ m = n \/ (m \in Placed /\ m \in Node /\ m # n)
          /\ q = n \/ (q \in Placed /\ q \in Node /\ q # n)
      BY <1>5, Types
    <3> QED BY <2>1, <2>3, <2>6, <2>7, <3>1
  <2> QED BY <2>3, <2>5, <2>7 DEF PlacesOK
<1> QED BY <1>5, <1>7, <1>9, <1>10

\* A leaf cut off.
LEMMA CutOff ==
    ASSUME NEW D, NEW X, TypeOK, LinksOK, PlacesOK(D, X),
           NEW n \in Placed, \A i \in Side : child[n][i] = NULL,
           SetSlot(selfPtr[n], NULL, child), UNCHANGED <<parent, selfPtr>>, linked' = linked \ {n}
    PROVE  /\ root' \in Node \union {NULL}
           /\ child' \in [Node -> [Side -> Node \union {NULL}]]
           /\ Placed' = Placed \ {n}
           /\ LinksOK'
           /\ PlacesOK(D, X)'
<1>1. PICK s \in Slots : s = selfPtr[n] /\ s \in SlotSet /\ At(s) = n
  BY SlotShape DEF LinksOK
<1>2. Placed' = Placed \ {n}
  BY DEF Placed
<1>3. Slots' = {RootSlot} \union ((Placed \ {n}) \X Side)
  BY <1>2 DEF Slots, RootSlot
<1>4. \A t \in SlotSet : At(t)' = IF t = s THEN NULL ELSE At(t)
  BY <1>1, SlotsSet DEF At
<1>5. \A m \in Placed : parent[m] # n
  BY Children, Types
<1>6. s # RootSlot => s[1] \in Placed /\ s[1] # n
  <2>1. parent[n] = s[1]
    BY <1>1 DEF LinksOK
  <2> QED BY <1>5, <2>1, SlotShape
<1>7. LinksOK'
  <2>1. ASSUME NEW m \in Placed'
        PROVE  \E t \in Slots' : t = selfPtr[m] /\ At(t)' = m /\ parent[m] = t[1]
    <3>1. m \in Placed /\ m # n /\ m \in Node /\ m # NULL
      BY <1>2, Types
    <3>2. PICK t \in Slots : t = selfPtr[m] /\ At(t) = m /\ parent[m] = t[1]
      BY <3>1 DEF LinksOK
    <3>3. t \in Slots' /\ t \in SlotSet
      <4>1. t = RootSlot \/ (\E q \in Placed, i \in Side : t = <<q, i>> /\ q = parent[m])
        BY <3>2, SlotShape
      <4> QED BY <1>3, <1>5, <3>1, <4>1, SlotShape
    <3>4. t # s
      BY <1>1, <3>1, <3>2
    <3> QED BY <1>4, <3>2, <3>3, <3>4
  <2>2. ASSUME NEW t \in Slots', At(t)' # NULL
        PROVE  At(t)' \in Placed' /\ selfPtr[At(t)'] = t
    <3>1. t \in Slots /\ t \in SlotSet
      BY <1>3, SlotShape DEF Slots
    <3>2. t # s /\ At(t)' = At(t)
      BY <1>4, <2>2, <3>1
    <3>3. PICK m : m = At(t) /\ m \in Placed /\ selfPtr[m] = t
      BY <2>2, <3>1, <3>2 DEF LinksOK
    <3> QED BY <1>1, <1>2, <3>2, <3>3
  <2>3. ASSUME NEW m \in linked' \ Placed' PROVE Unlinked(m)'
    <3>1. m \in Node /\ m # n /\ m \in linked \ Placed /\ Unlinked(m)
      BY <1>2, Types DEF LinksOK
    <3>2. ASSUME NEW i \in Side PROVE <<m, i>> # s
      <4>1. <<m, i>> # RootSlot /\ <<m, i>>[1] = m
        BY <3>1, SlotShape
      <4> QED BY <1>6, <3>1, <4>1
    <3>3. child'[m] = [i \in Side |-> child[m][i]]
      BY <1>1, <3>1, <3>2 DEF SetSlot
    <3>4. child'[m] = NoChild
      BY <3>1, <3>3 DEF Unlinked, NoChild
    <3> QED BY <3>1, <3>4 DEF Unlinked, NoChild
  <2>4. \A m \in Placed' :
            /\ selfPtr[m] \in Slots' /\ parent[m] = selfPtr[m][1]
            /\ (IF selfPtr[m] = RootSlot THEN root'
                ELSE child'[selfPtr[m][1]][selfPtr[m][2]]) = m
    BY <2>1 DEF At
  <2> QED BY <2>2, <2>3, <2>4 DEF LinksOK, At
<1>8. root' \in Node \union {NULL} /\ child' \in [Node -> [Side -> Node \union {NULL}]]
  BY DEF SetSlot, TypeOK
<1>9. PlacesOK(D, X)'
  BY <1>2 DEF PlacesOK
<1> QED BY <1>2, <1>7, <1>8, <1>9

\* Nodes outside the trie come and go without touching it.
LEMMA Untouched ==
    ASSUME NEW D, NEW X, TypeOK, LinksOK, PlacesOK(D, X), UNCHANGED root,
           NEW n \in Node \ Placed,
           \A m \in Node : m # n => child'[m] = child[m] /\ parent'[m] = parent[m]
                                    /\ selfPtr'[m] = selfPtr[m],
           linked' = linked \/ linked' = linked \ {n} \/ linked' = linked \union {n},
           n \in linked' => Unlinked(n)'
    PROVE  /\ Placed' = Placed /\ LinksOK' /\ PlacesOK(D, X)'
           /\ \A s \in Slots : At(s)' = At(s)
<1>1. Placed' = Placed
  BY Types DEF Placed, Unlinked
<1>2. Slots' = Slots
  BY <1>1 DEF Slots, RootSlot
<1>3. \A s \in Slots : At(s)' = At(s)
  <2>1. \A s \in Slots : s # RootSlot => s[1] \in Node /\ s[1] # n
    BY SlotShape, Types
  <2> QED BY <2>1 DEF At
<1>4. \A m \in Placed : m \in Node /\ m # n /\ selfPtr'[m] = selfPtr[m] /\ parent'[m] = parent[m]
  BY Types
<1>5. LinksOK'
  <2>1. ASSUME NEW m \in Placed
        PROVE  \E t \in Slots : t = selfPtr'[m] /\ At(t)' = m /\ parent'[m] = t[1]
    BY <1>3, <1>4 DEF LinksOK
  <2>2. ASSUME NEW s \in Slots, At(s)' # NULL PROVE At(s)' \in Placed /\ selfPtr'[At(s)'] = s
    BY <1>3, <1>4, <2>2 DEF LinksOK
  <2>3. ASSUME NEW m \in linked' \ Placed PROVE Unlinked(m)'
    <3>1. CASE m = n
      BY <2>3, <3>1
    <3>2. CASE m # n
      <4>1. m \in linked \ Placed /\ m \in Node /\ Unlinked(m)
        BY <2>3, <3>2, Types DEF LinksOK
      <4> QED BY <3>2, <4>1 DEF Unlinked, NoChild
    <3> QED BY <3>1, <3>2
  <2>4. \A m \in Placed :
            /\ selfPtr'[m] \in Slots /\ parent'[m] = selfPtr'[m][1]
            /\ (IF selfPtr'[m] = RootSlot THEN root'
                ELSE child'[selfPtr'[m][1]][selfPtr'[m][2]]) = m
    BY <2>1 DEF At
  <2> QED BY <1>1, <1>2, <2>2, <2>3, <2>4 DEF LinksOK, At
<1>6. PlacesOK(D, X)'
  BY <1>1, <1>4 DEF PlacesOK
<1> QED BY <1>1, <1>3, <1>5, <1>6

-----------------------------------------------------------------------------
(* The rings.                                                               *)

\* A node that leaves its ring, if it was the head for the next, leaves a ring.
LEMMA LeftRing ==
    ASSUME NEW R, TypeOK, RingsOK(R), NEW n \in linked, next[n] # n, LeaveRing(n),
           linked' = linked \ {n}, UNCHANGED key, pc' = "idle",
           Heads \ {n} \subseteq Heads', n \in Heads => next[n] \in Heads',
           \A a, b \in Heads' : key[a] = key[b] => a = b
    PROVE  /\ next' \in [Node -> Node \union {NULL}] /\ prev' \in [Node -> Node \union {NULL}]
           /\ RingsOK(R)'
<1>1. /\ n \in Node /\ linked \subseteq Node /\ n # NULL
      /\ next \in [Node -> Node \union {NULL}] /\ prev \in [Node -> Node \union {NULL}]
      /\ R \in [Node -> Nat]
  BY Types DEF TypeOK, RingsOK
<1>2. \A m \in linked : /\ next[m] \in linked /\ prev[m] \in linked
                        /\ prev[next[m]] = m /\ next[prev[m]] = m
                        /\ key[next[m]] = key[m]
                        /\ next[m] \in Heads \/ R[m] < R[next[m]]
  BY DEF RingsOK
<1>3. PICK before, after : /\ before = prev[n] /\ after = next[n]
                           /\ before \in linked \ {n} /\ after \in linked \ {n}
  <2>1. prev[n] # n
    BY <1>2
  <2> QED BY <1>2, <2>1
<1>4. /\ next' = [next EXCEPT ![before] = after] /\ prev' = [prev EXCEPT ![after] = before]
  BY <1>3 DEF LeaveRing
<1>5. next' \in [Node -> Node \union {NULL}] /\ prev' \in [Node -> Node \union {NULL}]
  BY <1>1, <1>3, <1>4
<1>6. /\ \A m \in linked \ {n} : next'[m] = IF m = before THEN after ELSE next[m]
      /\ \A m \in linked \ {n} : prev'[m] = IF m = after THEN before ELSE prev[m]
  BY <1>1, <1>4
<1>7. ASSUME NEW m \in linked \ {n}
      PROVE  /\ next'[m] \in linked \ {n} /\ prev'[m] \in linked \ {n}
             /\ prev'[next'[m]] = m /\ next'[prev'[m]] = m
             /\ key[next'[m]] = key[m]
             /\ next'[m] \in Heads' \/ R[m] < R[next'[m]]
  <2>1. CASE m = before
    <3>1. next'[m] = after /\ prev'[after] = m
      BY <1>3, <1>6, <2>1
    <3>2. key[after] = key[m]
      BY <1>2, <1>3, <2>1
    <3>3. after \in Heads' \/ R[m] < R[after]
      <4>1. n \notin Heads => R[m] < R[n]
        BY <1>2, <1>3, <2>1
      <4>2. R[m] \in Nat /\ R[n] \in Nat /\ R[after] \in Nat
        BY <1>1, <1>3
      <4>3. after \in Heads \/ R[n] < R[after]
        BY <1>2, <1>3
      <4> QED BY <1>3, <4>1, <4>2, <4>3
    <3>4. prev'[m] \in linked \ {n} /\ next'[prev'[m]] = m
      <4>1. CASE m = after
        BY <1>3, <1>6, <2>1, <4>1
      <4>2. CASE m # after
        <5>1. prev'[m] = prev[m] /\ prev[m] \in linked /\ prev[m] # n
          BY <1>2, <1>3, <1>6, <4>2
        <5>2. prev[m] # before
          BY <1>2, <1>3, <2>1, <5>1
        <5> QED BY <1>2, <1>6, <5>1, <5>2
      <4> QED BY <4>1, <4>2
    <3> QED BY <1>3, <3>1, <3>2, <3>3, <3>4
  <2>2. CASE m # before
    <3>1. next'[m] = next[m] /\ next[m] \in linked \ {n}
      BY <1>2, <1>3, <1>6, <2>2
    <3>2. next[m] # after
      BY <1>2, <1>3, <3>1
    <3>3. prev'[next'[m]] = m
      BY <1>2, <1>6, <3>1, <3>2
    <3>4. prev'[m] \in linked \ {n} /\ next'[prev'[m]] = m
      <4>1. CASE m = after
        BY <1>3, <1>6, <4>1
      <4>2. CASE m # after
        <5>1. prev'[m] = prev[m] /\ prev[m] \in linked /\ prev[m] # n
          BY <1>2, <1>3, <1>6, <4>2
        <5>2. prev[m] # before
          BY <1>2, <1>3, <5>1
        <5> QED BY <1>2, <1>6, <5>1, <5>2
      <4> QED BY <4>1, <4>2
    <3> QED BY <1>2, <3>1, <3>3, <3>4
  <2> QED BY <2>1, <2>2
<1>8. RingsOK(R)'
  BY <1>1, <1>7 DEF RingsOK
<1> QED BY <1>5, <1>8

\* A node alone that joins a ring as the last.
LEMMA JoinedRing ==
    ASSUME NEW R, TypeOK, RingsOK(R), NEW n \in linked, next[n] = n, NEW head \in linked,
           NEW last, last = prev[head],
           n # head, key[head] = key[n], JoinRing(n, head),
           UNCHANGED <<key, linked>>, pc' = "idle",
           Heads \ {n} \subseteq Heads', head \in Heads',
           \A a, b \in Heads' : key[a] = key[b] => a = b
    PROVE  /\ next' \in [Node -> Node \union {NULL}] /\ prev' \in [Node -> Node \union {NULL}]
           /\ RingsOK([R EXCEPT ![n] = R[last] + 1])'
<1> DEFINE R2 == [R EXCEPT ![n] = R[last] + 1]
<1>1. /\ n \in Node /\ head \in Node /\ linked \subseteq Node
      /\ next \in [Node -> Node \union {NULL}] /\ prev \in [Node -> Node \union {NULL}]
      /\ R \in [Node -> Nat]
  BY Types DEF TypeOK, RingsOK
<1>2. \A m \in linked : /\ next[m] \in linked /\ prev[m] \in linked
                        /\ prev[next[m]] = m /\ next[prev[m]] = m
                        /\ key[next[m]] = key[m]
                        /\ next[m] \in Heads \/ R[m] < R[next[m]]
  BY DEF RingsOK
<1>3. last = prev[head] /\ last \in linked /\ last # n /\ next[last] = head
  BY <1>2
<1>4. /\ next' = [next EXCEPT ![last] = n, ![n] = head]
      /\ prev' = [prev EXCEPT ![n] = last, ![head] = n]
  BY <1>3 DEF JoinRing
<1>5. next' \in [Node -> Node \union {NULL}] /\ prev' \in [Node -> Node \union {NULL}]
  BY <1>1, <1>3, <1>4
<1>6. /\ \A m \in linked : next'[m] = IF m = n THEN head ELSE IF m = last THEN n ELSE next[m]
      /\ \A m \in linked : prev'[m] = IF m = head THEN n ELSE IF m = n THEN last ELSE prev[m]
  BY <1>1, <1>3, <1>4
<1>7. R2 \in [Node -> Nat] /\ R2[n] = R[last] + 1 /\ \A m \in Node : m # n => R2[m] = R[m]
  BY <1>1, <1>3
<1> HIDE DEF R2
<1>8. ASSUME NEW m \in linked
      PROVE  /\ next'[m] \in linked /\ prev'[m] \in linked
             /\ prev'[next'[m]] = m /\ next'[prev'[m]] = m
             /\ key[next'[m]] = key[m]
             /\ next'[m] \in Heads' \/ R2[m] < R2[next'[m]]
  <2>1. CASE m = n
    <3>1. next'[m] = head /\ prev'[head] = m /\ prev'[m] = last /\ next'[last] = m
      BY <1>3, <1>6, <2>1
    <3> QED BY <1>3, <2>1, <3>1
  <2>2. CASE m = last
    <3>1. next'[m] = n /\ prev'[n] = m
      BY <1>3, <1>6, <2>2
    <3>2. R2[m] < R2[n]
      BY <1>1, <1>3, <1>7, <2>2
    <3>3. key[n] = key[m]
      BY <1>2, <1>3, <2>2
    <3>4. prev'[m] \in linked /\ next'[prev'[m]] = m
      <4>1. CASE m = head
        BY <1>3, <1>6, <2>2, <4>1
      <4>2. CASE m # head
        <5>1. prev'[m] = prev[m] /\ prev[m] \in linked /\ prev[m] # n /\ prev[m] # last
          BY <1>2, <1>3, <1>6, <2>2, <4>2
        <5> QED BY <1>2, <1>6, <5>1
      <4> QED BY <4>1, <4>2
    <3> QED BY <3>1, <3>2, <3>3, <3>4
  <2>3. CASE m # n /\ m # last
    <3>1. next'[m] = next[m] /\ next[m] \in linked /\ next[m] # n /\ next[m] # head
      BY <1>2, <1>3, <1>6, <2>3
    <3>2. prev'[next'[m]] = m
      BY <1>2, <1>6, <3>1
    <3>3. next'[m] \in Heads' \/ R2[m] < R2[next'[m]]
      BY <1>1, <1>2, <1>7, <2>3, <3>1
    <3>4. prev'[m] \in linked /\ next'[prev'[m]] = m
      <4>1. CASE m = head
        BY <1>3, <1>6, <2>3, <4>1
      <4>2. CASE m # head
        <5>1. prev'[m] = prev[m] /\ prev[m] \in linked /\ prev[m] # n /\ prev[m] # last
          BY <1>2, <1>3, <1>6, <2>3, <4>2
        <5> QED BY <1>2, <1>6, <5>1
      <4> QED BY <4>1, <4>2
    <3> QED BY <1>2, <3>1, <3>2, <3>3, <3>4
  <2> QED BY <2>1, <2>2, <2>3
<1>9. RingsOK(R2)'
  BY <1>1, <1>7, <1>8 DEF RingsOK
<1> QED BY <1>5, <1>9 DEF R2

-----------------------------------------------------------------------------
(* The invariant is inductive.                                              *)

\* What the invariant says of the values its witnesses can have.
LEMMA Values ==
    ASSUME NEW D, NEW X, NEW R, Inv(D, X, R)
    PROVE  /\ KeyBits \in Nat /\ D \in [Node -> 0..KeyBits] /\ X \in [Node -> Nat]
           /\ R \in [Node -> Nat]
           /\ \A n \in Node : key[n] \in Nat /\ D[n] \in Nat
           /\ \A s \in Slots : DepthOf(s, D) \in Nat /\ PathOf(s, X) \in Nat
<1>1. /\ KeyBits \in Nat /\ D \in [Node -> 0..KeyBits] /\ X \in [Node -> Nat]
      /\ R \in [Node -> Nat] /\ TypeOK
  BY KeyBitsAssumption DEF Inv, PlacesOK, RingsOK
<1>2. \A n \in Node : key[n] \in Nat /\ D[n] \in Nat
  BY <1>1 DEF TypeOK, Key
<1>3. ASSUME NEW s \in Slots PROVE DepthOf(s, D) \in Nat /\ PathOf(s, X) \in Nat
  <2>1. CASE s = RootSlot
    BY <2>1 DEF DepthOf, PathOf
  <2>2. CASE s # RootSlot
    <3>1. s[1] \in Node /\ s[2] \in {0, 1}
      BY <1>1, <2>2, SlotShape, Types DEF Side
    <3>2. D[s[1]] \in Nat /\ X[s[1]] \in Nat
      BY <1>1, <3>1
    <3>3. D[s[1]] + 1 \in Nat /\ 2 * X[s[1]] + s[2] \in Nat
      BY <3>1, <3>2
    <3> QED BY <2>2, <3>3 DEF DepthOf, PathOf
  <2> QED BY <2>1, <2>2
<1> QED BY <1>1, <1>2, <1>3

\* The node in a slot is where the slot is.
LEMMA InSlot ==
    ASSUME NEW D, NEW X, TypeOK, LinksOK, PlacesOK(D, X), NEW s \in Slots, At(s) # NULL
    PROVE  /\ At(s) \in Placed /\ selfPtr[At(s)] = s /\ parent[At(s)] = s[1]
           /\ D[At(s)] = DepthOf(s, D) /\ X[At(s)] = PathOf(s, X)
<1>1. PICK q \in Placed : q = At(s) /\ selfPtr[q] = s
  BY DEF LinksOK
<1> QED BY <1>1 DEF LinksOK, PlacesOK

\* A step that leaves the trie alone, while no node is pushed down, keeps the order.
LEMMA KeysKept ==
    ASSUME NEW D, NEW X, TypeOK, LinksOK, PlacesOK(D, X), KeysOK(D, X), Placed' = Placed,
           \A m \in Placed : key'[m] = key[m] /\ parent'[m] = parent[m] /\ ~Pushed(m),
           pc' # "remove"
    PROVE  KeysOK(D, X)'
<1>1. \A m \in Placed : parent[m] # NULL => parent[m] \in Placed
  BY NotOwnParent
<1> QED BY <1>1 DEF KeysOK, Pushed

\* The empty tree.
LEMMA InitInv == Init => IInv
<1> SUFFICES ASSUME Init PROVE IInv
  OBVIOUS
<1> DEFINE Z == [n \in Node |-> 0]
<1>1. KeyBits \in Nat /\ 0 \in Key /\ linked = {} /\ pc = "idle"
  BY KeyBitsAssumption DEF Key, Init, Idle
<1>2. Placed = {} /\ Slots = {RootSlot} /\ Heads = {}
  BY <1>1 DEF Placed, Slots, Heads
<1>3. TypeOK
  BY <1>1 DEF TypeOK, Init, Idle, NoChild, SlotSet
<1>4. LinksOK
  BY <1>1, <1>2 DEF LinksOK, Init, At
<1>5. PlacesOK(Z, Z) /\ KeysOK(Z, Z) /\ RingsOK(Z) /\ CallOK(Z, Z)
  BY <1>1, <1>2 DEF PlacesOK, KeysOK, RingsOK, CallOK
<1>6. Inv(Z, Z, Z)
  BY <1>3, <1>4, <1>5 DEF Inv
<1> QED BY <1>6 DEF IInv

\* A step that changes nothing.
LEMMA InvKept ==
    ASSUME NEW D, NEW X, NEW R, Inv(D, X, R), UNCHANGED vars
    PROVE  Inv(D, X, R)'
<1>1. UNCHANGED <<root, child, parent, selfPtr, next, prev, key, linked, pc, new, node, slot, bit>>
  BY DEF vars, treeVars, callVars
<1>2. /\ Placed' = Placed /\ Slots' = Slots /\ Heads' = Heads
      /\ \A s : At(s)' = At(s)
      /\ \A n : Pushed(n)' = Pushed(n) /\ Unlinked(n)' = Unlinked(n)
  BY <1>1 DEF Placed, Slots, Heads, At, Pushed, Alone, Unlinked
<1>3. TypeOK' /\ LinksOK'
  BY <1>1, <1>2 DEF Inv, TypeOK, LinksOK
<1>4. PlacesOK(D, X)' /\ KeysOK(D, X)'
  BY <1>1, <1>2 DEF Inv, PlacesOK, KeysOK
<1>5. RingsOK(R)'
  BY <1>1, <1>2 DEF Inv, RingsOK
<1>6. CallOK(D, X)'
  BY <1>1, <1>2 DEF Inv, CallOK
<1> QED BY <1>3, <1>4, <1>5, <1>6 DEF Inv

\* An insert begins at the root with the new node in a ring of its own.
LEMMA BeginInsertStep ==
    ASSUME NEW D, NEW X, NEW R, Inv(D, X, R), NEW n \in Node, NEW k \in Key, BeginInsert(n, k)
    PROVE  Inv(D, X, R)'
<1>1. /\ TypeOK /\ LinksOK /\ PlacesOK(D, X) /\ KeysOK(D, X) /\ RingsOK(R)
      /\ KeyBits \in Nat /\ R \in [Node -> Nat] /\ \A m \in Node : D[m] \in Nat
  BY Values DEF Inv
<1>2. n \notin linked /\ n \notin Placed /\ Placed \subseteq Node /\ linked \subseteq Node
  BY <1>1, Types DEF BeginInsert, Placed
<1>3. /\ child'[n] = NoChild /\ parent'[n] = NULL /\ selfPtr'[n] = NULL
      /\ next'[n] = n /\ prev'[n] = n /\ key'[n] = k
      /\ \A m \in Node : m # n => /\ child'[m] = child[m] /\ parent'[m] = parent[m]
                                 /\ selfPtr'[m] = selfPtr[m] /\ next'[m] = next[m]
                                 /\ prev'[m] = prev[m] /\ key'[m] = key[m]
  BY <1>1 DEF BeginInsert, TypeOK
<1>4. /\ pc = "idle" /\ pc' = "insert" /\ new' = n /\ node' = n /\ slot' = RootSlot
      /\ bit' = KeyBits /\ linked' = linked \union {n} /\ root' = root
  BY DEF BeginInsert
<1>5. /\ Placed' = Placed /\ LinksOK' /\ PlacesOK(D, X)'
  <2>1. n \in linked' => Unlinked(n)'
    BY <1>3 DEF Unlinked, NoChild
  <2> QED BY <1>1, <1>2, <1>3, <1>4, <2>1, Untouched
<1>6. TypeOK'
  <2>1. KeyBits \in 0..KeyBits /\ RootSlot \in SlotSet /\ NoChild \in [Side -> Node \union {NULL}]
    BY <1>1 DEF SlotSet, NoChild
  <2> QED BY <1>1, <1>4, <2>1 DEF TypeOK, BeginInsert, SlotSet, RootSlot
<1>7. KeysOK(D, X)'
  <2>1. \A m \in Placed : key'[m] = key[m] /\ parent'[m] = parent[m] /\ ~Pushed(m)
    BY <1>2, <1>3, <1>4 DEF Pushed
  <2> QED BY <1>1, <1>4, <1>5, <2>1, KeysKept
<1>8. RingsOK(R)'
  <2>1. Heads = Placed /\ Heads' = Placed \union {n}
    BY <1>4, <1>5 DEF Heads
  <2>2. ASSUME NEW m \in linked'
        PROVE  /\ next'[m] \in linked' /\ prev'[m] \in linked'
               /\ prev'[next'[m]] = m /\ next'[prev'[m]] = m
               /\ key'[next'[m]] = key'[m]
               /\ next'[m] \in Heads' \/ R[m] < R[next'[m]]
    <3>1. CASE m = n
      BY <1>3, <1>4, <2>1, <3>1
    <3>2. CASE m # n
      <4>1. m \in linked /\ m \in Node
        BY <1>2, <1>4, <3>2
      <4>2. /\ next[m] \in linked /\ prev[m] \in linked
            /\ prev[next[m]] = m /\ next[prev[m]] = m
            /\ key[next[m]] = key[m]
            /\ next[m] \in Heads \/ R[m] < R[next[m]]
        BY <1>1, <4>1 DEF RingsOK
      <4>3. next[m] # n /\ prev[m] # n /\ next[m] \in Node /\ prev[m] \in Node
        BY <1>2, <4>2
      <4> QED BY <1>3, <1>4, <2>1, <3>2, <4>1, <4>2, <4>3
    <3> QED BY <3>1, <3>2
  <2>3. ASSUME NEW a \in Heads', NEW b \in Heads', key'[a] = key'[b]
        PROVE  a = b \/ (pc' = "insert" /\ node' = new' /\ new' \in {a, b})
    <3>1. CASE n \in {a, b}
      BY <1>4, <3>1
    <3>2. CASE n \notin {a, b}
      <4>1. a \in Placed /\ b \in Placed /\ key[a] = key[b]
        BY <1>2, <1>3, <2>1, <2>3, <3>2
      <4> QED BY <1>1, <1>4, <2>1, <4>1 DEF RingsOK
    <3> QED BY <3>1, <3>2
  <2> QED BY <1>1, <2>2, <2>3 DEF RingsOK
<1>9. CallOK(D, X)'
  <2>1. n \in linked' \ Placed' /\ RootSlot \in Slots'
    BY <1>2, <1>4, <1>5 DEF Slots, RootSlot
  <2>2. Prefix(k, 0) = 0 /\ KeyBits = KeyBits - 0
    BY <1>1, PrefixEnds
  <2>3. \A m \in Placed : D[m] >= 0
    BY <1>1, <1>2
  <2> QED BY <1>3, <1>4, <1>5, <2>1, <2>2, <2>3 DEF CallOK, DepthOf, PathOf, RootSlot
<1> QED BY <1>5, <1>6, <1>7, <1>8, <1>9 DEF Inv

\* The node an insert meets is on the path of the key in hand, and so above the
\* last bit.
LEMMA MetNode ==
    ASSUME NEW D, NEW X, NEW R, Inv(D, X, R), NEW cur \in Node, Meets(cur)
    PROVE  /\ pc = "insert" /\ node \in linked \ Placed /\ node \in Node /\ slot \in Slots
           /\ cur \in Placed /\ selfPtr[cur] = slot /\ parent[cur] = slot[1] /\ cur # new
           /\ D[cur] = DepthOf(slot, D) /\ X[cur] = PathOf(slot, X)
           /\ D[cur] \in 0..KeyBits /\ D[cur] # KeyBits /\ bit = KeyBits - D[cur]
           /\ Prefix(key[cur], D[cur]) = X[cur] /\ Prefix(key[node], D[cur]) = X[cur]
<1>1. /\ TypeOK /\ LinksOK /\ PlacesOK(D, X) /\ KeysOK(D, X) /\ CallOK(D, X)
      /\ KeyBits \in Nat /\ D \in [Node -> 0..KeyBits]
  BY Values DEF Inv
<1>2. pc = "insert" /\ At(slot) = cur /\ cur # NULL /\ key[cur] # key[new]
  BY DEF Meets
<1>3. /\ node \in linked \ Placed /\ slot \in Slots /\ bit = KeyBits - DepthOf(slot, D)
      /\ Prefix(key[node], DepthOf(slot, D)) = PathOf(slot, X)
      /\ node # new => key[new] < key[node] /\ key[node] < key[cur]
  BY <1>1, <1>2 DEF CallOK
<1>4. /\ cur \in Placed /\ selfPtr[cur] = slot /\ parent[cur] = slot[1]
      /\ D[cur] = DepthOf(slot, D) /\ X[cur] = PathOf(slot, X)
  BY <1>1, <1>2, <1>3, InSlot
<1>5. node \in Node /\ cur \in Node /\ key[node] \in Key /\ key[cur] \in Key
  BY <1>1, <1>3, Types
<1>6. Prefix(key[cur], D[cur]) = X[cur] /\ Prefix(key[node], D[cur]) = X[cur]
  BY <1>1, <1>2, <1>3, <1>4 DEF KeysOK, Pushed
<1>7. D[cur] # KeyBits
  <2> SUFFICES ASSUME D[cur] = KeyBits PROVE FALSE
    OBVIOUS
  <2>1. key[cur] = key[node]
    BY <1>5, <1>6, PrefixEnds
  <2>2. key[node] \in Nat /\ ~(key[node] < key[node])
    BY <1>5 DEF Key
  <2> QED BY <1>2, <1>3, <2>1, <2>2
<1> QED BY <1>1, <1>2, <1>3, <1>4, <1>5, <1>6, <1>7

\* A walk that passes a smaller key still carries the new node.
LEMMA InsertPassStep ==
    ASSUME NEW D, NEW X, NEW R, Inv(D, X, R), NEW cur \in Node, InsertPass(cur)
    PROVE  Inv(D, X, R)'
<1>1. /\ TypeOK /\ LinksOK /\ PlacesOK(D, X) /\ KeysOK(D, X) /\ RingsOK(R) /\ CallOK(D, X)
      /\ KeyBits \in Nat /\ \A n \in Node : key[n] \in Nat /\ D[n] \in Nat
  BY Values DEF Inv
<1>2. Meets(cur) /\ key[node] >= key[cur] /\ GoDown(cur, node)
  BY DEF InsertPass
<1>3. PICK d \in 0..KeyBits, s \in Slots :
          /\ s = slot /\ d = D[cur] /\ d # KeyBits /\ bit = KeyBits - d /\ selfPtr[cur] = s
          /\ X[cur] = PathOf(s, X) /\ d = DepthOf(s, D) /\ cur \in Placed
          /\ Prefix(key[node], d) = X[cur] /\ node \in Node
  BY <1>2, MetNode
<1>4. /\ pc = "insert" /\ At(s) = cur /\ cur # NULL /\ key[cur] # key[new]
  BY <1>2, <1>3 DEF Meets
<1>5. node = new /\ next[new] = new /\ new \in linked /\ node \in linked \ Placed
      /\ \A m \in Placed : key[m] = key[new] => D[m] >= d
  <2>1. ~(key[node] < key[cur])
    BY <1>1, <1>2, <1>3
  <2>2. node = new
    BY <1>1, <1>3, <1>4, <2>1 DEF CallOK
  <2> QED BY <1>1, <1>3, <1>4, <2>2 DEF CallOK
<1>6. UNCHANGED <<treeVars, linked, pc, new, node>>
  BY DEF InsertPass
<1>7. PICK b, t : /\ t = slot' /\ t = <<cur, IsBitSet(key[node], b)>>
                  /\ b = bit' /\ b = KeyBits - d - 1
  BY <1>2, <1>3 DEF GoDown
<1>8. /\ t[1] = cur /\ t[2] \in Side /\ t = <<cur, t[2]>> /\ t # RootSlot
      /\ DepthOf(t, D) = d + 1 /\ Prefix(key[node], d + 1) = PathOf(t, X)
      /\ bit' = KeyBits - DepthOf(t, D) /\ bit' \in 0..KeyBits
  <2>1. PICK k \in Key : k = key[node]
    BY <1>1, <1>3, Types
  <2>2. /\ D[cur] = d /\ X[cur] = Prefix(k, d) /\ t = <<cur, IsBitSet(k, b)>>
        /\ b = KeyBits - d - 1 /\ d # KeyBits /\ KeyBits \in Nat
    BY <1>1, <1>3, <1>7, <2>1
  <2>3. b = KeyBits - (d + 1) /\ b \in 0..KeyBits
    BY <2>2
  <2>4. IsBitSet(k, b) \in Side /\ Prefix(k, d + 1) = 2 * Prefix(k, d) + IsBitSet(k, b)
    BY <2>2, <2>3, PrefixNext
  <2>5. t[1] = cur /\ t[2] = IsBitSet(k, b) /\ t = <<cur, t[2]>>
    BY <2>2
  <2>6. t # RootSlot
    BY <2>2, NodeAssumption DEF RootSlot
  <2> QED BY <1>7, <2>1, <2>2, <2>3, <2>4, <2>5, <2>6 DEF DepthOf, PathOf
<1>9. Placed' = Placed /\ Slots' = Slots /\ Heads' = Heads
  BY <1>6 DEF Placed, Slots, RootSlot, Heads, treeVars
<1>10. LinksOK' /\ PlacesOK(D, X)' /\ KeysOK(D, X)' /\ RingsOK(R)'
  <2>1. LinksOK'
    BY <1>1, <1>6, <1>9 DEF LinksOK, Unlinked, At, treeVars, RootSlot, NoChild
  <2>2. PlacesOK(D, X)'
    BY <1>1, <1>6, <1>9 DEF PlacesOK, treeVars
  <2>3. KeysOK(D, X)'
    BY <1>1, <1>6, <1>9 DEF KeysOK, Pushed, Alone, treeVars
  <2>4. RingsOK(R)'
    BY <1>1, <1>6, <1>9 DEF RingsOK, treeVars
  <2> QED BY <2>1, <2>2, <2>3, <2>4
<1>11. t \in Slots /\ t \in SlotSet
  BY <1>3, <1>8 DEF Slots, SlotSet
<1>12. TypeOK'
  BY <1>1, <1>6, <1>7, <1>8, <1>11 DEF TypeOK, treeVars, SlotSet, RootSlot
<1>13. \A m \in Placed : key[m] = key[new] => D[m] >= d + 1
  <2> SUFFICES ASSUME NEW m \in Placed, key[m] = key[new], ~(D[m] >= d + 1) PROVE FALSE
    OBVIOUS
  <2>1. D[m] = d
    BY <1>1, <1>5, Types
  <2>2. X[m] = PathOf(s, X)
    BY <1>1, <1>3, <1>4, <1>5, <2>1 DEF KeysOK, Pushed
  <2>3. At(s) = m
    BY <1>1, <1>3, <2>1, <2>2, FoundAt
  <2> QED BY <1>4, <2>3
<1>14. key[cur] < key[node]
  BY <1>1, <1>2, <1>3, <1>4, <1>5
<1>15. CallOK(D, X)'
  BY <1>4, <1>5, <1>6, <1>7, <1>8, <1>9, <1>11, <1>13, <1>14 DEF CallOK, treeVars
<1> QED BY <1>10, <1>12, <1>15 DEF Inv

\* While the new node is carried, a node with its key is below a node in the slot.
LEMMA KeyBelowSlot ==
    ASSUME NEW D, NEW X, NEW R, Inv(D, X, R), pc = "insert", node = new,
           NEW m \in Placed, key[m] = key[new]
    PROVE  At(slot) \in Placed /\ key[At(slot)] <= key[new]
<1>1. /\ TypeOK /\ LinksOK /\ PlacesOK(D, X) /\ KeysOK(D, X) /\ CallOK(D, X)
      /\ KeyBits \in Nat /\ \A n \in Node : key[n] \in Nat /\ D[n] \in Nat
  BY Values DEF Inv
<1>2. PICK s \in Slots : /\ s = slot /\ D[m] >= DepthOf(s, D)
                         /\ Prefix(key[node], DepthOf(s, D)) = PathOf(s, X)
  BY <1>1 DEF CallOK
<1>3. DepthOf(s, D) \in 0..D[m]
  <2>1. DepthOf(s, D) \in Nat /\ D[m] \in Nat
    BY <1>1, Values, Types
  <2> QED BY <1>2, <2>1
<1>4. PICK q \in Placed : /\ D[q] = DepthOf(s, D) /\ X[q] = Prefix(key[m], DepthOf(s, D))
                          /\ key[q] <= key[m]
  BY <1>1, <1>3, Ancestors
<1>5. At(s) = q
  BY <1>1, <1>2, <1>4, FoundAt
<1> QED BY <1>2, <1>4, <1>5

\* A node that takes a larger one's place leaves that to be carried on.
LEMMA InsertSwapStep ==
    ASSUME NEW D, NEW X, NEW R, Inv(D, X, R), NEW cur \in Node, InsertSwap(cur)
    PROVE  \E D2, X2 : Inv(D2, X2, R)'
<1>1. /\ TypeOK /\ LinksOK /\ PlacesOK(D, X) /\ KeysOK(D, X) /\ RingsOK(R) /\ CallOK(D, X)
      /\ KeyBits \in Nat /\ D \in [Node -> 0..KeyBits] /\ X \in [Node -> Nat]
      /\ \A n \in Node : key[n] \in Nat /\ D[n] \in Nat
  BY Values DEF Inv
<1>2. Meets(cur) /\ key[node] < key[cur] /\ ReplaceNode(cur, node, TRUE) /\ GoDown(node, cur)
      /\ node' = cur /\ UNCHANGED <<next, prev, key, linked, pc, new>>
  BY DEF InsertSwap
<1>3. PICK d \in 0..KeyBits, s \in Slots, n0 \in linked \ Placed :
          /\ s = slot /\ n0 = node /\ d = D[cur] /\ d # KeyBits /\ bit = KeyBits - d
          /\ selfPtr[cur] = s /\ parent[cur] = s[1] /\ cur \in Placed /\ cur # new
          /\ X[cur] = PathOf(s, X) /\ d = DepthOf(s, D)
          /\ Prefix(key[cur], d) = X[cur] /\ Prefix(key[n0], d) = X[cur]
  BY <1>2, MetNode
<1>4. /\ pc = "insert" /\ At(s) = cur /\ cur # NULL /\ key[cur] # key[new]
      /\ key[n0] < key[cur] /\ n0 \in Node /\ n0 # cur
  BY <1>1, <1>2, <1>3, Types DEF Meets
<1> DEFINE D2 == [D EXCEPT ![n0] = D[cur]]
           X2 == [X EXCEPT ![n0] = X[cur]]
<1>5. /\ root' \in Node \union {NULL}
      /\ child' \in [Node -> [Side -> Node \union {NULL}]]
      /\ parent' \in [Node -> Node \union {NULL}]
      /\ selfPtr' \in [Node -> SlotSet \union {NULL}]
      /\ Placed' = (Placed \ {cur}) \union {n0}
      /\ LinksOK' /\ PlacesOK(D2, X2)'
      /\ parent'[n0] = parent[cur]
      /\ \A m \in Placed \ {cur} : /\ parent[m] = cur => parent'[m] = n0
                                   /\ parent[m] # cur => parent'[m] = parent[m]
      /\ \A i \in Side : child'[n0][i] = child[cur][i]
  <2>1. ReplaceNode(cur, n0, TRUE) /\ linked' = linked
    BY <1>2, <1>3
  <2>2. /\ root' \in Node \union {NULL}
        /\ child' \in [Node -> [Side -> Node \union {NULL}]]
        /\ parent' \in [Node -> Node \union {NULL}]
        /\ selfPtr' \in [Node -> SlotSet \union {NULL}]
        /\ Placed' = (Placed \ {cur}) \union {n0}
        /\ LinksOK' /\ parent'[n0] = parent[cur]
    BY <1>1, <1>3, <2>1, Replaced
  <2>3. PlacesOK(D2, X2)'
    BY <1>1, <1>3, <2>1, Replaced
  <2>4. \A m \in Placed \ {cur} : /\ parent[m] = cur => parent'[m] = n0
                                  /\ parent[m] # cur => parent'[m] = parent[m]
    <3>1. TypeOK /\ LinksOK /\ cur \in Placed /\ n0 \in linked \ Placed
      BY <1>1, <1>3
    <3> QED BY <2>1, <3>1, ReplacedParent
  <2>5. \A i \in Side : child'[n0][i] = child[cur][i]
    BY <1>1, <1>3, <2>1, Replaced
  <2> QED BY <2>2, <2>3, <2>4, <2>5
<1>6. /\ D2[n0] = d /\ X2[n0] = X[cur]
      /\ \A m \in Node \ {n0} : D2[m] = D[m] /\ X2[m] = X[m]
  BY <1>1, <1>3, <1>4
<1> HIDE DEF D2, X2
<1>7. PICK b, t : /\ t = slot' /\ t = <<n0, IsBitSet(key[cur], b)>>
                  /\ b = bit' /\ b = KeyBits - d - 1
  BY <1>2, <1>3 DEF GoDown
<1>8. /\ t[1] = n0 /\ t[2] \in Side /\ t = <<n0, t[2]>> /\ t # RootSlot
      /\ DepthOf(t, D2) = d + 1 /\ Prefix(key[cur], d + 1) = PathOf(t, X2)
      /\ b = KeyBits - DepthOf(t, D2) /\ b \in 0..KeyBits
  <2>1. PICK k \in Key : k = key[cur]
    BY <1>1, Types
  <2>2. /\ Prefix(k, d) = X2[n0] /\ t = <<n0, IsBitSet(k, b)>> /\ b = KeyBits - d - 1
    BY <1>3, <1>6, <1>7, <2>1
  <2>3. b = KeyBits - (d + 1) /\ b \in 0..KeyBits
    BY <1>1, <1>3, <2>2
  <2>4. IsBitSet(k, b) \in Side /\ Prefix(k, d + 1) = 2 * Prefix(k, d) + IsBitSet(k, b)
    BY <1>3, <2>3, PrefixNext
  <2>5. t[1] = n0 /\ t[2] = IsBitSet(k, b) /\ t = <<n0, t[2]>>
    BY <2>2
  <2>6. t # RootSlot
    BY <1>4, <2>2, NodeAssumption DEF RootSlot
  <2> QED BY <1>6, <2>1, <2>2, <2>3, <2>4, <2>5, <2>6 DEF DepthOf, PathOf
<1>9. t \in Slots' /\ t \in SlotSet
  <2>1. n0 \in Placed'
    BY <1>5
  <2> QED BY <1>4, <1>8, <2>1 DEF Slots, SlotSet
<1>10. \A m \in Placed' : m \in Node
  BY <1>4, <1>5, <1>1, Types
<1>11. TypeOK'
  BY <1>1, <1>2, <1>5, <1>7, <1>8, <1>9 DEF TypeOK, SlotSet, RootSlot
<1>12. parent[cur] # NULL => parent[cur] \in Node /\ key[parent[cur]] < key[n0]
  <2>1. s # RootSlot => key[s[1]] < key[n0]
    BY <1>1, <1>3, <1>4 DEF CallOK
  <2> QED BY <1>1, <1>3, <2>1, SlotShape, Types
<1>13. ASSUME NEW m \in Placed, parent[m] # NULL
       PROVE  parent[m] \in Node /\ key[parent[m]] < key[m]
  <2>1. parent[m] \in Placed
    BY <1>1, <1>13, NotOwnParent
  <2> QED BY <1>1, <1>4, <1>13, <2>1, Types DEF KeysOK, Pushed
<1>14. KeysOK(D2, X2)'
  <2>1. ASSUME NEW m \in Placed' PROVE Prefix(key[m], D2[m]) = X2[m]
    <3>1. CASE m = n0
      BY <1>3, <1>6, <3>1
    <3>2. CASE m # n0
      <4>1. m \in Placed /\ m \in Node
        BY <1>5, <1>10, <3>2
      <4> QED BY <1>1, <1>4, <1>6, <3>2, <4>1 DEF KeysOK, Pushed
    <3> QED BY <3>1, <3>2
  <2>2. ASSUME NEW m \in Placed', parent'[m] # NULL PROVE key[parent'[m]] < key[m]
    <3>1. CASE m = n0
      BY <1>5, <1>12, <2>2, <3>1
    <3>2. CASE m # n0
      <4>1. m \in Placed \ {cur} /\ m \in Node
        BY <1>5, <1>10, <3>2
      <4>2. CASE parent[m] = cur
        <5>1. key[cur] < key[m]
          BY <1>4, <1>13, <4>1, <4>2
        <5>2. parent'[m] = n0
          BY <1>5, <4>1, <4>2
        <5> QED BY <1>1, <1>4, <4>1, <5>1, <5>2
      <4>3. CASE parent[m] # cur
        BY <1>5, <1>13, <2>2, <4>1, <4>3
      <4> QED BY <4>2, <4>3
    <3> QED BY <3>1, <3>2
  <2> QED BY <1>2, <1>4, <2>1, <2>2 DEF KeysOK, Pushed
<1>15. RingsOK(R)'
  <2>1. Heads' = Heads
    BY <1>2, <1>3, <1>4, <1>5 DEF Heads
  <2>2. ASSUME NEW m \in Placed, n0 = new PROVE key[m] # key[new]
    <3> SUFFICES ASSUME key[m] = key[new] PROVE FALSE
      OBVIOUS
    <3>1. key[cur] <= key[new]
      BY <1>3, <1>4, <2>2, KeyBelowSlot
    <3> QED BY <1>1, <1>4, <2>2, <3>1
  <2>3. \A a, b2 \in Heads : key[a] = key[b2] => a = b2
    <3>1. CASE n0 = new
      <4>1. Heads = Placed \union {new}
        BY <1>3, <1>4, <3>1 DEF Heads
      <4>2. \A a, b2 \in Placed : key[a] = key[b2] => a = b2
        BY <1>1, <1>3, <3>1, <4>1 DEF RingsOK
      <4> QED BY <2>2, <3>1, <4>1, <4>2
    <3>2. CASE n0 # new
      BY <1>1, <1>3, <3>2 DEF RingsOK
    <3> QED BY <3>1, <3>2
  <2> QED BY <1>1, <1>2, <2>1, <2>3 DEF RingsOK
<1>16. CallOK(D2, X2)'
  <2>1. cur \in linked' \ Placed'
    BY <1>2, <1>3, <1>4, <1>5 DEF Placed
  <2>2. new \in Placed' /\ key[new] < key[cur]
    <3>1. CASE n0 = new
      BY <1>4, <1>5, <3>1
    <3>2. CASE n0 # new
      <4>1. new \in Placed /\ key[new] < key[n0]
        BY <1>1, <1>3, <1>4, <3>2 DEF CallOK
      <4>2. new \in Node
        BY <1>1, <4>1, Types
      <4> QED BY <1>1, <1>3, <1>4, <1>5, <4>1, <4>2
    <3> QED BY <3>1, <3>2
  <2>3. (At(slot) # NULL => key[node] < key[At(slot)])'
    <3>1. PICK i \in Side : i = t[2] /\ At(slot)' = child'[n0][i]
      BY <1>7, <1>8 DEF At
    <3>2. PICK c : c = child[cur][i] /\ c = At(slot)'
      BY <1>5, <3>1
    <3>3. c # NULL => c \in Placed /\ parent[c] = cur
      <4>1. \A j \in Side : child[cur][j] # NULL =>
                child[cur][j] \in Placed /\ parent[child[cur][j]] = cur
        BY <1>1, <1>3, Children
      <4> QED BY <3>2, <4>1
    <3>4. c # NULL => key[cur] < key[c]
      BY <1>4, <1>13, <3>3
    <3> QED BY <1>2, <3>2, <3>4
  <2>4. new \in linked
    BY <1>1, <1>4 DEF CallOK
  <2> QED BY <1>2, <1>3, <1>4, <1>7, <1>8, <1>9, <2>1, <2>2, <2>3, <2>4 DEF CallOK
<1> QED BY <1>5, <1>11, <1>14, <1>15, <1>16 DEF Inv

\* At a node with its key the new node joins that node's ring.
LEMMA InsertDuplicateStep ==
    ASSUME NEW D, NEW X, NEW R, Inv(D, X, R), NEW head \in Node, InsertDuplicate(head)
    PROVE  \E R2 : Inv(D, X, R2)'
<1>1. /\ TypeOK /\ LinksOK /\ PlacesOK(D, X) /\ KeysOK(D, X) /\ RingsOK(R) /\ CallOK(D, X)
      /\ KeyBits \in Nat /\ \A n \in Node : key[n] \in Nat
  BY Values DEF Inv
<1>2. /\ pc = "insert" /\ At(slot) = head /\ head # NULL /\ key[head] = key[new]
      /\ JoinRing(node, head) /\ Finish
      /\ UNCHANGED <<root, child, parent, selfPtr, key, linked>>
  BY DEF InsertDuplicate
<1>3. head \in Placed /\ head \in linked
  BY <1>1, <1>2, InSlot DEF CallOK, Placed
<1>4. PICK n0 \in linked \ Placed : n0 = node /\ n0 \in Node /\ n0 = new /\ next[n0] = n0
  <2>1. node \in linked \ Placed /\ node \in Node
    BY <1>1, <1>2, Types DEF CallOK
  <2>2. node = new
    <3> SUFFICES ASSUME node # new PROVE FALSE
      OBVIOUS
    <3>1. key[new] < key[node] /\ key[node] < key[head]
      BY <1>1, <1>2 DEF CallOK
    <3> QED BY <1>1, <1>2, <2>1, <3>1
  <2> QED BY <1>1, <1>2, <2>1, <2>2 DEF CallOK
<1>5. pc' = "idle" /\ new' = NULL /\ node' = NULL /\ slot' = RootSlot /\ bit' = 0
  BY <1>2 DEF Finish
<1>6. /\ Placed' = Placed /\ LinksOK' /\ PlacesOK(D, X)'
  <2>1. Unlinked(n0)'
    BY <1>1, <1>2, <1>4 DEF LinksOK, Unlinked, NoChild
  <2> QED BY <1>1, <1>2, <1>4, <2>1, Untouched
<1>7. KeysOK(D, X)'
  <2>1. \A m \in Placed : key'[m] = key[m] /\ parent'[m] = parent[m] /\ ~Pushed(m)
    BY <1>2 DEF Pushed
  <2> QED BY <1>1, <1>5, <1>6, <2>1, KeysKept
<1>8. Heads = Placed \union {n0} /\ Heads' = Placed
  BY <1>2, <1>4, <1>5, <1>6 DEF Heads
<1>9. PICK last : last = prev[head]
  OBVIOUS
<1>10. /\ next' \in [Node -> Node \union {NULL}] /\ prev' \in [Node -> Node \union {NULL}]
       /\ RingsOK([R EXCEPT ![n0] = R[last] + 1])'
  <2>1. \A a, b \in Heads' : key[a] = key[b] => a = b
    BY <1>1, <1>4, <1>8 DEF RingsOK
  <2>2. n0 # head /\ key[head] = key[n0] /\ JoinRing(n0, head)
    BY <1>2, <1>3, <1>4
  <2>3. Heads \ {n0} \subseteq Heads' /\ head \in Heads'
    BY <1>3, <1>8
  <2> QED BY <1>1, <1>2, <1>3, <1>4, <1>5, <1>9, <2>1, <2>2, <2>3, JoinedRing
<1>11. TypeOK'
  <2>1. 0 \in 0..KeyBits
    BY <1>1
  <2> QED BY <1>1, <1>2, <1>5, <1>10, <2>1 DEF TypeOK, SlotSet, RootSlot
<1>12. CallOK(D, X)'
  BY <1>5 DEF CallOK
<1> QED BY <1>6, <1>7, <1>10, <1>11, <1>12 DEF Inv

\* At an empty place the node in hand is linked.
LEMMA InsertLinkStep ==
    ASSUME NEW D, NEW X, NEW R, Inv(D, X, R), InsertLink
    PROVE  \E D2, X2 : Inv(D2, X2, R)'
<1>1. /\ TypeOK /\ LinksOK /\ PlacesOK(D, X) /\ KeysOK(D, X) /\ RingsOK(R) /\ CallOK(D, X)
      /\ KeyBits \in Nat /\ D \in [Node -> 0..KeyBits] /\ X \in [Node -> Nat]
      /\ \A n \in Node : key[n] \in Nat
  BY Values DEF Inv
<1>2. /\ pc = "insert" /\ At(slot) = NULL /\ SetSlot(slot, node, child)
      /\ selfPtr' = [selfPtr EXCEPT ![node] = slot]
      /\ parent' = [parent EXCEPT ![node] = slot[1]]
      /\ Finish /\ UNCHANGED <<next, prev, key, linked>>
  BY DEF InsertLink
<1>3. PICK s \in Slots, n0 \in linked \ Placed :
          /\ s = slot /\ n0 = node /\ n0 \in Node /\ bit = KeyBits - DepthOf(s, D)
          /\ Prefix(key[n0], DepthOf(s, D)) = PathOf(s, X)
          /\ s # RootSlot => key[s[1]] < key[n0]
  BY <1>1, <1>2, Types DEF CallOK
<1>4. pc' = "idle" /\ new' = NULL /\ node' = NULL /\ slot' = RootSlot /\ bit' = 0
  BY <1>2 DEF Finish
<1>5. PICK d \in 0..KeyBits, x \in Nat : d = DepthOf(s, D) /\ x = PathOf(s, X)
  <2>1. DepthOf(s, D) \in Nat /\ PathOf(s, X) \in Nat
    BY Values
  <2>2. bit \in 0..KeyBits
    BY <1>1 DEF TypeOK
  <2> QED BY <1>1, <1>3, <2>1, <2>2
<1> DEFINE D2 == [D EXCEPT ![n0] = DepthOf(s, D)]
           X2 == [X EXCEPT ![n0] = PathOf(s, X)]
<1>6. /\ root' \in Node \union {NULL}
      /\ child' \in [Node -> [Side -> Node \union {NULL}]]
      /\ parent' \in [Node -> Node \union {NULL}]
      /\ selfPtr' \in [Node -> SlotSet \union {NULL}]
      /\ Placed' = Placed \union {n0}
      /\ LinksOK' /\ PlacesOK(D2, X2)'
  <2>1. /\ SetSlot(s, n0, child) /\ selfPtr' = [selfPtr EXCEPT ![n0] = s]
        /\ parent' = [parent EXCEPT ![n0] = s[1]] /\ linked' = linked
        /\ At(s) = NULL /\ DepthOf(s, D) \in 0..KeyBits
    BY <1>2, <1>3, <1>5
  <2> QED BY <1>1, <1>3, <2>1, HungIn
<1>7. /\ D2[n0] = d /\ X2[n0] = x
      /\ \A m \in Node \ {n0} : D2[m] = D[m] /\ X2[m] = X[m]
  BY <1>1, <1>3, <1>5
<1> HIDE DEF D2, X2
<1>8. parent'[n0] = s[1] /\ \A m \in Node \ {n0} : parent'[m] = parent[m]
  BY <1>1, <1>2, <1>3 DEF TypeOK
<1>9. TypeOK'
  <2>1. 0 \in 0..KeyBits
    BY <1>1
  <2> QED BY <1>1, <1>2, <1>4, <1>6, <2>1 DEF TypeOK, SlotSet, RootSlot
<1>10. KeysOK(D2, X2)'
  <2>1. ASSUME NEW m \in Placed' PROVE Prefix(key[m], D2[m]) = X2[m]
    <3>1. CASE m = n0
      BY <1>3, <1>5, <1>7, <3>1
    <3>2. CASE m # n0
      <4>1. m \in Placed /\ m \in Node
        BY <1>1, <1>6, <3>2, Types
      <4> QED BY <1>1, <1>2, <1>7, <3>2, <4>1 DEF KeysOK, Pushed
    <3> QED BY <3>1, <3>2
  <2>2. ASSUME NEW m \in Placed', parent'[m] # NULL PROVE key[parent'[m]] < key[m]
    <3>1. CASE m = n0
      <4>1. s # RootSlot
        BY <1>8, <2>2, <3>1 DEF RootSlot
      <4> QED BY <1>3, <1>8, <3>1, <4>1
    <3>2. CASE m # n0
      <4>1. m \in Placed /\ m \in Node
        BY <1>1, <1>6, <3>2, Types
      <4> QED BY <1>1, <1>2, <1>8, <2>2, <3>2, <4>1 DEF KeysOK, Pushed
    <3> QED BY <3>1, <3>2
  <2> QED BY <1>2, <1>4, <2>1, <2>2 DEF KeysOK, Pushed
<1>11. RingsOK(R)'
  <2>1. Heads = Placed \union {n0} /\ Heads' = Heads
    BY <1>2, <1>3, <1>4, <1>6 DEF Heads
  <2>2. ASSUME NEW m \in Placed, n0 = new PROVE key[m] # key[new]
    <3> SUFFICES ASSUME key[m] = key[new] PROVE FALSE
      OBVIOUS
    <3>1. At(slot) \in Placed
      BY <1>2, <1>3, <2>2, KeyBelowSlot
    <3> QED BY <1>1, <1>2, <3>1, Types
  <2>3. \A a, b \in Heads : key[a] = key[b] => a = b
    <3>1. CASE n0 = new
      <4>1. \A a, b \in Placed : key[a] = key[b] => a = b
        BY <1>1, <1>3, <2>1, <3>1 DEF RingsOK
      <4> QED BY <2>1, <2>2, <3>1, <4>1
    <3>2. CASE n0 # new
      BY <1>1, <1>3, <3>2 DEF RingsOK
    <3> QED BY <3>1, <3>2
  <2> QED BY <1>1, <1>2, <2>1, <2>3 DEF RingsOK
<1>12. CallOK(D2, X2)'
  BY <1>4 DEF CallOK
<1> QED BY <1>6, <1>9, <1>10, <1>11, <1>12 DEF Inv

\* A remove begins.
LEMMA BeginRemoveStep ==
    ASSUME NEW D, NEW X, NEW R, Inv(D, X, R), NEW n \in linked, BeginRemove(n)
    PROVE  Inv(D, X, R)'
<1>1. /\ TypeOK /\ LinksOK /\ PlacesOK(D, X) /\ KeysOK(D, X) /\ RingsOK(R)
      /\ \A m \in Node : key[m] \in Nat
  BY Values DEF Inv
<1>2. /\ pc = "idle" /\ pc' = "remove" /\ node' = n
      /\ UNCHANGED <<treeVars, linked, new, slot, bit>>
  BY DEF BeginRemove
<1>3. n \in Node
  BY <1>1, Types
<1>4. Placed' = Placed /\ Slots' = Slots /\ Heads' = Heads
  BY <1>2 DEF Placed, Slots, RootSlot, Heads, treeVars
<1>5. TypeOK' /\ LinksOK' /\ PlacesOK(D, X)' /\ RingsOK(R)'
  <2>1. TypeOK'
    BY <1>1, <1>2, <1>3 DEF TypeOK, treeVars, SlotSet, RootSlot
  <2>2. LinksOK'
    BY <1>1, <1>2, <1>4 DEF LinksOK, Unlinked, At, treeVars, RootSlot, NoChild
  <2>3. PlacesOK(D, X)'
    BY <1>1, <1>2, <1>4 DEF PlacesOK, treeVars
  <2>4. RingsOK(R)'
    BY <1>1, <1>2, <1>4 DEF RingsOK, treeVars
  <2> QED BY <2>1, <2>2, <2>3, <2>4
<1>6. KeysOK(D, X)'
  <2>1. ASSUME NEW m \in Placed
        PROVE  /\ Prefix(key[m], D[m]) = X[m]
               /\ parent[m] # NULL => parent[m] \in Placed /\ key[parent[m]] < key[m]
    BY <1>1, <1>2, NotOwnParent DEF KeysOK, Pushed
  <2>2. ASSUME NEW m \in Placed, parent[m] # NULL, parent[parent[m]] # NULL
        PROVE  key[parent[parent[m]]] < key[m]
    <3>1. PICK p \in Placed, g \in Placed : p = parent[m] /\ g = parent[p]
      BY <2>1, <2>2
    <3>2. key[g] < key[p] /\ key[p] < key[m]
      BY <2>1, <2>2, <3>1
    <3> QED BY <1>1, <3>1, <3>2, Types
  <2> QED BY <1>2, <1>4, <2>1, <2>2 DEF KeysOK, treeVars
<1>7. CallOK(D, X)'
  BY <1>2 DEF CallOK
<1> QED BY <1>5, <1>6, <1>7 DEF Inv

\* A leaf without duplicates is cut off.
LEMMA RemoveLeafStep ==
    ASSUME NEW D, NEW X, NEW R, Inv(D, X, R), RemoveLeaf
    PROVE  Inv(D, X, R)'
<1>1. /\ TypeOK /\ LinksOK /\ PlacesOK(D, X) /\ KeysOK(D, X) /\ RingsOK(R) /\ CallOK(D, X)
      /\ KeyBits \in Nat /\ R \in [Node -> Nat]
  BY Values DEF Inv
<1>2. /\ pc = "remove" /\ next[node] = node /\ SmallerChild(node) = NULL
      /\ SetSlot(selfPtr[node], NULL, child) /\ linked' = linked \ {node}
      /\ UNCHANGED <<parent, selfPtr, next, prev, key>>
      /\ pc' = "idle" /\ new' = NULL /\ node' = NULL /\ slot' = RootSlot /\ bit' = 0
  BY DEF RemoveLeaf, Alone, Removed, Finish
<1>3. PICK n0 \in Placed : n0 = node /\ n0 \in linked /\ n0 \in Node
  <2>1. node \in linked /\ node \in Node
    BY <1>1, <1>2, Types DEF CallOK
  <2>2. ~(R[node] < R[node])
    BY <1>1, <2>1
  <2>3. node \in Heads
    BY <1>1, <1>2, <2>1, <2>2 DEF RingsOK
  <2> QED BY <1>2, <2>1, <2>3 DEF Heads
<1>4. \A i \in Side : child[n0][i] = NULL
  BY <1>2, <1>3 DEF SmallerChild, Side
<1>5. /\ root' \in Node \union {NULL}
      /\ child' \in [Node -> [Side -> Node \union {NULL}]]
      /\ Placed' = Placed \ {n0} /\ LinksOK' /\ PlacesOK(D, X)'
  <2>1. SetSlot(selfPtr[n0], NULL, child) /\ linked' = linked \ {n0} /\ UNCHANGED <<parent, selfPtr>>
    BY <1>2, <1>3
  <2> QED BY <1>1, <1>4, <2>1, CutOff
<1>6. TypeOK'
  <2>1. 0 \in 0..KeyBits
    BY <1>1
  <2> QED BY <1>1, <1>2, <1>5, <2>1 DEF TypeOK, SlotSet, RootSlot
<1>7. KeysOK(D, X)'
  <2>1. \A m \in Placed : parent[m] # n0
    BY <1>1, <1>4, Children, Types
  <2>2. ASSUME NEW m \in Placed'
        PROVE  /\ Prefix(key[m], D[m]) = X[m]
               /\ parent[m] # NULL => key[parent[m]] < key[m]
    BY <1>1, <1>3, <1>5, <2>1 DEF KeysOK, Pushed
  <2> QED BY <1>2, <2>2 DEF KeysOK, Pushed
<1>8. RingsOK(R)'
  <2>1. Heads = Placed /\ Heads' = Placed \ {n0}
    BY <1>2, <1>5 DEF Heads
  <2>2. prev[n0] = n0
    BY <1>1, <1>2, <1>3 DEF RingsOK
  <2>3. \A m \in linked : /\ next[m] \in linked /\ prev[m] \in linked
                          /\ prev[next[m]] = m /\ next[prev[m]] = m
                          /\ key[next[m]] = key[m]
                          /\ next[m] \in Heads \/ R[m] < R[next[m]]
    BY <1>1 DEF RingsOK
  <2>4. \A m \in linked \ {n0} : next[m] # n0 /\ prev[m] # n0
    BY <1>2, <1>3, <2>2, <2>3
  <2>5. \A a, b \in Heads' : key[a] = key[b] => a = b
    BY <1>1, <1>2, <2>1 DEF RingsOK
  <2> QED BY <1>1, <1>2, <1>3, <2>1, <2>3, <2>4, <2>5 DEF RingsOK
<1>9. CallOK(D, X)'
  BY <1>2 DEF CallOK
<1> QED BY <1>5, <1>6, <1>7, <1>8, <1>9 DEF Inv

\* Another node of a ring just leaves it.
LEMMA RemoveDuplicateStep ==
    ASSUME NEW D, NEW X, NEW R, Inv(D, X, R), RemoveDuplicate
    PROVE  Inv(D, X, R)'
<1>1. /\ TypeOK /\ LinksOK /\ PlacesOK(D, X) /\ KeysOK(D, X) /\ RingsOK(R) /\ CallOK(D, X)
      /\ KeyBits \in Nat
  BY Values DEF Inv
<1>2. /\ pc = "remove" /\ next[node] # node /\ selfPtr[node] = NULL
      /\ LeaveRing(node) /\ linked' = linked \ {node}
      /\ UNCHANGED <<root, child, parent, selfPtr, key>>
      /\ pc' = "idle" /\ new' = NULL /\ node' = NULL /\ slot' = RootSlot /\ bit' = 0
  BY DEF RemoveDuplicate, Alone, Removed, Finish
<1>3. PICK n0 \in linked \ Placed : n0 = node /\ n0 \in Node
  BY <1>1, <1>2, Types DEF CallOK, Placed
<1>4. /\ Placed' = Placed /\ LinksOK' /\ PlacesOK(D, X)'
  <2>1. n0 \notin linked'
    BY <1>2, <1>3
  <2> QED BY <1>1, <1>2, <1>3, <2>1, Untouched
<1>5. KeysOK(D, X)'
  <2>1. \A m \in Placed : key'[m] = key[m] /\ parent'[m] = parent[m] /\ ~Pushed(m)
    BY <1>2, <1>3 DEF Pushed, Alone
  <2> QED BY <1>1, <1>2, <1>4, <2>1, KeysKept
<1>6. /\ next' \in [Node -> Node \union {NULL}] /\ prev' \in [Node -> Node \union {NULL}]
      /\ RingsOK(R)'
  <2>1. Heads = Placed /\ Heads' = Placed
    BY <1>2, <1>4 DEF Heads
  <2>2. \A a, b \in Heads' : key[a] = key[b] => a = b
    BY <1>1, <1>2, <2>1 DEF RingsOK
  <2>3. /\ next[n0] # n0 /\ LeaveRing(n0) /\ linked' = linked \ {n0}
        /\ UNCHANGED key /\ pc' = "idle"
    BY <1>2, <1>3
  <2>4. Heads \ {n0} \subseteq Heads' /\ n0 \notin Heads
    BY <1>3, <2>1
  <2> QED BY <1>1, <1>3, <2>2, <2>3, <2>4, LeftRing
<1>7. TypeOK'
  <2>1. 0 \in 0..KeyBits
    BY <1>1
  <2> QED BY <1>1, <1>2, <1>6, <2>1 DEF TypeOK, SlotSet, RootSlot
<1>8. CallOK(D, X)'
  BY <1>2 DEF CallOK
<1> QED BY <1>4, <1>5, <1>6, <1>7, <1>8 DEF Inv

\* The first of a ring gives its place to the next.
LEMMA RemovePrimaryStep ==
    ASSUME NEW D, NEW X, NEW R, Inv(D, X, R), RemovePrimary
    PROVE  \E D2, X2 : Inv(D2, X2, R)'
<1>1. /\ TypeOK /\ LinksOK /\ PlacesOK(D, X) /\ KeysOK(D, X) /\ RingsOK(R) /\ CallOK(D, X)
      /\ KeyBits \in Nat /\ D \in [Node -> 0..KeyBits] /\ X \in [Node -> Nat]
      /\ \A n \in Node : key[n] \in Nat
  BY Values DEF Inv
<1>2. /\ pc = "remove" /\ next[node] # node /\ selfPtr[node] # NULL
      /\ ReplaceNode(node, next[node], FALSE)
      /\ LeaveRing(node) /\ linked' = linked \ {node} /\ UNCHANGED key
      /\ pc' = "idle" /\ new' = NULL /\ node' = NULL /\ slot' = RootSlot /\ bit' = 0
  BY DEF RemovePrimary, Alone, Removed, Finish
<1>3. PICK n0 \in Placed : n0 = node /\ n0 \in linked /\ n0 \in Node
  BY <1>1, <1>2, Types DEF CallOK, Placed
<1>4. Heads = Placed
  BY <1>2 DEF Heads
<1>5. \A a, b \in Placed : key[a] = key[b] => a = b
  BY <1>1, <1>2, <1>4 DEF RingsOK
<1>6. PICK q \in linked \ Placed : q = next[n0] /\ q \in Node /\ q # n0 /\ key[q] = key[n0]
  <2>1. next[n0] \in linked /\ key[next[n0]] = key[n0] /\ next[n0] # n0
    BY <1>1, <1>2, <1>3 DEF RingsOK
  <2> QED BY <1>1, <1>3, <1>5, <2>1, Types
<1>7. /\ ReplaceNode(n0, q, FALSE) /\ LeaveRing(n0) /\ linked' = linked \ {n0}
      /\ next[n0] # n0 /\ pc' = "idle" /\ UNCHANGED key
  BY <1>2, <1>3, <1>6
<1> DEFINE D2 == [D EXCEPT ![q] = D[n0]]
           X2 == [X EXCEPT ![q] = X[n0]]
<1>8. /\ root' \in Node \union {NULL}
      /\ child' \in [Node -> [Side -> Node \union {NULL}]]
      /\ parent' \in [Node -> Node \union {NULL}]
      /\ selfPtr' \in [Node -> SlotSet \union {NULL}]
      /\ Placed' = (Placed \ {n0}) \union {q}
      /\ LinksOK' /\ parent'[q] = parent[n0]
  BY <1>1, <1>7, Replaced
<1>9. PlacesOK(D2, X2)'
  BY <1>1, <1>7, Replaced
<1>10. \A m \in Placed \ {n0} : /\ parent[m] = n0 => parent'[m] = q
                                /\ parent[m] # n0 => parent'[m] = parent[m]
  <2>1. TypeOK /\ LinksOK /\ ReplaceNode(n0, q, FALSE)
    BY <1>1, <1>7
  <2> QED BY <2>1, ReplacedParent
<1>11. /\ D2[q] = D[n0] /\ X2[q] = X[n0]
       /\ \A m \in Node \ {q} : D2[m] = D[m] /\ X2[m] = X[m]
  BY <1>1, <1>6
<1> HIDE DEF D2, X2
<1>12. ASSUME NEW m \in Placed
       PROVE  /\ Prefix(key[m], D[m]) = X[m]
              /\ parent[m] # NULL => parent[m] \in Placed /\ key[parent[m]] < key[m]
  <2>1. \A n \in Node : ~Pushed(n)
    BY <1>3, <1>7 DEF Pushed, Alone
  <2>2. parent[m] # NULL => parent[m] \in Placed
    BY <1>1, NotOwnParent
  <2> QED BY <1>1, <2>1, <2>2, Types DEF KeysOK
<1>13. KeysOK(D2, X2)'
  <2>1. ASSUME NEW m \in Placed' PROVE Prefix(key[m], D2[m]) = X2[m]
    <3>1. CASE m = q
      BY <1>6, <1>11, <1>12, <3>1
    <3>2. CASE m # q
      <4>1. m \in Placed /\ m \in Node
        BY <1>1, <1>8, <3>2, Types
      <4> QED BY <1>11, <1>12, <3>2, <4>1
    <3> QED BY <3>1, <3>2
  <2>2. ASSUME NEW m \in Placed', parent'[m] # NULL PROVE key[parent'[m]] < key[m]
    <3>1. CASE m = q
      BY <1>6, <1>8, <1>12, <2>2, <3>1
    <3>2. CASE m # q
      <4>1. m \in Placed \ {n0} /\ m \in Node /\ n0 # NULL
        BY <1>1, <1>3, <1>8, <3>2, Types
      <4>2. CASE parent[m] = n0
        <5>1. key[n0] < key[m]
          BY <1>12, <4>1, <4>2
        <5>2. parent'[m] = q
          BY <1>10, <4>1, <4>2
        <5> QED BY <1>6, <5>1, <5>2
      <4>3. CASE parent[m] # n0
        BY <1>10, <1>12, <2>2, <4>1, <4>3
      <4> QED BY <4>2, <4>3
    <3> QED BY <3>1, <3>2
  <2> QED BY <1>2, <2>1, <2>2 DEF KeysOK, Pushed
<1>14. /\ next' \in [Node -> Node \union {NULL}] /\ prev' \in [Node -> Node \union {NULL}]
       /\ RingsOK(R)'
  <2>1. Heads' = (Placed \ {n0}) \union {q}
    BY <1>2, <1>8 DEF Heads
  <2>2. \A a, b \in Heads' : key[a] = key[b] => a = b
    BY <1>5, <1>6, <2>1
  <2>3. Heads \ {n0} \subseteq Heads' /\ next[n0] \in Heads'
    BY <1>4, <1>6, <2>1
  <2> QED BY <1>1, <1>3, <1>7, <2>2, <2>3, LeftRing
<1>15. TypeOK'
  <2>1. 0 \in 0..KeyBits
    BY <1>1
  <2> QED BY <1>1, <1>2, <1>8, <1>14, <2>1 DEF TypeOK, SlotSet, RootSlot
<1>16. CallOK(D2, X2)'
  BY <1>2 DEF CallOK
<1> QED BY <1>8, <1>9, <1>13, <1>14, <1>15, <1>16 DEF Inv

\* A node on its way out changes places with its smaller child.
LEMMA RemovePushDownStep ==
    ASSUME NEW D, NEW X, NEW R, Inv(D, X, R), RemovePushDown
    PROVE  \E D2, X2 : Inv(D2, X2, R)'
<1>1. /\ TypeOK /\ LinksOK /\ PlacesOK(D, X) /\ KeysOK(D, X) /\ RingsOK(R) /\ CallOK(D, X)
      /\ KeyBits \in Nat /\ D \in [Node -> 0..KeyBits] /\ X \in [Node -> Nat]
      /\ R \in [Node -> Nat] /\ \A n \in Node : key[n] \in Nat
  BY Values DEF Inv
<1>2. /\ pc = "remove" /\ next[node] = node /\ SmallerChild(node) # NULL
      /\ SwapParentWithChild(node, SmallerChild(node))
      /\ UNCHANGED <<next, prev, key, linked, pc, new, node, slot, bit>>
  BY DEF RemovePushDown, Alone, callVars
<1>3. PICK p \in Placed : p = node /\ p \in linked /\ p \in Node
  <2>1. node \in linked /\ node \in Node
    BY <1>1, <1>2, Types DEF CallOK
  <2>2. ~(R[node] < R[node])
    BY <1>1, <2>1
  <2>3. node \in Heads
    BY <1>1, <1>2, <2>1, <2>2 DEF RingsOK
  <2> QED BY <1>2, <2>1, <2>3 DEF Heads
<1>4. PICK side \in Side, c \in Placed :
          /\ c = SmallerChild(p) /\ c = child[p][side] /\ c # NULL /\ c \in Node
          /\ side = 1 => child[p][0] = NULL
          /\ parent[c] = p /\ selfPtr[c] = <<p, side>>
  <2>1. PICK side \in Side : /\ SmallerChild(p) = child[p][side] /\ child[p][side] # NULL
                             /\ side = 1 => child[p][0] = NULL
    BY <1>2, <1>3 DEF SmallerChild, Side
  <2>2. \A i \in Side : child[p][i] # NULL =>
            child[p][i] \in Placed /\ selfPtr[child[p][i]] = <<p, i>> /\ parent[child[p][i]] = p
    BY <1>1, Children
  <2> QED BY <1>1, <2>1, <2>2, Types
<1>5. SwapParentWithChild(p, c) /\ linked' = linked
  BY <1>2, <1>3, <1>4
<1> DEFINE D2 == [D EXCEPT ![p] = D[c], ![c] = D[p]]
           X2 == [X EXCEPT ![p] = X[c], ![c] = X[p]]
<1>6. /\ root' \in Node \union {NULL}
      /\ child' \in [Node -> [Side -> Node \union {NULL}]]
      /\ parent' \in [Node -> Node \union {NULL}]
      /\ selfPtr' \in [Node -> SlotSet \union {NULL}]
      /\ Placed' = Placed /\ LinksOK' /\ parent'[p] = c /\ parent'[c] = parent[p]
  BY <1>1, <1>4, <1>5, Swapped
<1>7. PlacesOK(D2, X2)'
  BY <1>1, <1>4, <1>5, Swapped
<1>8. \A m \in Placed \ {p, c} :
          /\ parent[m] = p => parent'[m] = c
          /\ parent[m] = c => parent'[m] = p
          /\ parent[m] \notin {p, c} => parent'[m] = parent[m]
  <2>1. TypeOK /\ LinksOK /\ SwapParentWithChild(p, c) /\ parent[c] = p
    BY <1>1, <1>4, <1>5
  <2> QED BY <2>1, SwappedParent
<1>9. /\ parent[p] # p /\ parent[p] # c /\ p # c
      /\ \A m \in Placed : parent[m] # m /\ parent[m] \in Placed \union {NULL}
  <2>1. \A m \in Placed : parent[m] # m /\ parent[m] \in Placed \union {NULL}
    BY <1>1, NotOwnParent
  <2>2. D[c] = D[p] + 1 /\ (parent[p] # NULL => D[p] = D[parent[p]] + 1)
    BY <1>1, <1>3, <1>4, NotOwnParent, Types
  <2>3. D[c] \in Nat /\ D[p] \in Nat
    BY <1>1, <1>3, <1>4
  <2> QED BY <1>4, <2>1, <2>2, <2>3
<1>10. /\ D2[p] = D[c] /\ X2[p] = X[c] /\ D2[c] = D[p] /\ X2[c] = X[p]
       /\ \A m \in Node \ {p, c} : D2[m] = D[m] /\ X2[m] = X[m]
  BY <1>1, <1>3, <1>4, <1>9
<1> HIDE DEF D2, X2
<1>11. \A m \in Node : Pushed(m) <=> m = p
  BY <1>2, <1>3 DEF Pushed, Alone
<1>12. TypeOK'
  BY <1>1, <1>2, <1>6 DEF TypeOK, SlotSet, RootSlot
<1>13. \A m \in Placed \ {p} : Prefix(key[m], D[m]) = X[m]
  BY <1>1, <1>11, Types DEF KeysOK
<1>14. ASSUME NEW m \in Placed \ {p}, parent[m] # NULL, parent[m] # p
       PROVE  key[parent[m]] < key[m]
  <2>1. parent[m] \in Node /\ m \in Node
    BY <1>1, <1>9, <1>14, Types
  <2> QED BY <1>1, <1>11, <1>14, <2>1 DEF KeysOK
<1>15. ASSUME NEW m \in Placed, parent[m] = p
       PROVE  /\ \E i \in Side : D[m] = D[p] + 1 /\ X[m] = 2 * X[p] + i /\ child[p][i] = m
              /\ m # p /\ m \in Node
  <2>1. PICK i \in Side : selfPtr[m] = <<p, i>> /\ child[p][i] = m
    BY <1>1, <1>15, Children
  <2>2. <<p, i>> # RootSlot
    BY <1>3, NodeAssumption DEF RootSlot
  <2>3. PICK t : t = selfPtr[m] /\ t[1] = p /\ t[2] = i /\ t # RootSlot
    BY <2>1, <2>2
  <2>4. D[m] = DepthOf(t, D) /\ X[m] = PathOf(t, X)
    BY <1>1, <2>3 DEF PlacesOK
  <2>5. D[m] = D[p] + 1 /\ X[m] = 2 * X[p] + i
    BY <2>3, <2>4 DEF DepthOf, PathOf
  <2> QED BY <1>1, <1>9, <1>15, <2>1, <2>5, Types
<1>16. Prefix(key[c], D[p]) = X[p]
  <2>1. PICK i \in {0, 1}, d \in 0..KeyBits :
            d = D[p] /\ D[c] = d + 1 /\ X[c] = 2 * X[p] + i
    BY <1>1, <1>3, <1>4, <1>15 DEF Side
  <2>2. d # KeyBits /\ key[c] \in Key /\ X[p] \in Nat
    <3>1. D[c] \in 0..KeyBits
      BY <1>1, <1>4
    <3> QED BY <1>1, <1>3, <1>4, <2>1, <3>1, Types
  <2>3. Prefix(key[c], d + 1) = X[c]
    BY <1>4, <1>9, <1>13, <2>1
  <2>4. PICK b \in {0, 1}, x \in Nat : x = Prefix(key[c], d) /\ Prefix(key[c], d + 1) = 2 * x + b
    BY <2>2, PrefixNext DEF Side
  <2> QED BY <2>1, <2>2, <2>3, <2>4
<1>17. ASSUME NEW m \in Placed, m # c, parent[m] = p PROVE key[c] < key[m]
  <2>1. PICK i \in Side : D[m] = D[p] + 1 /\ X[m] = 2 * X[p] + i /\ child[p][i] = m
    BY <1>15, <1>17
  <2>2. PICK j \in Side : D[c] = D[p] + 1 /\ X[c] = 2 * X[p] + j /\ child[p][j] = c
    BY <1>4, <1>15
  <2>3. m # p /\ m \in Node /\ m # NULL
    BY <1>1, <1>15, <1>17, Types
  <2>4. i = 1 /\ j = 0
    BY <1>4, <1>17, <2>1, <2>2, <2>3 DEF Side
  <2>5. X[p] \in Nat /\ X[c] < X[m]
    BY <1>1, <1>3, <2>1, <2>2, <2>4
  <2>6. PICK d \in 0..KeyBits : d = D[c] /\ D[m] = d
    BY <1>1, <1>4, <2>1, <2>2
  <2>7. Prefix(key[c], d) = X[c] /\ Prefix(key[m], d) = X[m]
    BY <1>4, <1>9, <1>13, <2>3, <2>6
  <2>8. key[c] \in Key /\ key[m] \in Key
    BY <1>1, <1>4, <2>3, Types
  <2> QED BY <2>5, <2>7, <2>8, PrefixOrder
<1>18. KeysOK(D2, X2)'
  <2>1. ASSUME NEW m \in Placed, m # p PROVE Prefix(key[m], D2[m]) = X2[m]
    <3>1. CASE m = c
      BY <1>10, <1>16, <3>1
    <3>2. CASE m # c
      BY <1>1, <1>10, <1>13, <2>1, <3>2, Types
    <3> QED BY <3>1, <3>2
  <2>2. ASSUME NEW m \in Placed, m # p, parent'[m] # NULL, parent'[m] # p
        PROVE  key[parent'[m]] < key[m]
    <3>1. CASE m = c
      <4>1. parent'[m] = parent[p] /\ parent[p] = parent[parent[c]]
        BY <1>4, <1>6, <3>1
      <4>2. Pushed(p) /\ p # NULL
        BY <1>1, <1>3, <1>11, Types
      <4>3. parent[c] = p /\ parent[p] # NULL
        BY <1>4, <2>2, <4>1
      <4>4. key[parent[p]] < key[c]
        BY <1>1, <4>2, <4>3 DEF KeysOK
      <4> QED BY <3>1, <4>1, <4>4
    <3>2. CASE m # c /\ parent[m] = p
      <4>1. parent'[m] = c
        BY <1>8, <2>2, <3>2
      <4> QED BY <1>17, <3>2, <4>1
    <3>3. CASE m # c /\ parent[m] # p
      <4>1. parent'[m] = parent[m]
        BY <1>8, <2>2, <3>3
      <4> QED BY <1>14, <2>2, <3>3, <4>1
    <3> QED BY <3>1, <3>2, <3>3
  <2>3. ASSUME NEW m \in Placed, parent'[m] = p PROVE key[c] < key[m]
    <3>1. m # p /\ m # c
      BY <1>6, <1>9, <2>3
    <3>2. parent[m] = c
      BY <1>8, <1>9, <2>3, <3>1
    <3> QED BY <1>4, <1>9, <1>14, <3>1, <3>2
  <2>4. \A m \in Node : Pushed(m)' <=> m = p
    BY <1>2, <1>3 DEF Pushed, Alone
  <2>5. \A m \in Placed : m \in Node /\ (parent'[m] # NULL => parent'[m] \in Node)
    BY <1>1, <1>6, Types
  <2> QED BY <1>2, <1>6, <2>1, <2>2, <2>3, <2>4, <2>5 DEF KeysOK
<1>19. RingsOK(R)'
  <2>1. Heads' = Heads
    BY <1>2, <1>6 DEF Heads
  <2> QED BY <1>1, <1>2, <2>1 DEF RingsOK
<1>20. CallOK(D2, X2)'
  BY <1>2, <1>3 DEF CallOK
<1> QED BY <1>6, <1>7, <1>12, <1>18, <1>19, <1>20 DEF Inv

\* The steps together: each has its own witnesses for the depths, paths and ranks.
LEMMA NextInv == IInv /\ [Next]_vars => IInv'
<1> SUFFICES ASSUME IInv, [Next]_vars PROVE IInv'
  OBVIOUS
<1>1. PICK D, X, R : Inv(D, X, R)
  BY DEF IInv
<1>2. ASSUME NEW n \in Node, NEW k \in Key, BeginInsert(n, k) PROVE IInv'
  BY <1>1, <1>2, BeginInsertStep DEF IInv
<1>3. ASSUME NEW cur \in Node, InsertPass(cur) PROVE IInv'
  BY <1>1, <1>3, InsertPassStep DEF IInv
<1>4. ASSUME NEW cur \in Node, InsertSwap(cur) PROVE IInv'
  BY <1>1, <1>4, InsertSwapStep DEF IInv
<1>5. ASSUME NEW cur \in Node, InsertDuplicate(cur) PROVE IInv'
  BY <1>1, <1>5, InsertDuplicateStep DEF IInv
<1>6. CASE InsertLink
  BY <1>1, <1>6, InsertLinkStep DEF IInv
<1>7. ASSUME NEW n \in linked, BeginRemove(n) PROVE IInv'
  BY <1>1, <1>7, BeginRemoveStep DEF IInv
<1>8. CASE RemoveLeaf
  BY <1>1, <1>8, RemoveLeafStep DEF IInv
<1>9. CASE RemovePushDown
  BY <1>1, <1>9, RemovePushDownStep DEF IInv
<1>10. CASE RemovePrimary
  BY <1>1, <1>10, RemovePrimaryStep DEF IInv
<1>11. CASE RemoveDuplicate
  BY <1>1, <1>11, RemoveDuplicateStep DEF IInv
<1>12. CASE UNCHANGED vars
  BY <1>1, <1>12, InvKept DEF IInv
<1> QED
  BY <1>2, <1>3, <1>4, <1>5, <1>6, <1>7, <1>8, <1>9, <1>10, <1>11, <1>12 DEF Next

\* The invariant holds throughout.
LEMMA Invariance == Spec => []IInv
  BY InitInv, NextInv, PTL DEF Spec

-----------------------------------------------------------------------------
(* What follows from the invariant.                                         *)

\* Every field holds what its C type and use allow: links to nodes, slots of the
\* caller's nodes or the root, and a key bit within the key.
THEOREM TypeCorrect == Spec => []TypeOK
<1>1. IInv => TypeOK
  BY DEF IInv, Inv
<1> QED BY <1>1, Invariance, PTL

\* No assertion of radix.c fails: an insert never runs out of key bits, the node that
\* takes another's place has no links of its own, and a node pushed down is
\* swapped with its own child.
THEOREM AssertionsNeverFail == Spec => []AssertionsHold
<1>1. IInv => AssertionsHold
  <2> SUFFICES ASSUME IInv PROVE AssertionsHold
    OBVIOUS
  <2>1. PICK D, X, R : Inv(D, X, R)
    BY DEF IInv
  <2>2. /\ TypeOK /\ LinksOK /\ PlacesOK(D, X) /\ KeysOK(D, X) /\ RingsOK(R) /\ CallOK(D, X)
        /\ KeyBits \in Nat /\ R \in [Node -> Nat]
    BY <2>1, Values DEF Inv
  <2>3. ASSUME NEW cur \in Node, Meets(cur)
        PROVE  bit > 0 /\ (key[node] < key[cur] => Unlinked(node))
    <3>1. /\ node \in linked \ Placed /\ D[cur] \in 0..KeyBits /\ D[cur] # KeyBits
          /\ bit = KeyBits - D[cur]
      BY <2>1, <2>3, MetNode
    <3>2. bit > 0
      BY <2>2, <3>1
    <3> QED BY <2>2, <3>1, <3>2 DEF LinksOK
  <2>4. ASSUME pc = "remove", ~Alone(node), selfPtr[node] # NULL
        PROVE  Unlinked(next[node])
    <3>1. node \in Placed /\ node \in linked /\ Heads = Placed
      BY <2>2, <2>4 DEF CallOK, Placed, Heads
    <3>2. next[node] \in linked /\ key[next[node]] = key[node] /\ next[node] # node
      BY <2>2, <2>4, <3>1 DEF RingsOK, Alone
    <3>3. next[node] \notin Placed
      BY <2>2, <2>4, <3>1, <3>2 DEF RingsOK
    <3> QED BY <2>2, <3>2, <3>3 DEF LinksOK
  <2>5. ASSUME pc = "remove", Alone(node), SmallerChild(node) # NULL
        PROVE  parent[SmallerChild(node)] = node
    <3>1. node \in linked /\ node \in Node
      BY <2>2, <2>5, Types DEF CallOK
    <3>2. ~(R[node] < R[node])
      BY <2>2, <3>1
    <3>3. node \in Placed
      BY <2>2, <2>5, <3>1, <3>2 DEF RingsOK, Alone, Heads
    <3>4. PICK side \in Side : SmallerChild(node) = child[node][side]
      BY DEF SmallerChild, Side
    <3> QED BY <2>2, <2>5, <3>3, <3>4, Children
  <2> QED BY <2>3, <2>4, <2>5 DEF AssertionsHold
<1> QED BY <1>1, Invariance, PTL

\* The children of the nodes of a layer, and what it is to be the trie's layers.
Kids(S) == {child[n][i] : n \in S, i \in Side}
Layers(F) == F = [d \in 0..KeyBits |-> (IF d = 0 THEN {root} ELSE Kids(F[d - 1])) \ {NULL}]

\* AtDepth is the trie's layers where there are any.
LEMMA AtDepthLayers ==
    ASSUME NEW F, Layers(F)
    PROVE  \A d \in 0..KeyBits :
              AtDepth[d] = (IF d = 0 THEN {root} ELSE Kids(AtDepth[d - 1])) \ {NULL}
<1>1. AtDepth = CHOOSE f : Layers(f)
  BY DEF AtDepth, Layers, Kids
<1>2. Layers(CHOOSE f : Layers(f))
  OBVIOUS
<1>3. Layers(AtDepth)
  BY <1>1, <1>2
<1> QED BY <1>3 DEF Layers

\* The nodes that are D[n] deep are the layers.
LEMMA DepthsAreLayers ==
    ASSUME NEW D, NEW X, TypeOK, LinksOK, PlacesOK(D, X)
    PROVE  Layers([d \in 0..KeyBits |-> {n \in Placed : D[n] = d}])
<1> DEFINE F == [d \in 0..KeyBits |-> {n \in Placed : D[n] = d}]
<1>1. KeyBits \in Nat /\ D \in [Node -> 0..KeyBits] /\ Placed \subseteq Node /\ NULL \notin Node
  BY KeyBitsAssumption, Types DEF PlacesOK
<1>2. F[0] = {root} \ {NULL}
  <2>1. ASSUME NEW n \in Placed, D[n] = 0 PROVE n = root
    <3>1. parent[n] = NULL
      <4> SUFFICES ASSUME parent[n] # NULL PROVE FALSE
        OBVIOUS
      <4>1. parent[n] \in Placed /\ D[n] = D[parent[n]] + 1
        BY NotOwnParent
      <4>2. D[parent[n]] \in 0..KeyBits
        BY <1>1, <4>1
      <4> QED BY <2>1, <4>1, <4>2
    <3>2. selfPtr[n] = RootSlot
      BY <3>1, NotOwnParent
    <3> QED BY <3>2 DEF LinksOK, At
  <2>2. root # NULL => root \in Placed /\ D[root] = 0
    <3>1. RootSlot \in Slots /\ At(RootSlot) = root
      BY DEF Slots, At
    <3> QED BY <3>1, InSlot DEF DepthOf
  <2>3. 0 \in 0..KeyBits
    BY <1>1
  <2> QED BY <1>1, <2>1, <2>2, <2>3
<1>3. ASSUME NEW d \in 0..KeyBits, d # 0 PROVE F[d] = Kids(F[d - 1]) \ {NULL}
  <2>1. d - 1 \in 0..KeyBits
    BY <1>1, <1>3
  <2>2. ASSUME NEW n \in Placed, D[n] = d PROVE n \in Kids(F[d - 1])
    <3>1. PICK p \in Placed : p = parent[n] /\ D[n] = D[p] + 1
      BY <1>3, <2>2, Above
    <3>2. PICK i \in Side : child[p][i] = n
      BY <3>1, Children
    <3>3. D[p] = d - 1
      BY <1>1, <2>2, <3>1
    <3> QED BY <2>1, <3>2, <3>3 DEF Kids
  <2>3. ASSUME NEW n \in Kids(F[d - 1]), n # NULL PROVE n \in Placed /\ D[n] = d
    <3>1. PICK p \in F[d - 1], i \in Side : n = child[p][i]
      BY <2>3 DEF Kids
    <3>2. p \in Placed /\ D[p] = d - 1
      BY <2>1, <3>1
    <3>3. n \in Placed /\ parent[n] = p
      BY <2>3, <3>1, <3>2, Children
    <3>4. D[n] = D[p] + 1
      BY <1>1, <3>2, <3>3, NotOwnParent
    <3> QED BY <1>1, <3>2, <3>3, <3>4
  <2> QED BY <1>1, <2>2, <2>3
<1>4. F = [d \in 0..KeyBits |-> F[d]]
  OBVIOUS
<1> HIDE DEF F
<1>5. Layers(F)
  BY <1>2, <1>3, <1>4 DEF Layers
<1> QED BY <1>5 DEF F

\* The layers are the nodes as deep as they are.
LEMMA LayersAreDepths ==
    ASSUME NEW D, NEW X, TypeOK, LinksOK, PlacesOK(D, X), NEW e \in 0..KeyBits
    PROVE  AtDepth[e] = {n \in Placed : D[n] = e}
<1> DEFINE F == [d \in 0..KeyBits |-> {n \in Placed : D[n] = d}]
           Bad == {d \in 0..KeyBits : AtDepth[d] # F[d]}
<1>1. KeyBits \in Nat
  BY KeyBitsAssumption
<1>2. Layers(F)
  BY DepthsAreLayers
<1>3. \A d \in 0..KeyBits :
          AtDepth[d] = (IF d = 0 THEN {root} ELSE Kids(AtDepth[d - 1])) \ {NULL}
  BY <1>2, AtDepthLayers
<1>4. F[e] = {n \in Placed : D[n] = e}
  OBVIOUS
<1> HIDE DEF F
<1>5. \A d \in 0..KeyBits : F[d] = (IF d = 0 THEN {root} ELSE Kids(F[d - 1])) \ {NULL}
  BY <1>2 DEF Layers
<1>6. Bad = {}
  <2> SUFFICES ASSUME Bad # {} PROVE FALSE
    OBVIOUS
  <2>1. Bad \in SUBSET Nat
    BY <1>1
  <2>2. PICK d \in Bad : \A k \in Bad : d <= k
    BY <2>1, LeastOfNaturals
  <2>3. d \in 0..KeyBits /\ AtDepth[d] # F[d]
    OBVIOUS
  <2>4. d # 0
    BY <1>3, <1>5, <2>3
  <2>5. d - 1 \in 0..KeyBits /\ ~(d <= d - 1)
    BY <1>1, <2>3, <2>4
  <2>6. AtDepth[d - 1] = F[d - 1]
    BY <2>2, <2>5
  <2> QED BY <1>3, <1>5, <2>3, <2>4, <2>6
<1> QED BY <1>4, <1>6

\* Whatever was inserted and removed, and whichever nodes were swapped on the way, the
\* trie is linked both ways, no path is longer than the key, and every node
\* lies under the bits of its key and below a smaller key, but for the one a
\* remove is pushing down.
THEOREM TrieStaysWellFormed == Spec => []TrieWellFormed
<1>1. IInv => TrieWellFormed
  <2> SUFFICES ASSUME IInv PROVE TrieWellFormed
    OBVIOUS
  <2>1. PICK D, X, R : Inv(D, X, R)
    BY DEF IInv
  <2>2. /\ TypeOK /\ LinksOK /\ PlacesOK(D, X) /\ KeysOK(D, X)
        /\ KeyBits \in Nat /\ D \in [Node -> 0..KeyBits] /\ X \in [Node -> Nat]
    BY <2>1, Values DEF Inv
  <2>3. ASSUME NEW d \in 0..KeyBits, NEW n \in AtDepth[d]
        PROVE  /\ n \in Placed /\ D[n] = d
               /\ At(selfPtr[n]) = n /\ parent[n] = selfPtr[n][1]
    <3>1. n \in Placed /\ D[n] = d
      BY <2>2, LayersAreDepths
    <3> QED BY <2>2, <3>1 DEF LinksOK
  <2>4. ASSUME NEW d \in 0..KeyBits, NEW n \in AtDepth[d], NEW i \in Side, NEW c,
               c = child[n][i], c # NULL
        PROVE  /\ d < KeyBits
               /\ \/ pc = "remove" /\ node \in {n, c}
                  \/ /\ key[n] < key[c]
                     /\ key[c] \div (2 ^ (KeyBits - d - 1))
                          = 2 * (key[n] \div (2 * 2 ^ (KeyBits - d - 1))) + i
    <3>1. n \in Placed /\ D[n] = d /\ n \in Node /\ n # NULL
      BY <2>2, <2>3, Types
    <3>2. c \in Placed /\ selfPtr[c] = <<n, i>> /\ parent[c] = n /\ c \in Node
      BY <2>2, <2>4, <3>1, Children, Types
    <3>3. D[c] = d + 1 /\ X[c] = 2 * X[n] + i
      <4>1. PICK t : t = selfPtr[c] /\ t[1] = n /\ t[2] = i /\ t # RootSlot
        BY <3>1, <3>2, NodeAssumption DEF RootSlot
      <4>2. D[c] = DepthOf(t, D) /\ X[c] = PathOf(t, X)
        BY <2>2, <3>2, <4>1 DEF PlacesOK
      <4> QED BY <3>1, <4>1, <4>2 DEF DepthOf, PathOf
    <3>4. d < KeyBits
      <4>1. D[c] \in 0..KeyBits
        BY <2>2, <3>2
      <4> QED BY <2>2, <3>3, <4>1
    <3>5. ASSUME ~Pushed(n), ~Pushed(c)
          PROVE  /\ key[n] < key[c]
                 /\ key[c] \div (2 ^ (KeyBits - d - 1))
                      = 2 * (key[n] \div (2 * 2 ^ (KeyBits - d - 1))) + i
      <4>1. key[n] < key[c]
        BY <2>2, <3>1, <3>2, <3>5 DEF KeysOK
      <4>2. Prefix(key[c], d + 1) = 2 * Prefix(key[n], d) + i
        BY <2>2, <3>1, <3>2, <3>3, <3>5 DEF KeysOK
      <4>3. PICK b \in 0..KeyBits : b = KeyBits - d - 1 /\ b = KeyBits - (d + 1) /\ b + 1 = KeyBits - d
        BY <2>2, <3>4
      <4>4. 2 ^ (b + 1) = 2 * 2 ^ b
        BY <4>3, KeyBitsAssumption
      <4>5. Prefix(key[c], d + 1) = key[c] \div (2 ^ b)
        BY <4>3 DEF Prefix
      <4>6. Prefix(key[n], d) = key[n] \div (2 * 2 ^ b)
        BY <4>3, <4>4 DEF Prefix
      <4> QED BY <4>1, <4>2, <4>3, <4>5, <4>6
    <3> QED BY <3>4, <3>5 DEF Pushed
  <2> QED BY <2>3, <2>4 DEF TrieWellFormed
<1> QED BY <1>1, Invariance, PTL

-----------------------------------------------------------------------------
(* Rings and queues.                                                        *)

\* The primaries, and the nodes that are in a queue: all that are linked but the
\* one an insert still carries.
First == Placed \union (IF pc = "insert" /\ node # new THEN {node} ELSE {})
Queued == {n \in linked : ~(pc = "insert" /\ node = new /\ n = new)}

\* The rings close among the queued nodes, each with one primary, which is where the
\* rank R starts again.
QueuesOK(R) ==
    /\ R \in [Node -> Nat]
    /\ First \subseteq Queued /\ Queued \subseteq Node
    /\ \A n \in Queued : /\ next[n] \in Queued /\ prev[n] \in Queued
                         /\ prev[next[n]] = n /\ next[prev[n]] = n
                         /\ key[next[n]] = key[n] /\ key[n] \in Key
                         /\ next[n] \in First \/ R[n] < R[next[n]]
    /\ \A n, m \in First : key[n] = key[m] => n = m

\* The invariant has them so, within calls too.
LEMMA Queuing ==
    ASSUME NEW D, NEW X, NEW R, Inv(D, X, R)
    PROVE  QueuesOK(R)
<1>1. TypeOK /\ RingsOK(R) /\ CallOK(D, X)
  BY DEF Inv
<1>2. Placed \subseteq linked /\ linked \subseteq Node /\ \A n \in Node : key[n] \in Key
  BY <1>1, Types DEF Placed
<1>3. First \subseteq Queued
  BY <1>1, <1>2 DEF First, Queued, CallOK
<1>4. First \subseteq Heads /\ \A n \in Heads : n \in First \/ n \notin Queued
  BY DEF First, Heads, Queued
<1>5. \A n, m \in First : key[n] = key[m] => n = m
  BY <1>1, <1>3, <1>4 DEF RingsOK, Queued
<1>6. ASSUME NEW n \in Queued
      PROVE  next[n] \in Queued /\ prev[n] \in Queued
  <2>1. /\ n \in linked /\ next[n] \in linked /\ prev[n] \in linked
        /\ prev[next[n]] = n /\ next[prev[n]] = n
    BY <1>1 DEF RingsOK, Queued
  <2>2. ASSUME pc = "insert", node = new PROVE next[new] = new /\ prev[new] = new
    <3>1. next[new] = new /\ new \in linked
      BY <1>1, <2>2 DEF CallOK
    <3> QED BY <1>1, <3>1 DEF RingsOK
  <2> QED BY <2>1, <2>2 DEF Queued
<1>7. ASSUME NEW n \in Queued
      PROVE  /\ prev[next[n]] = n /\ next[prev[n]] = n /\ key[next[n]] = key[n] /\ key[n] \in Key
             /\ next[n] \in First \/ R[n] < R[next[n]]
  <2>1. n \in linked
    BY DEF Queued
  <2>2. next[n] \in Heads => next[n] \in First
    BY <1>4, <1>6
  <2> QED BY <1>1, <1>2, <2>1, <2>2 DEF RingsOK
<1>8. R \in [Node -> Nat] /\ Queued \subseteq Node
  BY <1>1, <1>2 DEF RingsOK, Queued
<1> QED BY <1>3, <1>5, <1>6, <1>7, <1>8 DEF QueuesOK

\* The first m nodes from p on, none of which closes the ring but maybe the last.
IsChain(p, m, f) ==
    /\ f[1] = p
    /\ \A i \in 1..(m - 1) : f[i + 1] = next[f[i]] /\ f[i + 1] # p

\* The ring of p.
IsRing(p, s) ==
    /\ s \in Seq(Node) /\ Len(s) > 0
    /\ IsChain(p, Len(s), s)
    /\ next[s[Len(s)]] = p

\* The nodes of a chain have one key and differ, so that there are no more of them than
\* nodes.
LEMMA ChainNodes ==
    ASSUME NEW R, QueuesOK(R), NEW p \in First, NEW m \in Nat \ {0}, NEW f, IsChain(p, m, f)
    PROVE  /\ \A i \in 1..m : f[i] \in Queued /\ key[f[i]] = key[p]
           /\ \A i, j \in 1..m : i < j => f[i] # f[j]
<1> DEFINE Good(i) == f[i] \in Queued /\ key[f[i]] = key[p]
           Bad == {i \in 1..m : ~Good(i)}
<1>1. Good(1)
  BY DEF IsChain, QueuesOK
<1>2. ASSUME NEW i \in 1..(m - 1), Good(i) PROVE Good(i + 1)
  BY <1>2 DEF IsChain, QueuesOK
<1> HIDE DEF Good
<1>3. Bad = {}
  <2> SUFFICES ASSUME Bad # {} PROVE FALSE
    OBVIOUS
  <2>1. Bad \in SUBSET Nat
    OBVIOUS
  <2>2. PICK i \in Bad : \A j \in Bad : i <= j
    BY <2>1, LeastOfNaturals
  <2>3. i \in 1..m /\ ~Good(i)
    OBVIOUS
  <2>4. i # 1
    BY <1>1, <2>3
  <2>5. i - 1 \in 1..(m - 1) /\ i - 1 \in 1..m /\ ~(i <= i - 1) /\ (i - 1) + 1 = i
    BY <2>3, <2>4
  <2>6. Good(i - 1)
    BY <2>2, <2>5
  <2> QED BY <1>2, <2>3, <2>5, <2>6
<1>4. \A i \in 1..m : f[i] \in Queued /\ key[f[i]] = key[p]
  BY <1>3 DEF Good
<1>5. ASSUME NEW i \in 1..(m - 1) PROVE R[f[i]] < R[f[i + 1]]
  <2>1. i \in 1..m /\ i + 1 \in 1..m
    OBVIOUS
  <2>2. f[i + 1] = next[f[i]] /\ f[i + 1] # p
    BY DEF IsChain
  <2> QED BY <1>4, <2>1, <2>2 DEF QueuesOK
<1>6. \A i \in 1..m : R[f[i]] \in Nat
  BY <1>4 DEF QueuesOK
<1>7. ASSUME NEW i \in 1..m, NEW j \in 1..m, i < j PROVE R[f[i]] < R[f[j]]
  <2> DEFINE Low == {e \in Nat : e > i /\ e <= m /\ ~(R[f[i]] < R[f[e]])}
  <2>1. Low = {}
    <3> SUFFICES ASSUME Low # {} PROVE FALSE
      OBVIOUS
    <3>1. Low \in SUBSET Nat
      OBVIOUS
    <3>2. PICK e \in Low : \A d \in Low : e <= d
      BY <3>1, LeastOfNaturals
    <3>3. e \in Nat /\ e > i /\ e <= m /\ ~(R[f[i]] < R[f[e]])
      OBVIOUS
    <3>4. /\ e - 1 \in 1..(m - 1) /\ (e - 1) + 1 = e /\ e - 1 \in Nat /\ e - 1 <= m /\ ~(e <= e - 1)
          /\ e - 1 \in 1..m /\ e \in 1..m
      BY <3>3
    <3>5. R[f[e - 1]] < R[f[e]]
      <4>1. R[f[e - 1]] < R[f[(e - 1) + 1]]
        BY <1>5, <3>4
      <4> QED BY <3>4, <4>1
    <3>6. CASE e - 1 = i
      BY <3>3, <3>5, <3>6
    <3>7. CASE e - 1 # i
      <4>1. e - 1 > i
        BY <3>3, <3>7
      <4>2. R[f[i]] < R[f[e - 1]]
        BY <3>2, <3>4, <4>1
      <4>3. R[f[i]] \in Nat /\ R[f[e - 1]] \in Nat /\ R[f[e]] \in Nat
        BY <1>6, <3>4
      <4> QED BY <3>3, <3>5, <4>2, <4>3
    <3> QED BY <3>6, <3>7
  <2>2. j \in Nat /\ j > i /\ j <= m
    BY <1>7
  <2>3. j \notin Low
    BY <2>1
  <2> QED BY <2>2, <2>3
<1>8. ASSUME NEW i \in 1..m, NEW j \in 1..m, i < j PROVE f[i] # f[j]
  BY <1>6, <1>7, <1>8
<1> QED BY <1>4, <1>8

\* A chain of different nodes is not longer than there are nodes.
LEMMA ChainLength ==
    ASSUME NEW R, QueuesOK(R), NEW p \in First, NEW m \in Nat \ {0}, NEW f, IsChain(p, m, f)
    PROVE  m <= Cardinality(Node)
<1>1. PICK g : g = [i \in 1..m |-> f[i]]
  OBVIOUS
<1>2. \A i \in 1..m : f[i] \in Node
  BY ChainNodes DEF QueuesOK
<1>3. ASSUME NEW i \in 1..m, NEW j \in 1..m, g[i] = g[j] PROVE i = j
  <2>1. ~(i < j) /\ ~(j < i)
    BY <1>1, <1>3, ChainNodes
  <2> QED BY <2>1
<1>4. g \in Injection(1..m, Node)
  BY <1>1, <1>2, <1>3 DEF Injection, IsInjective
<1>5. IsFiniteSet(Node)
  BY NodeAssumption
<1>6. Cardinality(1..m) <= Cardinality(Node)
  BY <1>4, <1>5, FS_Injection
<1>7. Cardinality(1..m) = m
  BY FS_Interval
<1> QED BY <1>6, <1>7

\* A ring has one order.
LEMMA RingUnique ==
    ASSUME NEW p, NEW s, NEW t, IsRing(p, s), IsRing(p, t), Len(s) <= Len(t)
    PROVE  s = t
<1>1. /\ s \in [1..Len(s) -> Node] /\ t \in [1..Len(t) -> Node]
      /\ Len(s) \in Nat \ {0} /\ Len(t) \in Nat \ {0}
  BY DEF IsRing
<1>2. PICK a \in Nat \ {0}, b \in Nat \ {0} : a = Len(s) /\ b = Len(t) /\ a <= b
  BY <1>1
<1>3. /\ s[1] = p /\ t[1] = p /\ next[s[a]] = p /\ next[t[b]] = p
      /\ \A i \in 1..(a - 1) : s[i + 1] = next[s[i]]
      /\ \A i \in 1..(b - 1) : t[i + 1] = next[t[i]] /\ t[i + 1] # p
  BY <1>2 DEF IsRing, IsChain
<1> DEFINE Bad == {i \in 1..a : s[i] # t[i]}
<1>4. Bad = {}
  <2> SUFFICES ASSUME Bad # {} PROVE FALSE
    OBVIOUS
  <2>1. Bad \in SUBSET Nat
    OBVIOUS
  <2>2. PICK i \in Bad : \A j \in Bad : i <= j
    BY <2>1, LeastOfNaturals
  <2>3. i \in 1..a /\ s[i] # t[i]
    OBVIOUS
  <2>4. i # 1
    BY <1>3, <2>3
  <2>5. /\ i - 1 \in 1..(a - 1) /\ i - 1 \in 1..(b - 1) /\ i - 1 \in 1..a
        /\ ~(i <= i - 1) /\ (i - 1) + 1 = i
    BY <1>2, <2>3, <2>4
  <2>6. s[i - 1] = t[i - 1]
    BY <2>2, <2>5
  <2>7. s[(i - 1) + 1] = next[s[i - 1]] /\ t[(i - 1) + 1] = next[t[i - 1]]
    BY <1>3, <2>5
  <2> QED BY <2>3, <2>5, <2>6, <2>7
<1>5. a = b
  <2> SUFFICES ASSUME a < b PROVE FALSE
    BY <1>2
  <2>1. a \in 1..(b - 1) /\ a \in 1..a
    BY <1>2
  <2>2. s[a] = t[a]
    BY <1>4, <2>1
  <2> QED BY <1>3, <2>1, <2>2
<1> QED BY <1>1, <1>2, <1>4, <1>5

\* Every queued node is in the ring of the primary with its key.
LEMMA RingNodes ==
    ASSUME NEW R, QueuesOK(R), NEW p \in First, NEW s, IsRing(p, s)
    PROVE  /\ {s[i] : i \in 1..Len(s)} = {n \in Queued : key[n] = key[p]}
           /\ \A i, j \in 1..Len(s) : s[i] = s[j] => i = j
<1>1. Len(s) \in Nat \ {0} /\ IsChain(p, Len(s), s) /\ next[s[Len(s)]] = p
  BY DEF IsRing
<1>2. PICK m \in Nat \ {0} : m = Len(s)
  BY <1>1
<1>3. /\ \A i \in 1..m : s[i] \in Queued /\ key[s[i]] = key[p]
      /\ \A i, j \in 1..m : i < j => s[i] # s[j]
  BY <1>1, <1>2, ChainNodes
<1>4. ASSUME NEW i \in 1..m, NEW j \in 1..m, s[i] = s[j] PROVE i = j
  <2>1. ~(i < j) /\ ~(j < i)
    BY <1>3, <1>4
  <2> QED BY <2>1
<1> DEFINE Out == {n \in Queued : key[n] = key[p] /\ \A i \in 1..m : s[i] # n}
<1>5. Out = {}
  <2> SUFFICES ASSUME Out # {} PROVE FALSE
    OBVIOUS
  <2> DEFINE Ranks == {R[n] : n \in Out}
  <2>1. Ranks \in SUBSET Nat /\ Ranks # {}
    BY DEF QueuesOK
  <2>2. PICK r \in Ranks : \A q \in Ranks : r <= q
    BY <2>1, LeastOfNaturals
  <2>3. PICK n \in Out : \A q \in Out : R[n] <= R[q]
    BY <2>2
  <2>4. n \in Queued /\ key[n] = key[p] /\ \A i \in 1..m : s[i] # n
    OBVIOUS
  <2> HIDE DEF Ranks
  <2>5. PICK q \in Queued : q = prev[n] /\ next[q] = n /\ key[q] = key[p]
    BY <2>4 DEF QueuesOK
  <2>6. n # p
    <3>1. 1 \in 1..m /\ s[1] = p
      BY <1>1, <1>2 DEF IsChain
    <3> QED BY <2>4, <3>1
  <2>7. R[q] < R[n]
    BY <2>4, <2>5, <2>6 DEF QueuesOK
  <2>8. q \notin Out
    <3>1. R[q] \in Nat /\ R[n] \in Nat
      BY <2>4, <2>5 DEF QueuesOK
    <3> HIDE DEF Out
    <3> QED BY <2>3, <2>7, <3>1
  <2>9. PICK i \in 1..m : s[i] = q
    BY <2>5, <2>8
  <2>10. i # m
    BY <1>1, <1>2, <2>5, <2>6, <2>9
  <2>11. i \in 1..(m - 1) /\ i + 1 \in 1..m
    BY <2>10
  <2>12. s[i + 1] = n
    BY <1>1, <1>2, <2>5, <2>9, <2>11 DEF IsChain
  <2> QED BY <2>4, <2>11, <2>12
<1> QED BY <1>2, <1>3, <1>4, <1>5

\* The first n nodes along a ring, as RingOf counts them.
Along(p, n, f) == f = [i \in 1..n |-> IF i = 1 THEN p ELSE next[f[i - 1]]]

\* There is such a count.
LEMMA AlongExists ==
    ASSUME NEW p, NEW n \in Nat
    PROVE  \E f : Along(p, n, f)
<1> DEFINE Bad == {m \in Nat : \A f : ~Along(p, m, f)}
<1>1. Bad = {}
  <2> SUFFICES ASSUME Bad # {} PROVE FALSE
    OBVIOUS
  <2>1. PICK m \in Bad : \A e \in Bad : m <= e
    BY LeastOfNaturals
  <2>2. m # 0
    <3>1. Along(p, 0, [i \in 1..0 |-> p])
      <4>1. \A i \in 1..0 : FALSE
        OBVIOUS
      <4> QED BY <4>1 DEF Along
    <3> QED BY <2>1, <3>1
  <2>3. m - 1 \in Nat /\ m \in Nat /\ m - 1 \notin Bad
    <3>1. m \in Nat /\ m - 1 \in Nat /\ ~(m <= m - 1)
      BY <2>2
    <3> HIDE DEF Bad
    <3> QED BY <2>1, <3>1
  <2>4. PICK f : Along(p, m - 1, f)
    BY <2>3
  <2>5. PICK g : g = [i \in 1..m |-> IF i = 1 THEN p ELSE IF i = m THEN next[f[m - 1]] ELSE f[i]]
    OBVIOUS
  <2>6. ASSUME NEW i \in 1..m
        PROVE  g[i] = IF i = 1 THEN p ELSE next[g[i - 1]]
    <3>1. CASE i = 1
      BY <2>5, <3>1
    <3>2. CASE i # 1
      <4>1. i - 1 \in 1..m /\ i - 1 \in 1..(m - 1) /\ i - 1 # m /\ i - 1 # 0
        BY <2>3, <3>2
      <4>2. g[i - 1] = f[i - 1]
        BY <2>4, <2>5, <4>1 DEF Along
      <4>3. CASE i = m
        BY <2>5, <3>2, <4>2, <4>3
      <4>4. CASE i # m
        <5>1. i \in 1..(m - 1)
          BY <2>3, <4>4
        <5>2. f[i] = next[f[i - 1]]
          BY <2>4, <3>2, <5>1 DEF Along
        <5> QED BY <2>5, <3>2, <4>2, <4>4, <5>2
      <4> QED BY <4>3, <4>4
    <3> QED BY <3>1, <3>2
  <2>7. g = [i \in 1..m |-> g[i]]
    BY <2>5
  <2>8. Along(p, m, g)
    BY <2>6, <2>7 DEF Along
  <2> QED BY <2>1, <2>8
<1> QED BY <1>1

\* RingOf comes round to the primary before it has counted all nodes.
LEMMA RingOfIsRing ==
    ASSUME NEW R, QueuesOK(R), NEW p \in First
    PROVE  IsRing(p, RingOf(p))
<1>1. IsFiniteSet(Node) /\ p \in Node
  BY NodeAssumption DEF QueuesOK
<1>2. PICK n \in Nat \ {0} : n = Cardinality(Node)
  <2>1. Cardinality(Node) \in Nat /\ Cardinality(Node) # 0
    BY <1>1, FS_CardinalityType, FS_EmptySet
  <2> QED BY <2>1
<1> DEFINE A == CHOOSE f : f = [i \in 1..Cardinality(Node) |-> IF i = 1 THEN p ELSE next[f[i - 1]]]
           Last == CHOOSE i \in DOMAIN A :
                       next[A[i]] = p /\ \A j \in 1..(i - 1) : next[A[j]] # p
<1>3. Along(p, n, A)
  <2>1. A = CHOOSE f : Along(p, n, f)
    BY <1>2 DEF Along
  <2> HIDE DEF A
  <2> QED BY <2>1, AlongExists
<1>4. RingOf(p) = [i \in 1..Last |-> A[i]]
  BY DEF RingOf
<1> HIDE DEF A
<1>5. A[1] = p /\ \A i \in 1..(n - 1) : A[i + 1] = next[A[i]]
  <2>1. \A i \in 1..n : A[i] = IF i = 1 THEN p ELSE next[A[i - 1]]
    BY <1>3 DEF Along
  <2>2. \A i \in 1..(n - 1) : i + 1 \in 1..n /\ i + 1 # 1 /\ (i + 1) - 1 = i
    OBVIOUS
  <2> QED BY <2>1, <2>2
<1> DEFINE Closing == {i \in 1..n : next[A[i]] = p}
<1>6. Closing # {} /\ Closing \in SUBSET Nat
  <2>7. Closing \in SUBSET Nat
    OBVIOUS
  <2> SUFFICES ASSUME Closing = {} PROVE FALSE
    BY <2>7
  <2>1. \A i \in 1..n : next[A[i]] # p
    OBVIOUS
  <2>2. PICK g : g = [i \in 1..(n + 1) |-> IF i = n + 1 THEN next[A[n]] ELSE A[i]]
    OBVIOUS
  <2>3. ASSUME NEW i \in 1..((n + 1) - 1) PROVE g[i + 1] = next[g[i]] /\ g[i + 1] # p
    <3>1. i \in 1..n /\ i \in 1..(n + 1) /\ i + 1 \in 1..(n + 1) /\ i # n + 1
      OBVIOUS
    <3>2. g[i] = A[i]
      BY <2>2, <3>1
    <3>3. g[i + 1] = next[A[i]]
      <4>1. CASE i = n
        BY <2>2, <3>1, <4>1
      <4>2. CASE i # n
        <5>1. i \in 1..(n - 1) /\ i + 1 # n + 1
          BY <3>1, <4>2
        <5> QED BY <1>5, <2>2, <3>1, <5>1
      <4> QED BY <4>1, <4>2
    <3> QED BY <2>1, <3>1, <3>2, <3>3
  <2>4. g[1] = p
    <3>1. 1 \in 1..(n + 1) /\ 1 # n + 1
      OBVIOUS
    <3> QED BY <1>5, <2>2, <3>1
  <2>5. IsChain(p, n + 1, g)
    BY <2>3, <2>4 DEF IsChain
  <2>6. n + 1 <= n
    <3>1. n + 1 \in Nat \ {0}
      OBVIOUS
    <3> QED BY <1>2, <2>5, <3>1, ChainLength
  <2> QED BY <2>6
<1>7. PICK m \in Closing : \A i \in Closing : m <= i
  BY <1>6, LeastOfNaturals
<1>8. m \in 1..n /\ next[A[m]] = p /\ \A j \in 1..(m - 1) : next[A[j]] # p
  <2>1. \A j \in 1..(m - 1) : j \in 1..n /\ ~(m <= j)
    OBVIOUS
  <2>2. m \in 1..n /\ next[A[m]] = p
    OBVIOUS
  <2> QED BY <1>7, <2>1, <2>2
<1>9. Last \in 1..n /\ next[A[Last]] = p /\ \A j \in 1..(Last - 1) : next[A[j]] # p
  <2>1. DOMAIN A = 1..n
    BY <1>3 DEF Along
  <2> QED BY <1>8, <2>1
<1>10. PICK k \in 1..n : k = Last
  BY <1>9
<1> HIDE DEF Last, Closing
<1>11. PICK s : s = [i \in 1..k |-> A[i]] /\ s = RingOf(p)
  BY <1>4, <1>10
<1>12. IsChain(p, k, s)
  <2>1. s[1] = p
    BY <1>5, <1>11
  <2>2. ASSUME NEW i \in 1..(k - 1) PROVE s[i + 1] = next[s[i]] /\ s[i + 1] # p
    <3>1. i \in 1..k /\ i + 1 \in 1..k /\ i \in 1..(n - 1)
      OBVIOUS
    <3> QED BY <1>5, <1>9, <1>10, <1>11, <3>1, SMTT(40)
  <2> QED BY <2>1, <2>2 DEF IsChain
<1>13. s \in Seq(Node) /\ Len(s) = k
  <2>1. k \in Nat \ {0}
    OBVIOUS
  <2>2. \A i \in 1..k : s[i] \in Node
    BY <1>12, <2>1, ChainNodes DEF QueuesOK
  <2> QED BY <1>11, <2>1, <2>2
<1>14. next[s[k]] = p
  BY <1>9, <1>10, <1>11
<1> QED BY <1>11, <1>12, <1>13, <1>14 DEF IsRing

\* The primaries are the nodes of the trie, and the displaced one an insert carries.
LEMMA PrimaryIs ==
    ASSUME NEW D, NEW X, NEW R, Inv(D, X, R)
    PROVE  Primary = First
<1>1. TypeOK /\ LinksOK /\ PlacesOK(D, X)
  BY DEF Inv
<1>2. \A n \in Placed : D[n] \in 0..KeyBits
  BY <1>1, Types DEF PlacesOK
<1>3. InTrie = UNION {{n \in Placed : D[n] = d} : d \in 0..KeyBits}
  BY <1>1, LayersAreDepths DEF InTrie
<1>4. InTrie = Placed
  BY <1>2, <1>3
<1> QED BY <1>4 DEF Primary, First

\* The queue of a key is the ring of its primary, and empty where there is none.
QueueSpec ==
    \A k \in Key :
        /\ (\A n \in First : key[n] # k) => Queues[k] = <<>>
        /\ \A p \in First : key[p] = k => Queues[k] = RingOf(p) /\ IsRing(p, RingOf(p))
        /\ \A p \in First : \A s : key[p] = k /\ IsRing(p, s) => Queues[k] = s

LEMMA QueuesTold == \A D, X, R : Inv(D, X, R) => QueueSpec
<1> SUFFICES ASSUME NEW D, NEW X, NEW R, Inv(D, X, R) PROVE QueueSpec
  OBVIOUS
<1>1. QueuesOK(R) /\ Primary = First
  BY Queuing, PrimaryIs
<1> SUFFICES ASSUME NEW k \in Key
             PROVE  /\ (\A n \in First : key[n] # k) => Queues[k] = <<>>
                    /\ \A p \in First : key[p] = k => Queues[k] = RingOf(p) /\ IsRing(p, RingOf(p))
                    /\ \A p \in First : \A s : key[p] = k /\ IsRing(p, s) => Queues[k] = s
  BY DEF QueueSpec
<1> DEFINE P == {n \in First : key[n] = k}
<1>2. Queues[k] = IF P = {} THEN <<>> ELSE RingOf(CHOOSE n \in P : TRUE)
  BY <1>1 DEF Queues
<1>3. ASSUME NEW p \in First, key[p] = k
      PROVE  Queues[k] = RingOf(p) /\ IsRing(p, RingOf(p))
  <2>1. P = {p}
    BY <1>1, <1>3 DEF QueuesOK
  <2>2. (CHOOSE n \in P : TRUE) = p
    BY <2>1
  <2>3. IsRing(p, RingOf(p))
    BY <1>1, RingOfIsRing
  <2> HIDE DEF P
  <2> QED BY <1>2, <2>1, <2>2, <2>3
<1>4. ASSUME NEW p \in First, NEW s, key[p] = k, IsRing(p, s)
      PROVE  Queues[k] = s
  <2>1. PICK t : t = RingOf(p) /\ Queues[k] = t /\ IsRing(p, t)
    BY <1>3, <1>4
  <2>2. Len(s) \in Nat /\ Len(t) \in Nat
    BY <1>4, <2>1 DEF IsRing
  <2>3. Len(s) <= Len(t) \/ Len(t) <= Len(s)
    BY <2>2
  <2> QED BY <1>4, <2>1, <2>3, RingUnique
<1> QED BY <1>2, <1>3, <1>4

\* Every queued node's key has a primary.
LEMMA PrimaryThere ==
    ASSUME NEW R, QueuesOK(R), NEW n \in Queued
    PROVE  \E p \in First : key[p] = key[n]
<1> DEFINE Lost == {m \in Queued : key[m] = key[n] /\ m \notin First}
           Ranks == {R[m] : m \in Lost}
<1>1. SUFFICES ASSUME \A p \in First : key[p] # key[n] PROVE FALSE
  OBVIOUS
<1>2. Lost # {} /\ Ranks # {} /\ Ranks \in SUBSET Nat
  BY <1>1 DEF QueuesOK
<1>3. PICK r \in Ranks : \A q \in Ranks : r <= q
  BY <1>2, LeastOfNaturals
<1>4. PICK m \in Lost : \A q \in Lost : R[m] <= R[q]
  BY <1>3
<1>5. m \in Queued /\ key[m] = key[n] /\ m \notin First
  OBVIOUS
<1>6. PICK q \in Queued : q = prev[m] /\ next[q] = m /\ key[q] = key[n]
  BY <1>5 DEF QueuesOK
<1>7. R[q] < R[m] /\ R[q] \in Nat /\ R[m] \in Nat
  BY <1>5, <1>6 DEF QueuesOK
<1>8. q \in Lost
  BY <1>1, <1>6
<1> HIDE DEF Lost
<1> QED BY <1>4, <1>7, <1>8

\* The nodes of the queues, each in one place.
LEMMA QueueNodes ==
    ASSUME NEW D, NEW X, NEW R, Inv(D, X, R), NEW k \in Key
    PROVE  /\ Queues[k] \in Seq(Node)
           /\ MMap!Nodes(Queues[k]) = {n \in Queued : key[n] = k}
           /\ \A i, j \in 1..Len(Queues[k]) : Queues[k][i] = Queues[k][j] => i = j
<1>1. QueuesOK(R) /\ QueueSpec
  BY Queuing, QueuesTold
<1>2. CASE \A n \in First : key[n] # k
  <2>1. Queues[k] = <<>>
    BY <1>1, <1>2 DEF QueueSpec
  <2>2. {n \in Queued : key[n] = k} = {}
    BY <1>1, <1>2, PrimaryThere
  <2>3. Len(<<>>) = 0 /\ 1..0 = {}
    OBVIOUS
  <2> QED BY <2>1, <2>2, <2>3 DEF MMap!Nodes
<1>3. CASE \E n \in First : key[n] = k
  <2>1. PICK p \in First : key[p] = k
    BY <1>3
  <2>2. PICK s : s = Queues[k] /\ IsRing(p, s)
    BY <1>1, <2>1 DEF QueueSpec
  <2>3. {s[i] : i \in 1..Len(s)} = {n \in Queued : key[n] = k}
    BY <1>1, <2>1, <2>2, RingNodes
  <2>4. \A i, j \in 1..Len(s) : s[i] = s[j] => i = j
    BY <1>1, <2>1, <2>2, RingNodes
  <2>5. s \in Seq(Node)
    BY <2>2 DEF IsRing
  <2> QED BY <2>2, <2>3, <2>4, <2>5 DEF MMap!Nodes
<1> QED BY <1>2, <1>3

\* Between calls every linked node is in the queue of its key, in one place: the swaps
\* of radixTreeInsert and the hand-over of a ring's place in radixTreeRemove drop
\* no node, and leave none behind.
THEOREM NodesQueued == Spec => []EveryNodeQueued
<1>1. IInv => EveryNodeQueued
  <2> SUFFICES ASSUME NEW D, NEW X, NEW R, Inv(D, X, R), pc = "idle", NEW k \in Key
               PROVE  /\ {n \in linked : key[n] = k} = MMap!Nodes(Queues[k])
                      /\ Len(Queues[k]) = Cardinality(MMap!Nodes(Queues[k]))
    BY DEF IInv, EveryNodeQueued
  <2>1. Queued = linked
    BY DEF Queued
  <2>2. PICK s : s = Queues[k]
    OBVIOUS
  <2>3. /\ s \in Seq(Node) /\ MMap!Nodes(s) = {n \in linked : key[n] = k}
        /\ \A i, j \in 1..Len(s) : s[i] = s[j] => i = j
    BY <2>1, <2>2, QueueNodes
  <2>4. Len(s) \in Nat /\ MMap!Nodes(s) = {s[i] : i \in 1..Len(s)}
    BY <2>3 DEF MMap!Nodes
  <2>5. PICK f : f = [i \in 1..Len(s) |-> s[i]]
    OBVIOUS
  <2>6. f \in Bijection(1..Len(s), MMap!Nodes(s))
    BY <2>3, <2>4, <2>5 DEF Bijection, Injection, IsInjective, Surjection
  <2>7. ExistsBijection(1..Len(s), MMap!Nodes(s))
    BY <2>6 DEF ExistsBijection
  <2>8. IsFiniteSet(1..Len(s)) /\ Cardinality(1..Len(s)) = Len(s)
    BY <2>4, FS_Interval, SMTT(40)
  <2>9. Cardinality(MMap!Nodes(s)) = Len(s)
    BY <2>7, <2>8, FS_Bijection
  <2> QED BY <2>2, <2>3, <2>9
<1> QED BY <1>1, Invariance, PTL

-----------------------------------------------------------------------------
(* The queues from step to step.                                            *)

\* The primary with a key, if any.
FirstOf(k) == {n \in First : key[n] = k}

\* The same of the next state.
LEMMA QueuesToldAfter == (\A D, X, R : Inv(D, X, R) => QueueSpec)'
  BY QueuesTold, PTL

\* A queue stays as it is where its primary does and next does along the ring.
LEMMA QueueKept ==
    ASSUME NEW R, QueuesOK(R), QueueSpec, QueueSpec', NEW k \in Key,
           \A n \in Queued : key[n] = k => next'[n] = next[n],
           FirstOf(k)' = FirstOf(k)
    PROVE  Queues'[k] = Queues[k]
<1>2. CASE \A n \in First : key[n] # k
  <2>1. Queues[k] = <<>>
    BY <1>2 DEF QueueSpec
  <2> QED BY <1>2, <2>1 DEF QueueSpec, FirstOf
<1>3. CASE \E n \in First : key[n] = k
  <2>1. PICK p \in First : key[p] = k
    BY <1>3
  <2>2. PICK s : s = Queues[k] /\ IsRing(p, s)
    BY <2>1 DEF QueueSpec
  <2>3. \A i \in 1..Len(s) : s[i] \in Queued /\ key[s[i]] = k
    BY <2>1, <2>2, RingNodes
  <2>4. \A i \in 1..Len(s) : next'[s[i]] = next[s[i]]
    BY <2>3
  <2>5. IsRing(p, s)'
    <3>1. Len(s) \in Nat \ {0} /\ Len(s) \in 1..Len(s) /\ \A i \in 1..(Len(s) - 1) : i \in 1..Len(s)
      BY <2>2 DEF IsRing
    <3> QED BY <2>2, <2>4, <3>1 DEF IsRing, IsChain
  <2>6. p \in First' /\ key'[p] = k
    BY <2>1 DEF FirstOf
  <2>7. Queues'[k] = s
    BY <2>5, <2>6 DEF QueueSpec
  <2> QED BY <2>2, <2>7
<1> QED BY <1>2, <1>3

\* What every step's lemma needs to know.
LEMMA StepTold ==
    ASSUME NEW D, NEW X, NEW R, Inv(D, X, R), IInv'
    PROVE  QueuesOK(R) /\ QueueSpec /\ QueueSpec'
<1>1. QueueSpec'
  <2>1. PICK D2, X2, R2 : Inv(D2, X2, R2)'
    BY DEF IInv
  <2> QED BY <2>1, QueuesToldAfter
<1> QED BY <1>1, Queuing, QueuesTold

\* No queue changes when no link of a queued node and no primary does.
LEMMA QueuesKept ==
    ASSUME NEW D, NEW X, NEW R, Inv(D, X, R), IInv', First' = First,
           \A n \in Queued : next'[n] = next[n] /\ key'[n] = key[n]
    PROVE  UNCHANGED Queues
<1>1. QueuesOK(R) /\ QueueSpec /\ QueueSpec'
  BY StepTold
<1>2. ASSUME NEW k \in Key PROVE Queues'[k] = Queues[k]
  <2>1. FirstOf(k)' = FirstOf(k)
    BY <1>1 DEF FirstOf, QueuesOK
  <2> QED BY <1>1, <2>1, QueueKept
<1> QED BY <1>2 DEF Queues

\* A node that joins one queue, and one that leaves one, while the others stay.
LEMMA QueueGrows ==
    ASSUME NEW n \in Node, NEW k \in Key, \A j \in Key : n \notin MMap!Nodes(Queues[j]),
           Queues'[k] = Append(Queues[k], n), \A j \in Key \ {k} : Queues'[j] = Queues[j]
    PROVE  MMap!Next
<1>1. /\ Queues = [j \in Key |-> Queues[j]]
      /\ Queues' = [j \in Key |-> Queues'[j]]
  BY DEF Queues
<1>2. Queues' = [Queues EXCEPT ![k] = Append(@, n)]
  BY <1>1
<1> QED BY <1>2 DEF MMap!Next, MMap!Insert

LEMMA QueueShrinks ==
    ASSUME NEW n \in Node, NEW k \in Key, NEW i \in 1..Len(Queues[k]), Queues[k][i] = n,
           Queues'[k] = SubSeq(Queues[k], 1, i - 1) \o SubSeq(Queues[k], i + 1, Len(Queues[k])),
           \A j \in Key \ {k} : Queues'[j] = Queues[j]
    PROVE  MMap!Next
<1>1. /\ Queues = [j \in Key |-> Queues[j]]
      /\ Queues' = [j \in Key |-> Queues'[j]]
  BY DEF Queues
<1>2. Queues' = [Queues EXCEPT ![k] = SubSeq(@, 1, i - 1) \o SubSeq(@, i + 1, Len(@))]
  BY <1>1
<1> QED BY <1>2 DEF MMap!Next, MMap!Remove

\* A sequence without its i-th element.
LEMMA Dropped ==
    ASSUME NEW S, NEW s \in Seq(S), NEW i \in 1..Len(s)
    PROVE  SubSeq(s, 1, i - 1) \o SubSeq(s, i + 1, Len(s))
               = [j \in 1..(Len(s) - 1) |-> IF j < i THEN s[j] ELSE s[j + 1]]
<1>1. PICK m \in Nat \ {0} : m = Len(s)
  OBVIOUS
<1>2. PICK a : a = SubSeq(s, 1, i - 1)
  OBVIOUS
<1>3. PICK b : b = SubSeq(s, i + 1, m)
  OBVIOUS
<1>4. a \in Seq(S) /\ Len(a) = i - 1 /\ \A j \in 1..(i - 1) : a[j] = s[j]
  BY <1>1, <1>2
<1>5. b \in Seq(S) /\ Len(b) = m - i /\ \A j \in 1..(m - i) : b[j] = s[i + j]
  BY <1>1, <1>3
<1>6. PICK c : c = a \o b
  OBVIOUS
<1>7. c \in Seq(S) /\ Len(c) = m - 1
  BY <1>1, <1>4, <1>5, <1>6
<1>8. ASSUME NEW j \in 1..(m - 1) PROVE c[j] = IF j < i THEN s[j] ELSE s[j + 1]
  <2>1. CASE j < i
    BY <1>1, <1>4, <1>5, <1>6, <2>1
  <2>2. CASE ~(j < i)
    <3>1. c[j] = b[j - (i - 1)] /\ j - (i - 1) \in 1..(m - i)
      BY <1>1, <1>4, <1>5, <1>6, <2>2
    <3>2. i + (j - (i - 1)) = j + 1
      OBVIOUS
    <3> QED BY <1>5, <2>2, <3>1, <3>2
  <2> QED BY <2>1, <2>2
<1>9. c = [j \in 1..(m - 1) |-> IF j < i THEN s[j] ELSE s[j + 1]]
  BY <1>7, <1>8
<1> QED BY <1>1, <1>2, <1>3, <1>6, <1>9

\* radixListRemove takes a node out of its queue, whose next is the primary if it was.
LEMMA LeavesQueue ==
    ASSUME NEW D, NEW X, NEW R, Inv(D, X, R), IInv',
           NEW n \in Queued, next[n] # n, LeaveRing(n), UNCHANGED key,
           First' = IF n \in First THEN (First \ {n}) \union {next[n]} ELSE First
    PROVE  MMap!Next
<1>1. QueuesOK(R) /\ QueueSpec /\ QueueSpec'
  BY StepTold
<1>2. PICK k \in Key : k = key[n]
  BY <1>1 DEF QueuesOK
<1>3. PICK p \in First : key[p] = k
  BY <1>1, <1>2, PrimaryThere
<1>4. PICK s : s = Queues[k] /\ IsRing(p, s)
  BY <1>1, <1>3 DEF QueueSpec
<1>5. /\ {s[j] : j \in 1..Len(s)} = {q \in Queued : key[q] = k}
      /\ \A a, b \in 1..Len(s) : s[a] = s[b] => a = b
  BY <1>1, <1>3, <1>4, RingNodes
<1>6. PICK m \in Nat \ {0} : m = Len(s)
  BY <1>4 DEF IsRing
<1>7. /\ s \in Seq(Node) /\ s[1] = p /\ next[s[m]] = p
      /\ \A j \in 1..(m - 1) : s[j + 1] = next[s[j]]
      /\ \A j \in 1..m : s[j] \in Queued /\ key[s[j]] = k
      /\ \A a, b \in 1..m : s[a] = s[b] => a = b
  BY <1>4, <1>5, <1>6 DEF IsRing, IsChain
<1>8. PICK i \in 1..m : s[i] = n
  BY <1>2, <1>5, <1>6
<1>9. m # 1
  <2> SUFFICES ASSUME m = 1 PROVE FALSE
    OBVIOUS
  <2>1. i = 1
    BY <1>8
  <2> QED BY <1>7, <1>8, <2>1
<1>10. n \in First <=> i = 1
  <2>1. n \in First => n = p
    BY <1>1, <1>2, <1>3 DEF QueuesOK
  <2>2. 1 \in 1..m
    OBVIOUS
  <2> QED BY <1>3, <1>7, <1>8, <2>1, <2>2
<1> DEFINE before == IF i = 1 THEN m ELSE i - 1
<1>10a. PICK p2 : p2 = IF i = 1 THEN next[n] ELSE p
  OBVIOUS
<1>11. before \in 1..m /\ prev[n] = s[before]
  <2>1. before \in 1..m
    OBVIOUS
  <2>2. next[s[before]] = n
    <3>1. CASE i = 1
      BY <1>7, <1>8, <3>1
    <3>2. CASE i # 1
      <4>1. i - 1 \in 1..(m - 1) /\ (i - 1) + 1 = i
        BY <3>2
      <4> QED BY <1>7, <1>8, <3>2, <4>1
    <3> QED BY <3>1, <3>2
  <2> QED BY <1>1, <1>7, <2>1, <2>2 DEF QueuesOK
<1>12. /\ next'[s[before]] = next[n]
       /\ \A q \in Node : q # s[before] => next'[q] = next[q]
  <2>1. next' = [next EXCEPT ![s[before]] = next[n]]
    BY <1>11 DEF LeaveRing
  <2>2. next \in [Node -> Node \union {NULL}] /\ s[before] \in Node
    BY <1>1, <1>7, <1>11 DEF Inv, TypeOK, QueuesOK
  <2> QED BY <2>1, <2>2
<1>13. next[n] = IF i = m THEN p ELSE s[i + 1]
  <2>1. i # m => i \in 1..(m - 1)
    OBVIOUS
  <2> QED BY <1>7, <1>8, <2>1
<1>14. PICK t : t = [j \in 1..(m - 1) |-> IF j < i THEN s[j] ELSE s[j + 1]]
  OBVIOUS
<1>15. /\ Queued \subseteq Node /\ \A j \in 1..m : s[j] \in Node
  BY <1>1, <1>7 DEF QueuesOK
<1>16. t \in Seq(Node) /\ Len(t) = m - 1 /\ m - 1 \in Nat \ {0}
  <2>1. m - 1 \in Nat \ {0}
    BY <1>9
  <2>2. ASSUME NEW j \in 1..(m - 1) PROVE t[j] \in Node
    <3>1. j \in 1..m /\ j + 1 \in 1..m
      OBVIOUS
    <3> QED BY <1>14, <1>15, <3>1
  <2>3. PICK l \in Nat \ {0} : l = m - 1
    BY <2>1
  <2>4. t = [j \in 1..l |-> t[j]] /\ \A j \in 1..l : t[j] \in Node
    BY <1>14, <2>2, <2>3
  <2>5. t \in Seq(Node) /\ Len(t) = l
    BY <2>4
  <2> QED BY <2>3, <2>5
<1>17. t[1] = p2
  <2>1. 1 \in 1..(m - 1) /\ 1 + 1 = 2
    BY <1>9
  <2>2. CASE i = 1
    BY <1>9, <1>13, <1>14, <1>10a, <2>1, <2>2
  <2>3. CASE i # 1
    BY <1>7, <1>14, <1>10a, <2>1, <2>3
  <2> QED BY <2>2, <2>3
<1>18. ASSUME NEW j \in 1..(m - 2) PROVE t[j + 1] = next'[t[j]] /\ t[j + 1] # p2
  <2>1. /\ j \in 1..(m - 1) /\ j + 1 \in 1..(m - 1) /\ j \in 1..m /\ j + 1 \in 1..m /\ j + 2 \in 1..m
        /\ (j + 1) + 1 = j + 2
    OBVIOUS
  <2>2. CASE j + 1 < i
    <3>1. t[j] = s[j] /\ t[j + 1] = s[j + 1] /\ j # before /\ i # 1 /\ p2 = s[1]
      BY <1>7, <1>14, <1>10a, <2>1, <2>2
    <3>2. s[j] # s[before]
      BY <1>7, <1>11, <2>1, <3>1
    <3>3. 1 \in 1..m /\ j + 1 # 1
      BY <2>1
    <3> QED BY <1>7, <1>12, <1>15, <2>1, <3>1, <3>2, <3>3, SMTT(40)
  <2>3. CASE j + 1 = i
    <3>1. t[j] = s[j] /\ t[j + 1] = s[j + 2] /\ j = before /\ i # 1 /\ p2 = s[1] /\ i # m
      BY <1>7, <1>14, <1>10a, <2>1, <2>3
    <3>2. next[n] = s[j + 2]
      BY <1>13, <2>1, <2>3, <3>1
    <3>3. 1 \in 1..m /\ j + 2 # 1
      BY <2>1
    <3> QED BY <1>7, <1>12, <2>1, <3>1, <3>2, <3>3
  <2>4. CASE j + 1 > i
    <3>1. t[j] = s[j + 1] /\ t[j + 1] = s[j + 2] /\ j + 1 # before
      BY <1>14, <2>1, <2>4
    <3>2. s[j + 1] # s[before]
      BY <1>7, <1>11, <2>1, <3>1
    <3>3. next'[s[j + 1]] = s[j + 2]
      <4>1. j + 1 \in 1..(m - 1)
        OBVIOUS
      <4> QED BY <1>7, <1>12, <1>15, <2>1, <3>2, <4>1
    <3>4. p2 = IF i = 1 THEN s[2] ELSE s[1]
      BY <1>7, <1>9, <1>13, <1>10a
    <3>5. 1 \in 1..m /\ 2 \in 1..m /\ j + 2 # 1 /\ j + 2 # 2
      BY <1>9, <2>1
    <3>6. s[j + 2] # s[1] /\ s[j + 2] # s[2]
      BY <1>7, <2>1, <3>5
    <3> QED BY <3>1, <3>3, <3>4, <3>6
  <2> QED BY <2>2, <2>3, <2>4
<1>19. next'[t[m - 1]] = p2
  <2>1. m - 1 \in 1..(m - 1) /\ m - 1 \in 1..m /\ m \in 1..m /\ (m - 1) + 1 = m
    BY <1>9
  <2>2. CASE i = m
    <3>1. t[m - 1] = s[m - 1] /\ before = m - 1 /\ p2 = p
      BY <1>9, <1>14, <1>10a, <2>1, <2>2
    <3> QED BY <1>12, <1>13, <2>2, <3>1
  <2>3. CASE i # m
    <3>1. t[m - 1] = s[m]
      BY <1>14, <2>1, <2>3
    <3>2. CASE i = 1
      BY <1>12, <1>10a, <3>1, <3>2
    <3>3. CASE i # 1
      <4>1. before # m
        BY <2>3, <3>3
      <4>2. s[m] # s[before]
        BY <1>7, <1>11, <2>1, <4>1
      <4> QED BY <1>7, <1>12, <1>15, <1>10a, <2>1, <3>1, <3>3, <4>2
    <3> QED BY <3>2, <3>3
  <2> QED BY <2>2, <2>3
<1>20. IsRing(p2, t)'
  <2>1. (m - 1) - 1 = m - 2
    OBVIOUS
  <2> QED BY <1>16, <1>17, <1>18, <1>19, <2>1 DEF IsRing, IsChain
<1>21. p2 \in First' /\ key'[p2] = k
  <2>1. next[n] \in Queued /\ key[next[n]] = k
    BY <1>1, <1>2 DEF QueuesOK
  <2> QED BY <1>3, <1>10, <1>10a, <2>1
<1>22. Queues'[k] = t
  BY <1>1, <1>20, <1>21 DEF QueueSpec
<1>23. ASSUME NEW j \in Key \ {k} PROVE Queues'[j] = Queues[j]
  <2>1. \A q \in Queued : key[q] = j => next'[q] = next[q]
    BY <1>7, <1>11, <1>12, <1>15
  <2>2. FirstOf(j)' = FirstOf(j)
    <3>1. key[next[n]] = k
      BY <1>1, <1>2 DEF QueuesOK
    <3> QED BY <1>2, <3>1 DEF FirstOf
  <2> QED BY <1>1, <2>1, <2>2, QueueKept
<1>24. Queues'[k] = SubSeq(Queues[k], 1, i - 1) \o SubSeq(Queues[k], i + 1, Len(Queues[k]))
  <2>1. SubSeq(s, 1, i - 1) \o SubSeq(s, i + 1, Len(s))
            = [j \in 1..(Len(s) - 1) |-> IF j < i THEN s[j] ELSE s[j + 1]]
    <3>1. i \in 1..Len(s) /\ s \in Seq(Node)
      BY <1>6, <1>7
    <3> QED BY ONLY <3>1, Dropped, Zenon
  <2> QED BY <1>4, <1>6, <1>14, <1>22, <2>1
<1> QED BY <1>4, <1>6, <1>8, <1>15, <1>23, <1>24, QueueShrinks

\* radixListInsert puts a node at the end of the queue whose primary it is given.
LEMMA JoinsQueue ==
    ASSUME NEW D, NEW X, NEW R, Inv(D, X, R), IInv',
           NEW n \in Node \ Queued, NEW p \in First, JoinRing(n, p), UNCHANGED key,
           First' = First
    PROVE  MMap!Next
<1>1. QueuesOK(R) /\ QueueSpec /\ QueueSpec'
  BY StepTold
<1>2. PICK k \in Key : k = key[p]
  BY <1>1 DEF QueuesOK
<1>3. PICK s : s = Queues[k] /\ IsRing(p, s)
  BY <1>1, <1>2 DEF QueueSpec
<1>4. PICK m \in Nat \ {0} : m = Len(s)
  BY <1>3 DEF IsRing
<1>5. /\ s \in Seq(Node) /\ s[1] = p /\ next[s[m]] = p
      /\ \A j \in 1..(m - 1) : s[j + 1] = next[s[j]] /\ s[j + 1] # p
      /\ \A j \in 1..m : s[j] \in Queued /\ key[s[j]] = k
      /\ \A a, b \in 1..m : s[a] = s[b] => a = b
  <2>1. /\ {s[j] : j \in 1..m} = {q \in Queued : key[q] = k}
        /\ \A a, b \in 1..m : s[a] = s[b] => a = b
    BY <1>1, <1>2, <1>3, <1>4, RingNodes
  <2>2. /\ s \in Seq(Node) /\ s[1] = p /\ next[s[m]] = p
        /\ \A j \in 1..(m - 1) : s[j + 1] = next[s[j]] /\ s[j + 1] # p
    BY <1>3, <1>4 DEF IsRing, IsChain
  <2> QED BY <2>1, <2>2
<1>6. Queued \subseteq Node /\ First \subseteq Queued /\ m \in 1..m
  BY <1>1 DEF QueuesOK
<1>7. prev[p] = s[m]
  BY <1>1, <1>5, <1>6 DEF QueuesOK
<1>8. /\ next'[s[m]] = n /\ next'[n] = p
      /\ \A q \in Queued : q # s[m] => next'[q] = next[q]
  <2>1. next' = [next EXCEPT ![s[m]] = n, ![n] = p]
    BY <1>7 DEF JoinRing
  <2>2. next \in [Node -> Node \union {NULL}] /\ s[m] \in Node /\ s[m] # n
    BY <1>5, <1>6 DEF Inv, TypeOK
  <2> QED BY <1>6, <2>1, <2>2
<1>9. PICK t : t = Append(s, n)
  OBVIOUS
<1>10. /\ t \in Seq(Node) /\ Len(t) = m + 1 /\ t[m + 1] = n
       /\ \A j \in 1..m : t[j] = s[j]
  BY <1>4, <1>5, <1>9
<1>11. ASSUME NEW j \in 1..m PROVE t[j + 1] = next'[t[j]] /\ t[j + 1] # p
  <2>1. CASE j = m
    BY <1>6, <1>8, <1>10, <2>1
  <2>2. CASE j # m
    <3>1. j \in 1..(m - 1) /\ j + 1 \in 1..m
      BY <2>2
    <3> QED BY <1>5, <1>6, <1>8, <1>10, <2>2, <3>1
  <2> QED BY <2>1, <2>2
<1>12. IsRing(p, t)'
  <2>1. t[1] = p /\ next'[t[m + 1]] = p /\ (m + 1) - 1 = m /\ m + 1 > 0
    <3>1. 1 \in 1..m
      OBVIOUS
    <3> QED BY <1>5, <1>8, <1>10, <3>1
  <2> QED BY <1>10, <1>11, <2>1 DEF IsRing, IsChain
<1>13. Queues'[k] = Append(Queues[k], n)
  <2>1. p \in First' /\ key'[p] = k
    BY <1>2
  <2> QED BY <1>1, <1>3, <1>9, <1>12, <2>1 DEF QueueSpec
<1>14. ASSUME NEW j \in Key \ {k} PROVE Queues'[j] = Queues[j]
  <2>1. \A q \in Queued : key[q] = j => next'[q] = next[q]
    BY <1>5, <1>6, <1>8
  <2>2. FirstOf(j)' = FirstOf(j)
    BY DEF FirstOf
  <2> QED BY <1>1, <2>1, <2>2, QueueKept
<1>15. \A j \in Key : n \notin MMap!Nodes(Queues[j])
  BY QueueNodes
<1> QED BY <1>13, <1>14, <1>15, QueueGrows

\* A primary that is put into the trie begins a queue.
LEMMA BeginsQueue ==
    ASSUME NEW D, NEW X, NEW R, Inv(D, X, R), IInv',
           NEW n \in Node \ Queued, next[n] = n, \A q \in First : key[q] # key[n],
           UNCHANGED <<next, key>>, First' = First \union {n}
    PROVE  MMap!Next
<1>1. QueuesOK(R) /\ QueueSpec /\ QueueSpec'
  BY StepTold
<1>2. PICK k \in Key : k = key[n]
  BY DEF Inv, TypeOK
<1>3. Queues[k] = <<>>
  BY <1>1, <1>2 DEF QueueSpec
<1>4. PICK t : t = <<n>>
  OBVIOUS
<1>5. IsRing(n, t)'
  <2>1. t \in Seq(Node) /\ Len(t) = 1 /\ t[1] = n /\ 1..(1 - 1) = {}
    BY <1>4
  <2> QED BY <2>1 DEF IsRing, IsChain
<1>6. Queues'[k] = Append(Queues[k], n)
  <2>1. n \in First' /\ key'[n] = k
    BY <1>2
  <2>2. Append(<<>>, n) = t
    BY <1>4
  <2> QED BY <1>1, <1>3, <1>5, <2>1, <2>2 DEF QueueSpec
<1>7. ASSUME NEW j \in Key \ {k} PROVE Queues'[j] = Queues[j]
  <2>1. FirstOf(j)' = FirstOf(j)
    BY <1>2 DEF FirstOf
  <2> QED BY <1>1, <2>1, QueueKept
<1>8. \A j \in Key : n \notin MMap!Nodes(Queues[j])
  BY QueueNodes
<1> QED BY <1>6, <1>7, <1>8, QueueGrows

\* A primary that was alone and is cut off ends one.
LEMMA EndsQueue ==
    ASSUME NEW D, NEW X, NEW R, Inv(D, X, R), IInv',
           NEW n \in First, next[n] = n, UNCHANGED <<next, key>>, First' = First \ {n}
    PROVE  MMap!Next
<1>1. QueuesOK(R) /\ QueueSpec /\ QueueSpec'
  BY StepTold
<1>2. PICK k \in Key : k = key[n]
  BY <1>1 DEF QueuesOK
<1>3. PICK s : s = <<n>>
  OBVIOUS
<1>4. n \in Node
  BY <1>1 DEF QueuesOK
<1>5. IsRing(n, s)
  <2>1. s \in Seq(Node) /\ Len(s) = 1 /\ s[1] = n /\ 1..(1 - 1) = {}
    BY <1>3, <1>4
  <2> QED BY <2>1 DEF IsRing, IsChain
<1>6. Queues[k] = s
  BY <1>1, <1>2, <1>5 DEF QueueSpec
<1>7. Queues'[k] = <<>>
  <2>1. \A q \in First' : key'[q] # k
    BY <1>1, <1>2 DEF QueuesOK
  <2> QED BY <1>1, <2>1 DEF QueueSpec
<1>8. ASSUME NEW j \in Key \ {k} PROVE Queues'[j] = Queues[j]
  <2>1. FirstOf(j)' = FirstOf(j)
    BY <1>2 DEF FirstOf
  <2> QED BY <1>1, <2>1, QueueKept
<1>9. SubSeq(s, 1, 1 - 1) \o SubSeq(s, 1 + 1, Len(s)) = <<>>
  BY <1>3
<1>10. 1 \in 1..Len(s) /\ s[1] = n
  BY <1>3
<1> QED BY <1>4, <1>6, <1>7, <1>8, <1>9, <1>10, QueueShrinks

\* A node that is alone in its ring is in the trie, and has a child to be pushed below
\* while it has one at all.
LEMMA AloneIsPlaced ==
    ASSUME NEW D, NEW X, NEW R, Inv(D, X, R), pc = "remove", Alone(node)
    PROVE  /\ node \in Placed
           /\ SmallerChild(node) # NULL =>
                 SmallerChild(node) \in Placed /\ parent[SmallerChild(node)] = node
<1>1. /\ TypeOK /\ LinksOK /\ RingsOK(R) /\ R \in [Node -> Nat]
      /\ node \in linked /\ node \in Node
  BY Values, Types DEF Inv, CallOK
<1>2. node \in Placed
  <2>1. ~(R[node] < R[node])
    BY <1>1
  <2>2. node \in Heads
    BY <1>1, <2>1 DEF RingsOK, Alone
  <2> QED BY <2>2 DEF Heads
<1>3. PICK i \in Side : SmallerChild(node) = child[node][i]
  BY DEF SmallerChild, Side
<1> QED BY <1>1, <1>2, <1>3, Children

\* A swap begins the queue of the new node's key when it puts the new node into the trie.
LEMMA InsertSwapQueues ==
    ASSUME NEW D, NEW X, NEW R, Inv(D, X, R), IInv', NEW cur \in Node, InsertSwap(cur)
    PROVE  UNCHANGED Queues \/ MMap!Next
<1>1. /\ TypeOK /\ LinksOK /\ PlacesOK(D, X) /\ CallOK(D, X)
      /\ \A n \in Node : key[n] \in Nat
  BY Values DEF Inv
<1>2. /\ Meets(cur) /\ key[node] < key[cur] /\ ReplaceNode(cur, node, TRUE) /\ node' = cur
      /\ UNCHANGED <<next, prev, key, linked, pc, new>>
  BY DEF InsertSwap
<1>3. /\ pc = "insert" /\ node \in linked \ Placed /\ node \in Node /\ cur \in Placed /\ cur # new
      /\ At(slot) = cur
  BY <1>2, MetNode DEF Meets
<1>4. Placed' = (Placed \ {cur}) \union {node}
  BY <1>1, <1>2, <1>3, Replaced
<1>5. First' = Placed \union {node}
  BY <1>2, <1>3, <1>4 DEF First
<1>6. CASE node # new
  <2>1. First' = First
    BY <1>3, <1>5, <1>6 DEF First
  <2> QED BY <1>2, <2>1, QueuesKept
<1>7. CASE node = new
  <2>1. First = Placed /\ node \notin Queued /\ next[node] = node
    BY <1>1, <1>3, <1>7 DEF First, Queued, CallOK
  <2>2. ASSUME NEW q \in Placed, key[q] = key[node] PROVE FALSE
    <3>1. key[cur] <= key[node]
      BY <1>3, <1>7, <2>2, KeyBelowSlot
    <3> QED BY <1>1, <1>2, <1>3, <3>1
  <2>3. First' = First \union {node} /\ \A q \in First : key[q] # key[node]
    BY <1>5, <2>1, <2>2
  <2> QED BY <1>2, <1>3, <2>1, <2>3, BeginsQueue
<1> QED BY <1>6, <1>7

\* Linking the new node at an empty place begins its queue; linking a displaced one
\* changes none.
LEMMA InsertLinkQueues ==
    ASSUME NEW D, NEW X, NEW R, Inv(D, X, R), IInv', InsertLink
    PROVE  UNCHANGED Queues \/ MMap!Next
<1>1. TypeOK /\ CallOK(D, X)
  BY DEF Inv
<1>2. /\ pc = "insert" /\ At(slot) = NULL /\ selfPtr' = [selfPtr EXCEPT ![node] = slot]
      /\ UNCHANGED <<next, prev, key, linked>> /\ pc' = "idle"
  BY DEF InsertLink, Finish
<1>3. node \in linked \ Placed /\ node \in Node /\ slot # NULL /\ NULL \notin Node
  BY <1>1, <1>2, NoSlot, Types DEF CallOK, TypeOK
<1>4. Placed' = Placed \union {node}
  <2>1. selfPtr'[node] = slot /\ \A m \in Node : m # node => selfPtr'[m] = selfPtr[m]
    BY <1>1, <1>2, <1>3 DEF TypeOK
  <2> QED BY <1>1, <1>2, <1>3, <2>1 DEF Placed, TypeOK
<1>5. First' = Placed \union {node}
  BY <1>2, <1>4 DEF First
<1>6. CASE node # new
  <2>1. First' = First
    BY <1>2, <1>5, <1>6 DEF First
  <2> QED BY <1>2, <2>1, QueuesKept
<1>7. CASE node = new
  <2>1. First = Placed /\ node \notin Queued /\ next[node] = node
    BY <1>1, <1>2, <1>7 DEF First, Queued, CallOK
  <2>2. \A q \in Placed : key[q] # key[node]
    <3>1. Placed \subseteq Node
      BY <1>1, Types
    <3> QED BY <1>2, <1>3, <1>7, <3>1, KeyBelowSlot
  <2>3. First' = First \union {node} /\ \A q \in First : key[q] # key[node]
    BY <1>5, <2>1, <2>2
  <2> QED BY <1>2, <1>3, <2>1, <2>3, BeginsQueue
<1> QED BY <1>6, <1>7

\* Only the new node comes to a node with its key, and joins its queue.
LEMMA InsertDuplicateQueues ==
    ASSUME NEW D, NEW X, NEW R, Inv(D, X, R), IInv', NEW head \in Node, InsertDuplicate(head)
    PROVE  MMap!Next
<1>1. TypeOK /\ LinksOK /\ CallOK(D, X) /\ \A n \in Node : key[n] \in Nat
  BY Values DEF Inv
<1>2. /\ pc = "insert" /\ At(slot) = head /\ head # NULL /\ key[head] = key[new]
      /\ JoinRing(node, head) /\ pc' = "idle" /\ UNCHANGED <<selfPtr, key, linked>>
  BY DEF InsertDuplicate, Finish
<1>3. head \in Placed /\ node \in linked /\ node \in Node /\ new \in Node
  BY <1>1, <1>2, Types DEF CallOK, LinksOK
<1>4. node = new
  <2> SUFFICES ASSUME node # new PROVE FALSE
    OBVIOUS
  <2>1. key[new] < key[node] /\ key[node] < key[head]
    BY <1>1, <1>2 DEF CallOK
  <2> QED BY <1>1, <1>2, <1>3, <2>1
<1>5. First = Placed /\ First' = Placed /\ node \notin Queued
  BY <1>2, <1>4 DEF First, Placed, Queued
<1> QED BY <1>2, <1>3, <1>5, JoinsQueue

\* Each step of a call takes effect on one queue, or on none.
LEMMA StepQueues ==
    ASSUME NEW D, NEW X, NEW R, Inv(D, X, R), IInv', [Next]_vars
    PROVE  UNCHANGED Queues \/ MMap!Next
<1>1. TypeOK /\ LinksOK /\ PlacesOK(D, X) /\ CallOK(D, X)
  BY DEF Inv
<1>2. linked \subseteq Node /\ Placed \subseteq linked
  BY <1>1 DEF TypeOK, Placed
<1>3. ASSUME NEW n \in Node, NEW k \in Key, BeginInsert(n, k) PROVE UNCHANGED Queues
  <2>1. /\ pc = "idle" /\ n \notin linked /\ pc' = "insert" /\ new' = n /\ node' = n
        /\ linked' = linked \union {n}
        /\ selfPtr' = [selfPtr EXCEPT ![n] = NULL] /\ next' = [next EXCEPT ![n] = n]
        /\ key' = [key EXCEPT ![n] = k]
    BY <1>3 DEF BeginInsert
  <2>2. /\ selfPtr'[n] = NULL
        /\ \A m \in linked : selfPtr'[m] = selfPtr[m] /\ next'[m] = next[m] /\ key'[m] = key[m]
    BY <1>1, <1>2, <2>1 DEF TypeOK
  <2>3. Placed' = Placed
    BY <2>1, <2>2 DEF Placed
  <2>4. First' = First /\ Queued \subseteq linked
    BY <2>1, <2>3 DEF First, Queued
  <2> QED BY <2>2, <2>4, QueuesKept
<1>4. ASSUME NEW cur \in Node, InsertPass(cur) PROVE UNCHANGED Queues
  <2>1. UNCHANGED <<selfPtr, next, key, linked, pc, new, node>>
    BY <1>4 DEF InsertPass, treeVars
  <2>2. First' = First
    BY <2>1 DEF First, Placed
  <2> QED BY <2>1, <2>2, QueuesKept
<1>5. ASSUME NEW n \in linked, BeginRemove(n) PROVE UNCHANGED Queues
  <2>1. UNCHANGED <<selfPtr, next, key, linked>> /\ pc = "idle" /\ pc' = "remove"
    BY <1>5 DEF BeginRemove, treeVars
  <2>2. First' = First
    BY <2>1 DEF First, Placed
  <2> QED BY <2>1, <2>2, QueuesKept
<1>6. CASE RemoveLeaf
  <2>1. /\ pc = "remove" /\ Alone(node) /\ next[node] = node /\ linked' = linked \ {node}
        /\ UNCHANGED <<selfPtr, next, key>> /\ pc' = "idle"
    BY <1>6 DEF RemoveLeaf, Alone, Removed, Finish
  <2>2. node \in Placed
    BY <2>1, AloneIsPlaced
  <2>3. node \in First /\ First' = First \ {node}
    BY <2>1, <2>2 DEF First, Placed
  <2> QED BY <2>1, <2>3, EndsQueue
<1>7. CASE RemovePushDown
  <2>1. /\ pc = "remove" /\ Alone(node) /\ SmallerChild(node) # NULL
        /\ SwapParentWithChild(node, SmallerChild(node))
        /\ UNCHANGED <<next, key, linked, pc, new, node>>
    BY <1>7 DEF RemovePushDown, callVars
  <2>2. PICK p \in Placed, c \in Placed : p = node /\ c = SmallerChild(node) /\ parent[c] = p
    BY <2>1, AloneIsPlaced
  <2>3. Placed' = Placed
    BY <1>1, <2>1, <2>2, Swapped
  <2>4. First' = First
    BY <2>1, <2>3 DEF First
  <2> QED BY <2>1, <2>4, QueuesKept
<1>8. CASE RemovePrimary
  <2>1. /\ pc = "remove" /\ next[node] # node /\ selfPtr[node] # NULL
        /\ ReplaceNode(node, next[node], FALSE)
        /\ LeaveRing(node) /\ linked' = linked \ {node} /\ UNCHANGED key /\ pc' = "idle"
    BY <1>8 DEF RemovePrimary, Alone, Removed, Finish
  <2>2. node \in Placed /\ node \in First /\ node \in Queued /\ First = Placed
    BY <1>1, <2>1 DEF CallOK, First, Queued, Placed
  <2>3. next[node] \in linked \ Placed
    <3>1. QueuesOK(R)
      BY Queuing
    <3>2. next[node] \in Queued /\ key[next[node]] = key[node]
      BY <2>2, <3>1 DEF QueuesOK
    <3> QED BY <2>1, <2>2, <3>1, <3>2 DEF QueuesOK, Queued
  <2>4. PICK n0 \in Placed, q \in linked \ Placed : n0 = node /\ q = next[node]
    BY <2>2, <2>3
  <2>5. Placed' = (Placed \ {n0}) \union {q}
    <3>1. ReplaceNode(n0, q, FALSE) /\ linked' = linked \ {n0}
      BY <2>1, <2>4
    <3> QED BY <1>1, <3>1, Replaced
  <2>6. First' = IF n0 \in First THEN (First \ {n0}) \union {next[n0]} ELSE First
    BY <2>1, <2>2, <2>4, <2>5 DEF First
  <2> QED BY <2>1, <2>2, <2>4, <2>6, LeavesQueue
<1>9. CASE RemoveDuplicate
  <2>1. /\ pc = "remove" /\ next[node] # node /\ selfPtr[node] = NULL
        /\ LeaveRing(node) /\ linked' = linked \ {node}
        /\ UNCHANGED <<selfPtr, key>> /\ pc' = "idle"
    BY <1>9 DEF RemoveDuplicate, Alone, Removed, Finish
  <2>2. node \notin First /\ node \in Queued /\ First' = First
    BY <1>1, <2>1 DEF CallOK, First, Queued, Placed
  <2>3. PICK n0 \in Queued : n0 = node
    BY <2>2
  <2> QED BY <2>1, <2>2, <2>3, LeavesQueue
<1>10. CASE UNCHANGED vars
  <2>1. UNCHANGED <<selfPtr, next, key, linked, pc, new, node>>
    BY <1>10 DEF vars, treeVars, callVars
  <2>2. First' = First
    BY <2>1 DEF First, Placed
  <2> QED BY <2>1, <2>2, QueuesKept
<1> QED
  BY <1>3, <1>4, <1>5, <1>6, <1>7, <1>8, <1>9, <1>10,
     InsertSwapQueues, InsertDuplicateQueues, InsertLinkQueues DEF Next

MMapNext == [MMap!Next]_Queues

\* The tree implements the multimap MultiMap specifies: whichever nodes change places,
\* radixTreeInsert puts its node at the end of the queue of its key in one step,
\* radixTreeRemove takes its node out in one, and no other queue changes.
THEOREM TreeIsMultiMap == Spec => ImplementsMultiMap
<1>1. Init => MMap!Init
  <2> SUFFICES ASSUME Init PROVE MMap!Init
    OBVIOUS
  <2>1. QueueSpec
    BY InitInv, QueuesTold DEF IInv
  <2>2. First = {}
    BY DEF Init, Idle, First, Placed
  <2>3. \A k \in Key : Queues[k] = <<>>
    BY <2>1, <2>2 DEF QueueSpec
  <2> QED BY <2>3 DEF MMap!Init, Queues
<1>2. IInv /\ IInv' /\ [Next]_vars => MMapNext
  <2> SUFFICES ASSUME IInv, IInv', [Next]_vars PROVE UNCHANGED Queues \/ MMap!Next
    BY DEF MMapNext
  <2>1. PICK D, X, R : Inv(D, X, R)
    BY DEF IInv
  <2> QED BY <2>1, StepQueues
<1> QED BY <1>1, <1>2, Invariance, PTL DEF Spec, ImplementsMultiMap, MMap!Spec, MMapNext

-----------------------------------------------------------------------------
(* The search.                                                              *)

\* The search for k at the n-th node of its path, and what it has come to before.
Start == [node |-> root, found |-> NULL, gtTree |-> NULL]
Walked(k, n, f) ==
    f = [i \in 0..n |-> IF i = 0 THEN Start ELSE Walk(k, f[i - 1], KeyBits - i)]

\* There is such a search.
LEMMA WalkExists ==
    ASSUME NEW k, NEW n \in Nat
    PROVE  \E f : Walked(k, n, f)
<1> DEFINE Bad == {m \in Nat : \A f : ~Walked(k, m, f)}
<1>1. Bad = {}
  <2> SUFFICES ASSUME Bad # {} PROVE FALSE
    OBVIOUS
  <2>1. PICK m \in Bad : \A e \in Bad : m <= e
    BY LeastOfNaturals
  <2>2. m # 0
    <3>1. Walked(k, 0, [i \in 0..0 |-> Start])
      <4>1. \A i \in 0..0 : i = 0
        OBVIOUS
      <4> QED BY <4>1 DEF Walked
    <3> QED BY <2>1, <3>1
  <2>3. m - 1 \in Nat /\ m \in Nat /\ m - 1 \notin Bad
    <3>1. m \in Nat /\ m - 1 \in Nat /\ ~(m <= m - 1)
      BY <2>2
    <3> HIDE DEF Bad
    <3> QED BY <2>1, <3>1
  <2>4. PICK f : Walked(k, m - 1, f)
    BY <2>3
  <2>5. PICK g : g = [i \in 0..m |-> IF i = m THEN Walk(k, f[m - 1], KeyBits - m) ELSE f[i]]
    OBVIOUS
  <2>6. ASSUME NEW i \in 0..m
        PROVE  g[i] = IF i = 0 THEN Start ELSE Walk(k, g[i - 1], KeyBits - i)
    <3>1. CASE i = m
      <4>1. m - 1 \in 0..m /\ m - 1 # m
        BY <2>3
      <4> QED BY <2>2, <2>5, <3>1, <4>1
    <3>2. CASE i # m
      <4>1. i \in 0..(m - 1) /\ g[i] = f[i]
        BY <2>3, <2>5, <3>2
      <4>2. i # 0 => g[i - 1] = f[i - 1]
        <5>1. i # 0 => i - 1 \in 0..m /\ i - 1 # m
          BY <2>3, <4>1
        <5> QED BY <2>5, <5>1
      <4>3. f[i] = IF i = 0 THEN Start ELSE Walk(k, f[i - 1], KeyBits - i)
        BY <2>4, <4>1 DEF Walked
      <4> QED BY <4>1, <4>2, <4>3
    <3> QED BY <3>1, <3>2
  <2>7. g = [i \in 0..m |-> g[i]]
    BY <2>5
  <2>8. Walked(k, m, g)
    BY <2>6, <2>7 DEF Walked
  <2> QED BY <2>1, <2>8
<1> QED BY <1>1

Result(w) ==
    IF w.node # NULL THEN w.node ELSE IF w.found # NULL THEN w.found ELSE w.gtTree

\* It is the one of FindGEQ.
LEMMA FindWalks ==
    ASSUME NEW k
    PROVE  \E f : Walked(k, KeyBits + 1, f) /\ FindGEQ(k) = Result(f[KeyBits + 1])
<1> DEFINE W == CHOOSE f : f = [i \in 0..(KeyBits + 1) |->
                    IF i = 0 THEN [node |-> root, found |-> NULL, gtTree |-> NULL]
                    ELSE Walk(k, f[i - 1], KeyBits - i)]
<1>1. FindGEQ(k) = Result(W[KeyBits + 1])
  BY DEF FindGEQ, Result
<1>2. Walked(k, KeyBits + 1, W)
  <2>1. KeyBits + 1 \in Nat
    BY KeyBitsAssumption
  <2>2. W = CHOOSE f : Walked(k, KeyBits + 1, f)
    BY DEF Walked, Start
  <2> HIDE DEF W
  <2> QED BY <2>1, <2>2, WalkExists
<1> HIDE DEF W
<1> QED BY <1>1, <1>2

\* Where a search for k has come to after i bits.  Once it has met a node above k, that is
\* the least one.  Until then the nodes from k on are below the node it is at or
\* not smaller than gtTree, which is the least of those to the right of the path.
Least(k, n) == n \in Placed /\ k <= key[n] /\ \A m \in Placed : k <= key[m] => key[n] <= key[m]

WalkOK(D, X, k, i, w) ==
    /\ w.node \in Placed \union {NULL}
    /\ w.gtTree \in Placed \union {NULL}
    /\ w.found # NULL => Least(k, w.found)
    /\ w.gtTree # NULL => k < key[w.gtTree]
    /\ w.node # NULL /\ key[w.node] # k =>
          /\ D[w.node] = i /\ X[w.node] = Prefix(k, i)
          /\ w.gtTree # NULL => Prefix(k, i) < Prefix(key[w.gtTree], i)
    /\ w.found = NULL /\ (w.node # NULL => key[w.node] # k) =>
          \A m \in Placed : k <= key[m] =>
              \/ w.node # NULL /\ D[m] >= i /\ Prefix(key[m], i) = Prefix(k, i)
              \/ w.gtTree # NULL /\ key[w.gtTree] <= key[m]

\* It starts with the whole trie under the root.
LEMMA WalkStarts ==
    ASSUME NEW D, NEW X, NEW R, Inv(D, X, R), pc # "remove", NEW k \in Key
    PROVE  WalkOK(D, X, k, 0, Start)
<1>1. /\ TypeOK /\ LinksOK /\ PlacesOK(D, X) /\ KeysOK(D, X)
      /\ KeyBits \in Nat /\ \A n \in Node : key[n] \in Key /\ D[n] \in Nat
      /\ Placed \subseteq Node /\ NULL \notin Node
  BY Values, Types DEF Inv
<1>2. RootSlot \in Slots /\ At(RootSlot) = root /\ DepthOf(RootSlot, D) = 0 /\ PathOf(RootSlot, X) = 0
  BY DEF Slots, At, DepthOf, PathOf
<1>3. root # NULL => root \in Placed /\ D[root] = 0 /\ X[root] = 0
  BY <1>1, <1>2, InSlot
<1>4. \A n \in Node : Prefix(key[n], 0) = 0
  BY <1>1, PrefixEnds
<1>5. ASSUME NEW m \in Placed PROVE root # NULL
  <2>1. 0 \in 0..D[m]
    BY <1>1
  <2>2. PICK q \in Placed : D[q] = 0 /\ X[q] = Prefix(key[m], 0)
    BY <1>1, <2>1, Ancestors
  <2>3. At(RootSlot) = q
    BY <1>1, <1>2, <1>4, <2>2, FoundAt
  <2> QED BY <1>1, <1>2, <2>3
<1>6. Prefix(k, 0) = 0
  BY PrefixEnds
<1>7. Start.node = root /\ Start.found = NULL /\ Start.gtTree = NULL
  BY DEF Start
<1>8. \A m \in Placed : root # NULL /\ D[m] >= 0 /\ Prefix(key[m], 0) = Prefix(k, 0)
  BY <1>1, <1>4, <1>5, <1>6
<1> QED BY <1>3, <1>6, <1>7, <1>8 DEF WalkOK

\* What the next bit of the key says about the nodes on its path so far.
LEMMA NextWay ==
    ASSUME NEW D, NEW X, NEW R, Inv(D, X, R), pc # "remove", NEW k \in Key,
           NEW n \in Placed, NEW i \in 0..KeyBits, i # KeyBits, D[n] = i, X[n] = Prefix(k, i),
           NEW b \in Side
    PROVE  /\ child[n][b] # NULL =>
                 /\ child[n][b] \in Placed /\ D[child[n][b]] = i + 1
                 /\ X[child[n][b]] = 2 * Prefix(k, i) + b
                 /\ Prefix(key[child[n][b]], i + 1) = 2 * Prefix(k, i) + b
           /\ \A m \in Placed :
                 D[m] >= i + 1 /\ Prefix(key[m], i + 1) = 2 * Prefix(k, i) + b =>
                     child[n][b] # NULL /\ key[child[n][b]] <= key[m]
<1>1. /\ TypeOK /\ LinksOK /\ PlacesOK(D, X) /\ KeysOK(D, X)
      /\ KeyBits \in Nat /\ \A q \in Node : key[q] \in Key /\ D[q] \in Nat
      /\ Placed \subseteq Node /\ NULL \notin Node
  BY Values, Types DEF Inv
<1>2. PICK s \in Slots : s = <<n, b>> /\ s[1] = n /\ s[2] = b
  <2>1. <<n, b>> \in Slots
    BY DEF Slots
  <2> QED BY <2>1
<1>3. s # RootSlot
  BY <1>1, <1>2, SlotShape
<1>4. At(s) = child[n][b] /\ DepthOf(s, D) = i + 1 /\ PathOf(s, X) = 2 * Prefix(k, i) + b
  BY <1>2, <1>3 DEF At, DepthOf, PathOf
<1>5. ASSUME child[n][b] # NULL
      PROVE  /\ child[n][b] \in Placed /\ D[child[n][b]] = i + 1
             /\ X[child[n][b]] = 2 * Prefix(k, i) + b
             /\ Prefix(key[child[n][b]], i + 1) = 2 * Prefix(k, i) + b
  <2>1. PICK c : c = child[n][b] /\ c \in Placed /\ D[c] = i + 1 /\ X[c] = 2 * Prefix(k, i) + b
    BY <1>1, <1>4, <1>5, InSlot
  <2>2. Prefix(key[c], D[c]) = X[c]
    BY <1>1, <2>1 DEF KeysOK, Pushed
  <2> QED BY <2>1, <2>2
<1>6. ASSUME NEW m \in Placed, D[m] >= i + 1, Prefix(key[m], i + 1) = 2 * Prefix(k, i) + b
      PROVE  child[n][b] # NULL /\ key[child[n][b]] <= key[m]
  <2>1. i + 1 \in 0..D[m]
    BY <1>1, <1>6
  <2>2. PICK q \in Placed : /\ D[q] = i + 1 /\ X[q] = Prefix(key[m], i + 1)
                            /\ key[q] <= key[m]
    BY <1>1, <2>1, Ancestors
  <2>3. At(s) = q
    BY <1>1, <1>4, <1>6, <2>2, FoundAt
  <2> QED BY <1>1, <1>4, <2>2, <2>3
<1> QED BY <1>5, <1>6

\* One iteration keeps to that.
LEMMA WalkStep ==
    ASSUME NEW D, NEW X, NEW R, Inv(D, X, R), pc # "remove", NEW k \in Key,
           NEW i \in 0..KeyBits, NEW w, WalkOK(D, X, k, i, w)
    PROVE  WalkOK(D, X, k, i + 1, Walk(k, w, KeyBits - (i + 1)))
<1>1. /\ TypeOK /\ LinksOK /\ PlacesOK(D, X) /\ KeysOK(D, X)
      /\ KeyBits \in Nat /\ k \in Nat
      /\ \A n \in Node : key[n] \in Key /\ key[n] \in Nat /\ D[n] \in 0..KeyBits /\ D[n] \in Nat
      /\ Placed \subseteq Node /\ NULL \notin Node
  BY Values, Types DEF Inv, Key, PlacesOK
<1>2. CASE w.node = NULL \/ key[w.node] = k
  <2>1. Walk(k, w, KeyBits - (i + 1)) = w
    BY <1>2 DEF Walk
  <2>2. WalkOK(D, X, k, i + 1, w)
    BY <1>2 DEF WalkOK
  <2> QED BY <2>1, <2>2
<1>3. CASE w.node # NULL /\ key[w.node] # k
  <2>1. PICK n \in Placed : n = w.node
    BY <1>3 DEF WalkOK
  <2>2. PICK f, g : f = w.found /\ g = w.gtTree
    OBVIOUS
  <2>3. /\ key[n] # k /\ g \in Placed \union {NULL}
        /\ f # NULL => Least(k, f)
        /\ g # NULL => k < key[g]
        /\ D[n] = i /\ X[n] = Prefix(k, i)
        /\ g # NULL => Prefix(k, i) < Prefix(key[g], i)
        /\ f = NULL =>
              \A m \in Placed : k <= key[m] =>
                  \/ D[m] >= i /\ Prefix(key[m], i) = Prefix(k, i)
                  \/ g # NULL /\ key[g] <= key[m]
    BY <1>3, <2>1, <2>2 DEF WalkOK
  <2>4. Prefix(key[n], i) = Prefix(k, i)
    BY <1>1, <2>3 DEF KeysOK, Pushed
  <2>5. i # KeyBits
    BY <1>1, <2>3, <2>4, PrefixEnds
  <2>6. PICK side \in Side : side = QueryBit(k, KeyBits - (i + 1)) /\ Prefix(k, i + 1) = 2 * Prefix(k, i) + side
    <3>1. ~(KeyBits - (i + 1) < 0)
      BY <1>1, <2>5
    <3> QED BY <2>5, <3>1, PrefixNext DEF QueryBit
  <2>7. PICK x \in Nat : x = Prefix(k, i)
    BY <2>5, PrefixNext
  <2>8. PICK n2 : n2 = child[n][side]
    OBVIOUS
  <2>9. PICK f2 : f2 = IF key[n] > k THEN SmallerNode(n, f) ELSE f
    OBVIOUS
  <2>10. PICK g2 : g2 = IF side = 0 /\ child[n][1] # NULL THEN child[n][1] ELSE g
    OBVIOUS
  <2>11. Walk(k, w, KeyBits - (i + 1)) = [node |-> n2, found |-> f2, gtTree |-> g2]
    BY <1>3, <2>1, <2>2, <2>6, <2>8, <2>9, <2>10 DEF Walk
  <2>12. n2 # NULL => n2 \in Placed /\ D[n2] = i + 1 /\ X[n2] = Prefix(k, i + 1)
    BY <2>3, <2>5, <2>6, <2>8, NextWay
  <2>13. ASSUME g2 # g
         PROVE  /\ side = 0 /\ g2 = child[n][1] /\ g2 # NULL /\ g2 \in Placed
                /\ Prefix(key[g2], i + 1) = 2 * x + 1
    <3>1. side = 0 /\ g2 = child[n][1] /\ g2 # NULL /\ 1 \in Side
      BY <2>10, <2>13 DEF Side
    <3> QED BY <2>3, <2>5, <2>7, <3>1, NextWay
  <2>14. i + 1 \in 0..KeyBits
    BY <1>1, <2>5
  <2>15. ASSUME NEW m \in Node
         PROVE  /\ Prefix(key[m], i) \in Nat
                /\ \E b \in Side : Prefix(key[m], i + 1) = 2 * Prefix(key[m], i) + b
    BY <1>1, <2>5, PrefixNext
  <2>16. g2 # NULL => Prefix(k, i + 1) < Prefix(key[g2], i + 1)
    <3> SUFFICES ASSUME g2 # NULL PROVE Prefix(k, i + 1) < Prefix(key[g2], i + 1)
      OBVIOUS
    <3>1. CASE g2 # g
      BY <2>6, <2>7, <2>13, <3>1
    <3>2. CASE g2 = g
      <4>1. g \in Node
        BY <1>1, <2>3, <3>2
      <4>2. PICK y \in Nat, b \in Side : y = Prefix(key[g], i) /\ Prefix(key[g], i + 1) = 2 * y + b
        BY <2>15, <4>1
      <4>3. x < y
        BY <2>3, <2>7, <3>2, <4>2
      <4> QED BY <2>6, <2>7, <3>2, <4>2, <4>3 DEF Side
    <3> QED BY <3>1, <3>2
  <2>17. g2 \in Placed \union {NULL}
    BY <2>3, <2>13
  <2>18. g2 # NULL => k < key[g2]
    BY <1>1, <2>14, <2>16, <2>17, PrefixOrder
  <2>19. ASSUME f = NULL, k < key[n] PROVE Least(k, n)
    <3> SUFFICES ASSUME NEW m \in Placed, k <= key[m] PROVE key[n] <= key[m]
      BY <1>1, <2>19 DEF Least
    <3>1. CASE D[m] >= i /\ Prefix(key[m], i) = Prefix(k, i)
      <4>1. i \in 0..D[m]
        BY <1>1, <3>1
      <4>2. PICK q \in Placed : D[q] = i /\ X[q] = Prefix(key[m], i) /\ key[q] <= key[m]
        BY <1>1, <4>1, Ancestors
      <4>3. q = n
        BY <1>1, <2>3, <3>1, <4>2 DEF PlacesOK
      <4> QED BY <4>2, <4>3
    <3>2. CASE g # NULL /\ key[g] <= key[m]
      <4>1. Prefix(key[n], i) < Prefix(key[g], i) /\ g \in Node
        BY <1>1, <2>3, <2>4, <3>2
      <4>2. key[n] < key[g]
        BY <1>1, <4>1, PrefixOrder
      <4> QED BY <1>1, <3>2, <4>1, <4>2
    <3> QED BY <2>3, <2>19, <3>1, <3>2
  <2>20. f2 # NULL => Least(k, f2)
    <3>1. CASE ~(key[n] > k)
      BY <2>3, <2>9, <3>1
    <3>2. CASE key[n] > k /\ f = NULL
      <4>1. f2 = n
        BY <2>9, <3>2 DEF SmallerNode
      <4> QED BY <1>1, <2>19, <3>2, <4>1
    <3>3. CASE key[n] > k /\ f # NULL
      <4>1. key[f] <= key[n] /\ f \in Placed
        BY <1>1, <2>3, <3>3 DEF Least
      <4>2. ~(key[n] < key[f])
        BY <1>1, <4>1
      <4>3. f2 = f
        BY <2>9, <3>3, <4>2 DEF SmallerNode
      <4> QED BY <2>3, <3>3, <4>3
    <3> QED BY <3>1, <3>2, <3>3
  <2>21. ASSUME f2 = NULL, NEW m \in Placed, k <= key[m]
         PROVE  \/ n2 # NULL /\ D[m] >= i + 1 /\ Prefix(key[m], i + 1) = Prefix(k, i + 1)
                \/ g2 # NULL /\ key[g2] <= key[m]
    <3>1. f = NULL /\ key[n] < k
      BY <1>1, <2>1, <2>3, <2>9, <2>21 DEF SmallerNode
    <3>2. CASE g # NULL /\ key[g] <= key[m]
      <4>1. CASE g2 = g
        BY <3>2, <4>1
      <4>2. CASE g2 # g
        <5>1. g2 \in Placed /\ g2 \in Node /\ g \in Node /\ g2 # NULL
          BY <1>1, <2>3, <2>13, <3>2, <4>2
        <5>2. PICK y \in Nat, b \in Side : y = Prefix(key[g], i) /\ Prefix(key[g], i + 1) = 2 * y + b
          BY <2>15, <5>1
        <5>3. Prefix(key[g2], i + 1) < Prefix(key[g], i + 1)
          BY <2>3, <2>7, <2>13, <3>2, <4>2, <5>2 DEF Side
        <5>4. key[g2] < key[g]
          BY <1>1, <2>14, <5>1, <5>3, PrefixOrder
        <5> QED BY <1>1, <3>2, <5>1, <5>4
      <4> QED BY <4>1, <4>2
    <3>3. CASE D[m] >= i /\ Prefix(key[m], i) = Prefix(k, i)
      <4>1. m # n
        BY <1>1, <2>21, <3>1
      <4>2. D[m] >= i + 1
        <5> SUFFICES ASSUME D[m] = i PROVE FALSE
          BY <1>1, <3>3
        <5>1. Prefix(key[m], D[m]) = X[m]
          BY <1>1 DEF KeysOK, Pushed
        <5> QED BY <1>1, <2>3, <3>3, <4>1, <5>1 DEF PlacesOK
      <4>3. PICK b \in Side : Prefix(key[m], i + 1) = 2 * x + b
        BY <1>1, <2>7, <2>15, <3>3
      <4>4. child[n][b] # NULL /\ key[child[n][b]] <= key[m]
        BY <2>3, <2>5, <2>7, <4>2, <4>3, NextWay
      <4>5. CASE b = side
        BY <2>6, <2>7, <2>8, <4>2, <4>3, <4>4, <4>5
      <4>6. CASE b # side
        <5>1. side = 0 /\ b = 1
          <6> SUFFICES ASSUME ~(side = 0 /\ b = 1) PROVE FALSE
            OBVIOUS
          <6>1. Prefix(key[m], i + 1) < Prefix(k, i + 1)
            BY <2>6, <2>7, <4>3, <4>6 DEF Side
          <6>2. key[m] < k
            BY <1>1, <2>14, <6>1, PrefixOrder
          <6> QED BY <1>1, <2>21, <6>2
        <5> QED BY <2>10, <4>4, <5>1
      <4> QED BY <4>5, <4>6
    <3> QED BY <2>3, <2>21, <3>1, <3>2, <3>3
  <2> QED BY <2>11, <2>12, <2>16, <2>17, <2>18, <2>20, <2>21 DEF WalkOK
<1> QED BY <1>2, <1>3

\* The search comes to its end at the last bit, and returns the node with the least key.
LEMMA FindsLeast ==
    ASSUME NEW D, NEW X, NEW R, Inv(D, X, R), pc # "remove", NEW k \in Key
    PROVE  \/ Least(k, FindGEQ(k))
           \/ FindGEQ(k) = NULL /\ \A m \in Placed : ~(k <= key[m])
<1>1. KeyBits \in Nat /\ k \in Nat /\ NULL \notin Placed
      /\ \A n \in Placed : key[n] \in Nat /\ D[n] \in 0..KeyBits
  BY Values, Types DEF Inv, Key, PlacesOK
<1>2. PICK f : Walked(k, KeyBits + 1, f) /\ FindGEQ(k) = Result(f[KeyBits + 1])
  BY FindWalks
<1>3. /\ f[0] = Start
      /\ \A i \in 0..KeyBits : f[i + 1] = Walk(k, f[i], KeyBits - (i + 1))
  <2>1. \A i \in 0..(KeyBits + 1) : f[i] = IF i = 0 THEN Start ELSE Walk(k, f[i - 1], KeyBits - i)
    BY <1>2 DEF Walked
  <2>2. \A i \in 0..KeyBits : i + 1 \in 0..(KeyBits + 1) /\ i + 1 # 0 /\ (i + 1) - 1 = i
    BY <1>1
  <2> QED BY <1>1, <2>1, <2>2
<1> DEFINE Bad == {i \in 0..(KeyBits + 1) : ~WalkOK(D, X, k, i, f[i])}
<1>4. Bad = {}
  <2> SUFFICES ASSUME Bad # {} PROVE FALSE
    OBVIOUS
  <2>1. Bad \in SUBSET Nat
    OBVIOUS
  <2>2. PICK i \in Bad : \A j \in Bad : i <= j
    BY <2>1, LeastOfNaturals
  <2>3. i \in 0..(KeyBits + 1) /\ ~WalkOK(D, X, k, i, f[i])
    OBVIOUS
  <2>4. i # 0
    BY <1>3, <2>3, WalkStarts
  <2>5. /\ i - 1 \in 0..KeyBits /\ i - 1 \in 0..(KeyBits + 1) /\ ~(i <= i - 1) /\ (i - 1) + 1 = i
    BY <1>1, <2>3, <2>4
  <2>6. WalkOK(D, X, k, i - 1, f[i - 1])
    BY <2>2, <2>5
  <2>7. WalkOK(D, X, k, (i - 1) + 1, Walk(k, f[i - 1], KeyBits - ((i - 1) + 1)))
    BY <2>5, <2>6, WalkStep
  <2>8. f[(i - 1) + 1] = Walk(k, f[i - 1], KeyBits - ((i - 1) + 1))
    BY <1>3, <2>5
  <2> QED BY <2>3, <2>5, <2>7, <2>8
<1>5. PICK w : w = f[KeyBits + 1] /\ WalkOK(D, X, k, KeyBits + 1, w)
  <2>1. KeyBits + 1 \in 0..(KeyBits + 1)
    BY <1>1
  <2> QED BY <1>4, <2>1
<1>6. w.node # NULL => w.node \in Placed /\ key[w.node] = k
  <2> SUFFICES ASSUME w.node # NULL, key[w.node] # k PROVE FALSE
    BY <1>5 DEF WalkOK
  <2>1. w.node \in Placed /\ D[w.node] = KeyBits + 1
    BY <1>5 DEF WalkOK
  <2> QED BY <1>1, <2>1
<1>7. CASE w.node # NULL
  <2>1. FindGEQ(k) = w.node
    BY <1>2, <1>5, <1>7 DEF Result
  <2> QED BY <1>1, <1>6, <1>7, <2>1 DEF Least
<1>8. CASE w.node = NULL /\ w.found # NULL
  <2>1. FindGEQ(k) = w.found
    BY <1>2, <1>5, <1>8 DEF Result
  <2> QED BY <1>5, <1>8, <2>1 DEF WalkOK
<1>9. CASE w.node = NULL /\ w.found = NULL
  <2>1. FindGEQ(k) = w.gtTree
    BY <1>2, <1>5, <1>9 DEF Result
  <2>2. /\ w.gtTree \in Placed \union {NULL}
        /\ w.gtTree # NULL => k < key[w.gtTree]
        /\ \A m \in Placed : k <= key[m] => w.gtTree # NULL /\ key[w.gtTree] <= key[m]
    BY <1>5, <1>9 DEF WalkOK
  <2>3. CASE w.gtTree = NULL
    BY <2>1, <2>2, <2>3
  <2>4. CASE w.gtTree # NULL
    BY <1>1, <2>1, <2>2, <2>4 DEF Least
  <2> QED BY <2>3, <2>4
<1> QED BY <1>7, <1>8, <1>9

\* Between calls radixTreeFindGEQ returns the node first inserted of those with the least
\* key from the one asked for on, and NULL where there is none.
THEOREM GEQIsExact == Spec => []GEQExact
<1>1. IInv => GEQExact
  <2> SUFFICES ASSUME NEW D, NEW X, NEW R, Inv(D, X, R), pc = "idle", NEW k \in Key,
                      NEW after, after = {j \in Key : j >= k /\ Queues[j] # <<>>}
               PROVE  FindGEQ(k) = IF after = {} THEN NULL
                                   ELSE Head(Queues[CHOOSE j \in after : \A i \in after : j <= i])
    BY DEF IInv, GEQExact
  <2>1. QueueSpec /\ Placed \subseteq Node /\ \A n \in Node : key[n] \in Key
    BY QueuesTold, Types DEF Inv
  <2>2. First = Placed
    BY DEF First
  <2>3. Key \subseteq Nat
    BY DEF Key
  <2>4. ASSUME NEW p \in Placed
        PROVE  Queues[key[p]] # <<>> /\ Head(Queues[key[p]]) = p
    <3>1. PICK s : s = Queues[key[p]] /\ IsRing(p, s)
      BY <2>1, <2>2 DEF QueueSpec
    <3>2. s \in Seq(Node) /\ Len(s) > 0 /\ s[1] = p
      BY <3>1 DEF IsRing, IsChain
    <3>3. s # <<>> /\ Head(s) = p
      BY <3>2
    <3> QED BY <3>1, <3>3
  <2>5. \A j \in Key : Queues[j] # <<>> <=> \E p \in Placed : key[p] = j
    BY <2>1, <2>2, <2>4 DEF QueueSpec
  <2>6. CASE Least(k, FindGEQ(k))
    <3>1. PICK n \in Placed : /\ n = FindGEQ(k) /\ k <= key[n]
                              /\ \A m \in Placed : k <= key[m] => key[n] <= key[m]
      BY <2>6 DEF Least
    <3>2. key[n] \in after /\ \A i \in after : key[n] <= i
      BY <2>1, <2>3, <2>5, <3>1
    <3>3. ASSUME NEW j \in after, \A i \in after : j <= i PROVE j = key[n]
      <4>1. j \in Nat /\ key[n] \in Nat
        BY <2>1, <2>3
      <4>2. j <= key[n] /\ key[n] <= j
        BY <3>2, <3>3
      <4> QED BY <4>1, <4>2
    <3>4. (CHOOSE j \in after : \A i \in after : j <= i) = key[n]
      BY <3>2, <3>3
    <3> QED BY <2>4, <3>1, <3>2, <3>4
  <2>7. CASE FindGEQ(k) = NULL /\ \A m \in Placed : ~(k <= key[m])
    <3>1. after = {}
      BY <2>1, <2>3, <2>5, <2>7
    <3> QED BY <2>7, <3>1
  <2> QED BY <2>6, <2>7, FindsLeast
<1> QED BY <1>1, Invariance, PTL
=============================================================================
