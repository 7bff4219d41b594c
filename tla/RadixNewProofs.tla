--------------------------- MODULE RadixNewProofs ---------------------------
(***************************************************************************)
(* Proofs about RadixNew for any number of levels, words and bits, any     *)
(* pools, and allocation failing at will.                                  *)
(*                                                                         *)
(* The inductive invariant describes the tree without recursion: there are *)
(* for every array in use its level L, the word O of a node that points to *)
(* it, and the set T of the keys that lead through it.                     *)
(***************************************************************************)
EXTENDS RadixNewHistory, WellFoundedInduction, TLAPS

Array == NonLeafArray \union LeafArray

\* The nodes of the tree, and the arrays that nodes of a level may point to.
Used == {Root} \union (nonLeafLive \X Slot)
Live(level) == IF level = LastLevel THEN leafLive ELSE nonLeafLive

\* The level of a node, and the keys that lead to it.
LevelOf(n, L) == IF n = Root THEN 0 ELSE L[n[1]] + 1
KeysOf(n, L, T) ==
    IF n = Root THEN Key ELSE {k \in T[n[1]] : SlotOf(KeyLevelBits(k, L[n[1]])) = n[2]}

\* Every pointer leads to an array of the right pool, which it alone owns; every
\* array in use is owned; and a key leads to one node of a level at most.
ArraysOK(L, O, T) ==
    /\ L \in [Array -> Nat]
    /\ \A n \in Used : LevelOf(n, L) \in 0..LastLevel
    /\ \A n \in Used, w \in Word : children[n][w] # NULL =>
          children[n][w] \in Live(LevelOf(n, L)) /\ O[children[n][w]] = <<n, w>>
    /\ \A a \in nonLeafLive \union leafLive : \E n \in Used, w \in Word :
          /\ children[n][w] = a
          /\ L[a] = LevelOf(n, L)
          /\ T[a] = {k \in KeysOf(n, L, T) : WordOf(KeyLevelBits(k, L[a])) = w}
    /\ \A n, m \in Used : \A k \in KeysOf(n, L, T) \intersect KeysOf(m, L, T) :
          LevelOf(n, L) = LevelOf(m, L) => n = m

\* A word has an array exactly while it has a bit, and what is below a bit that
\* is not set is empty; a value is in the place of a key.
BitsOK(L, T) ==
    /\ \A n \in Used, w \in Word : children[n][w] # NULL <=> InWord(bits[n], w) # {}
    /\ \A n \in Used, c \in Child :
          children[n][WordOf(c)] # NULL /\ ~Hollow(LevelOf(n, L), n, c) => c \in bits[n]
    /\ \A n \in Used, c \in Child :
          LevelOf(n, L) = LastLevel /\ children[n][WordOf(c)] # NULL /\ ValueAt(n, c) # 0
              => \E k \in KeysOf(n, L, T) : KeyLevelBits(k, LastLevel) = c

\* A running call is at a node on the way of its key, the nodes of path, whose
\* bits an insert has set.
Running == pc \in {"insert", "remove", "clean"}

PathOK(L, T) ==
    Running =>
        /\ Len(path) \in 1..NumLevels
        /\ \A i \in 1..Len(path) : /\ path[i] \in Used /\ LevelOf(path[i], L) = i - 1
                                   /\ call.key \in KeysOf(path[i], L, T)
        /\ pc = "insert" => \A i \in 1..(Len(path) - 1) :
               KeyLevelBits(call.key, i - 1) \in bits[path[i]]

\* The call and its answer.  When the bits are cleared, what is below the one to
\* be cleared next is empty.
InsertCall == [op : {"insert"}, key : Key, value : Value]
RemoveCall == [op : {"remove"}, key : Key]

CallOK ==
    /\ pc = "idle" => call = NoCall /\ answer = Pending
    /\ pc = "insert" => call \in InsertCall /\ answer = Pending
    /\ pc = "remove" => call \in RemoveCall /\ answer = Pending
    /\ pc = "clean" =>
          /\ call \in RemoveCall /\ answer \in Value \union {0}
          /\ ChildArray # NULL => Hollow(Level, Here, KeyBits)
    /\ pc = "return" => call \in InsertCall \union RemoveCall /\ answer # Pending

Inv(L, O, T) ==
    /\ TypeOK
    /\ numLevels = 0 => Zeroed /\ pc = "idle"
    /\ FreeArraysAreClean
    /\ ArraysOK(L, O, T) /\ BitsOK(L, T) /\ PathOK(L, T) /\ CallOK

IInv == \E L, O, T : Inv(L, O, T)

-----------------------------------------------------------------------------
(* Numbers.                                                                 *)

\* A set of naturals that is not empty has a least member.
LEMMA LeastOfNaturals ==
    ASSUME NEW S \in SUBSET Nat, S # {}
    PROVE  \E m \in S : \A y \in S : m <= y
<1> DEFINE R == OpToRel(<, Nat)
<1>1. IsWellFoundedOn(R, Nat)
  BY NatLessThanWellFounded
<1>2. R = {x \in Nat \X Nat : x[1] < x[2]}
  BY Zenon DEF OpToRel
<1> HIDE DEF R
<1>3. PICK m \in S : \A y \in S : ~(<<y, m>> \in R)
  BY <1>1, WFMin, Zenon
<1>4. \A y \in S : m <= y
  <2> SUFFICES ASSUME NEW y \in S PROVE m <= y
    OBVIOUS
  <2>1. <<y, m>> \in Nat \X Nat /\ <<y, m>>[1] = y /\ <<y, m>>[2] = m
    OBVIOUS
  <2>2. ~(<<y, m>>[1] < <<y, m>>[2])
    BY <1>2, <1>3, <2>1, Zenon
  <2> QED BY <2>1, <2>2
<1> QED BY <1>4

\* A quotient is told by the multiples next to the number.
LEMMA QuotientUnique ==
    ASSUME NEW u \in Nat, u > 0, NEW x \in Nat, NEW y \in Nat, NEW k \in Nat,
           u * x <= k, k < u * x + u, u * y <= k, k < u * y + u
    PROVE  x = y
<1>1. ASSUME NEW a \in Nat, NEW b \in Nat, a < b PROVE u * a + u <= u * b
  <2>1. u * b = u * a + u * (b - a)
    OBVIOUS
  <2>2. b - a >= 1
    BY <1>1
  <2>3. u * (b - a) >= u
    BY <2>2
  <2> QED BY <2>1, <2>3
<1> QED BY <1>1

\* A number is its quotient times the divisor and a rest.
LEMMA Quotient ==
    ASSUME NEW k \in Nat, NEW u \in Nat, u > 0
    PROVE  k \div u \in Nat /\ u * (k \div u) <= k /\ k < u * (k \div u) + u
<1>1. k = u * (k \div u) + (k % u) /\ (k % u) \in 0..(u - 1) /\ (k \div u) \in Nat
  OBVIOUS
<1> QED BY <1>1

\* Dividing by f times as much drops the last digit of the quotient in base f.
LEMMA QuotientOfProduct ==
    ASSUME NEW k \in Nat, NEW u \in Nat, u > 0, NEW f \in Nat, f > 0
    PROVE  /\ k \div u = f * (k \div (f * u)) + ((k \div u) % f)
           /\ (k \div u) % f \in 0..(f - 1)
<1>1. PICK q \in Nat : q = k \div u
  BY Quotient
<1>2. PICK h \in Nat, r \in 0..(f - 1) : q = f * h + r /\ r = q % f
  <2>1. q = f * (q \div f) + (q % f) /\ q \div f \in Nat /\ q % f \in 0..(f - 1)
    OBVIOUS
  <2> QED BY <2>1
<1>3. u * q <= k /\ k < u * q + u
  BY <1>1, Quotient
<1>4. PICK v \in Nat : v = f * u /\ v > 0
  OBVIOUS
<1>5. u * q = v * h + u * r
  BY <1>2, <1>4
<1>6. 0 <= u * r /\ u * r + u <= v
  <2>1. PICK d \in Nat : f = r + 1 + d
    <3>1. f - 1 - r \in Nat /\ f = r + 1 + (f - 1 - r)
      OBVIOUS
    <3> QED BY <3>1
  <2>2. v = u * r + u + u * d /\ u * d >= 0 /\ u * r >= 0
    BY <1>4, <2>1
  <2>3. u * r \in Nat /\ u * d \in Nat
    BY <2>1
  <2> QED BY <1>4, <2>2, <2>3
<1>7. v * h <= k /\ k < v * h + v
  <2>1. u * r \in Nat /\ v * h \in Nat /\ u * q \in Nat
    OBVIOUS
  <2> QED BY <1>3, <1>5, <1>6, <2>1
<1>8. k \div v = h
  <2>1. k \div v \in Nat /\ v * (k \div v) <= k /\ k < v * (k \div v) + v
    BY <1>4, Quotient
  <2> QED BY <1>4, <1>7, <2>1, QuotientUnique
<1> QED BY <1>1, <1>2, <1>4, <1>8

-----------------------------------------------------------------------------
(* Numbers of levels, words and slots.                                      *)

\* The model's constants as the provers need them.
LEMMA Constants ==
    /\ NumLevels \in Nat \ {0} /\ LastLevel \in Nat /\ LastLevel + 1 = NumLevels
    /\ Words \in Nat \ {0} /\ WordBits \in Nat \ {0} /\ Fanout \in Nat \ {0}
    /\ Fanout = Words * WordBits
    /\ NULL \notin Array /\ NULL \notin Node /\ 0 \notin Value
    /\ Root \in Node /\ \A a \in NonLeafArray, s \in Slot : <<a, s>> # Root
<1>1. NumLevels \in Nat \ {0}
  <2>1. PICK b \in Nat : b = Log2Max - Log2Align /\ b > 0
    BY ShapeAssumption
  <2>2. PICK k \in Nat : k = Log2Max - Log2Align + LevelBits - 1 /\ k >= LevelBits
    BY <2>1, ShapeAssumption
  <2>3. LevelBits \in Nat /\ LevelBits > 0
    BY ShapeAssumption
  <2>4. /\ k \div LevelBits \in Nat
        /\ k < LevelBits * (k \div LevelBits) + LevelBits
    BY <2>3, Quotient
  <2>5. k \div LevelBits # 0
    BY <2>2, <2>3, <2>4
  <2> QED BY <2>2, <2>4, <2>5 DEF NumLevels
<1>2. Fanout \in Nat \ {0}
  BY ShapeAssumption DEF Fanout
<1>3. Root \in Node /\ \A a \in NonLeafArray, s \in Slot : <<a, s>> # Root
  <2>1. ASSUME NEW a \in NonLeafArray, NEW s \in Slot PROVE <<a, s>> # Root
    BY NodeAssumption DEF Root
  <2> QED BY <2>1 DEF Node
<1> QED
  BY <1>1, <1>2, <1>3, ShapeAssumption, DataAssumption, NodeAssumption
  DEF LastLevel, Fanout, Array

\* A child is told by its word and its slot.
LEMMA WordAndSlot ==
    ASSUME NEW c \in Child
    PROVE  /\ WordOf(c) \in Word /\ SlotOf(c) \in Slot
           /\ c = WordBits * WordOf(c) + SlotOf(c)
<1>1. c \in Nat /\ c < Words * WordBits /\ WordBits \in Nat /\ WordBits > 0 /\ Words \in Nat
  BY Constants DEF Child
<1>2. c = WordBits * (c \div WordBits) + (c % WordBits) /\ c % WordBits \in 0..(WordBits - 1)
  BY <1>1
<1>3. c \div WordBits \in Nat
  BY <1>1, Quotient
<1>4. c \div WordBits < Words
  <2> SUFFICES ASSUME c \div WordBits >= Words PROVE FALSE
    BY <1>1, <1>3
  <2>1. PICK d \in Nat : c \div WordBits = Words + d
    <3>1. (c \div WordBits) - Words \in Nat
      BY <1>1, <1>3
    <3> QED BY <1>1, <1>3, <3>1
  <2>2. WordBits * (c \div WordBits) = Words * WordBits + WordBits * d /\ WordBits * d >= 0
    BY <1>1, <2>1
  <2> QED BY <1>1, <1>2, <2>2
<1> QED BY <1>1, <1>2, <1>3, <1>4 DEF WordOf, SlotOf, Word, Slot

\* Every slot of every word is a child's.
LEMMA ChildAt ==
    ASSUME NEW w \in Word, NEW s \in Slot
    PROVE  \E c \in Child : WordOf(c) = w /\ SlotOf(c) = s
<1>1. PICK b \in Nat, v \in Nat : b = WordBits /\ v = Words /\ b > 0
  BY Constants
<1>2. w \in Nat /\ s \in Nat /\ w < v /\ s < b
  BY <1>1 DEF Word, Slot
<1>3. PICK c \in Nat : c = b * w + s
  BY <1>1, <1>2
<1>4. c \div b = w
  <2>1. b * w <= c /\ c < b * w + b
    BY <1>2, <1>3
  <2> QED BY <1>1, <1>2, <2>1, Quotient, QuotientUnique
<1>5. c % b = s
  <2>1. c = b * (c \div b) + (c % b) /\ c % b \in 0..(b - 1)
    BY <1>1
  <2>2. b * w \in Nat
    BY <1>2
  <2> QED BY <1>2, <1>3, <1>4, <2>1, <2>2
<1>6. c < v * b
  <2>1. PICK d \in Nat : v = w + 1 + d
    <3>1. v - 1 - w \in Nat
      BY <1>2
    <3> QED BY <1>2, <3>1
  <2>2. (w + 1 + d) * b = b * w + b + b * d /\ b * d \in Nat /\ b * w \in Nat
    BY <1>1, <1>2
  <2> QED BY <1>1, <1>2, <1>3, <2>1, <2>2
<1>7. c \in Child
  BY <1>1, <1>3, <1>6, Constants DEF Child
<1> QED BY <1>1, <1>4, <1>5, <1>7 DEF WordOf, SlotOf

\* The part of a key for a level is a child.
LEMMA KeyPart ==
    ASSUME NEW k \in Key, NEW level \in 0..LastLevel
    PROVE  KeyLevelBits(k, level) \in Child
<1>1. LastLevel - level \in 0..NumLevels
  BY Constants
<1>2. PICK u \in Nat : u = Fanout ^ (LastLevel - level) /\ u > 0
  BY <1>1, PowerAssumption
<1>3. k \in Nat
  BY DataAssumption
<1>4. PICK f \in Nat : f = Fanout /\ f > 0
  BY Constants
<1>5. (k \div u) % f \in 0..(f - 1)
  BY <1>2, <1>3, <1>4, QuotientOfProduct
<1> QED BY <1>2, <1>4, <1>5 DEF KeyLevelBits, Child

-----------------------------------------------------------------------------
(* Owners, parents and children.                                            *)

\* What the array under a word knows of the word.
LEMMA Owned ==
    ASSUME NEW L, NEW O, NEW T, ArraysOK(L, O, T),
           NEW n \in Used, NEW w \in Word, children[n][w] # NULL
    PROVE  /\ children[n][w] \in Live(LevelOf(n, L))
           /\ L[children[n][w]] = LevelOf(n, L)
           /\ T[children[n][w]] =
                 {k \in KeysOf(n, L, T) : WordOf(KeyLevelBits(k, LevelOf(n, L))) = w}
<1> DEFINE a == children[n][w]
<1>1. a \in Live(LevelOf(n, L)) /\ O[a] = <<n, w>>
  BY DEF ArraysOK
<1>2. a \in nonLeafLive \union leafLive
  BY <1>1 DEF Live
<1>3. PICK m \in Used, v \in Word :
          /\ children[m][v] = a
          /\ L[a] = LevelOf(m, L)
          /\ T[a] = {k \in KeysOf(m, L, T) : WordOf(KeyLevelBits(k, L[a])) = v}
  BY <1>2 DEF ArraysOK
<1>4. O[a] = <<m, v>>
  <2>1. children[m][v] # NULL
    BY <1>3
  <2>2. O[children[m][v]] = <<m, v>>
    BY <2>1 DEF ArraysOK
  <2> QED BY <1>3, <2>2
<1>5. m = n /\ v = w
  BY <1>1, <1>4
<1> QED BY <1>1, <1>3, <1>5

\* Every node of the tree is a node, and a key there is a key.
LEMMA UsedNodes ==
    ASSUME NEW L, NEW O, NEW T, TypeOK, ArraysOK(L, O, T)
    PROVE  /\ Used \subseteq Node
           /\ \A n \in Used : KeysOf(n, L, T) \subseteq Key
           /\ \A n \in Used : n = Root \/ (n[1] \in nonLeafLive /\ n[2] \in Slot /\ n = <<n[1], n[2]>>)
           /\ \A a \in nonLeafLive, s \in Slot : <<a, s>> # Root
           /\ \A n \in Used : LevelOf(n, L) = 0 <=> n = Root
<1>1. nonLeafLive \subseteq NonLeafArray /\ nonLeafLive \subseteq Array
  BY DEF TypeOK, NonLeafPool!TypeOK, Array
<1>2. \A a \in nonLeafLive, s \in Slot : <<a, s>> # Root
  BY <1>1, Constants
<1>3. \A n \in Used : n = Root \/ (n[1] \in nonLeafLive /\ n[2] \in Slot /\ n = <<n[1], n[2]>>)
  BY DEF Used
<1>4. Used \subseteq Node
  BY <1>1 DEF Used, Node
<1>5. ASSUME NEW n \in Used PROVE LevelOf(n, L) = 0 <=> n = Root
  <2>1. n # Root => L[n[1]] \in Nat
    BY <1>1, <1>3 DEF ArraysOK
  <2> QED BY <2>1 DEF LevelOf
<1>7. ASSUME NEW a \in nonLeafLive PROVE T[a] \subseteq UNION {KeysOf(n, L, T) : n \in Used}
  BY DEF ArraysOK
<1> DEFINE Bad == {d \in Nat : \E n \in Used : LevelOf(n, L) = d /\ ~(KeysOf(n, L, T) \subseteq Key)}
<1>8. Bad = {}
  <2> SUFFICES ASSUME Bad # {} PROVE FALSE
    OBVIOUS
  <2>1. PICK d \in Bad : \A e \in Bad : d <= e
    BY LeastOfNaturals
  <2>2. PICK n \in Used : LevelOf(n, L) = d /\ ~(KeysOf(n, L, T) \subseteq Key)
    OBVIOUS
  <2>3. n # Root
    BY <2>2 DEF KeysOf
  <2>4. n[1] \in nonLeafLive
    BY <1>3, <2>3
  <2>5. PICK m \in Used : L[n[1]] = LevelOf(m, L) /\ T[n[1]] \subseteq KeysOf(m, L, T)
    BY <2>4 DEF ArraysOK
  <2>6. LevelOf(m, L) \in Nat /\ LevelOf(m, L) < d
    BY <1>1, <2>2, <2>3, <2>4, <2>5 DEF LevelOf, ArraysOK
  <2>7. KeysOf(n, L, T) \subseteq T[n[1]]
    BY <2>3 DEF KeysOf
  <2>8. LevelOf(m, L) \in Bad
    BY <2>2, <2>5, <2>6, <2>7
  <2> QED BY <2>1, <2>6, <2>8
<1>9. ASSUME NEW n \in Used PROVE KeysOf(n, L, T) \subseteq Key
  <2>1. LevelOf(n, L) \in Nat
    BY Constants DEF ArraysOK
  <2> QED BY <1>8, <2>1
<1> QED BY <1>2, <1>3, <1>4, <1>5, <1>9

\* Where a key goes on from a node.
LEMMA Below ==
    ASSUME NEW L, NEW O, NEW T, TypeOK, ArraysOK(L, O, T),
           NEW n \in Used, NEW k \in KeysOf(n, L, T), LevelOf(n, L) # LastLevel,
           NEW c, c = KeyLevelBits(k, LevelOf(n, L)), children[n][WordOf(c)] # NULL
    PROVE  /\ ChildNode(n, c) \in Used
           /\ LevelOf(ChildNode(n, c), L) = LevelOf(n, L) + 1
           /\ k \in KeysOf(ChildNode(n, c), L, T)
<1>1. LevelOf(n, L) \in 0..LastLevel /\ k \in Key
  <2>1. k \in Key
    BY UsedNodes
  <2> QED BY <2>1 DEF ArraysOK
<1>2. WordOf(c) \in Word /\ SlotOf(c) \in Slot
  BY <1>1, KeyPart, WordAndSlot
<1>3. PICK a : a = children[n][WordOf(c)]
  OBVIOUS
<1>4. /\ a \in nonLeafLive /\ L[a] = LevelOf(n, L)
      /\ k \in T[a]
  BY <1>2, <1>3, Owned DEF Live
<1>5. PICK m : m = <<a, SlotOf(c)>> /\ m[1] = a /\ m[2] = SlotOf(c) /\ m = ChildNode(n, c)
  BY <1>3 DEF ChildNode
<1>6. m \in Used /\ m # Root
  BY <1>2, <1>4, <1>5, UsedNodes DEF Used
<1> QED BY <1>4, <1>5, <1>6 DEF LevelOf, KeysOf

\* The node above.
LEMMA Above ==
    ASSUME NEW L, NEW O, NEW T, TypeOK, ArraysOK(L, O, T), NEW n \in Used, n # Root
    PROVE  \E m \in Used, w \in Word :
              /\ children[m][w] = n[1] /\ n[1] # NULL
              /\ LevelOf(n, L) = LevelOf(m, L) + 1 /\ LevelOf(m, L) \in 0..LastLevel
              /\ LevelOf(m, L) # LastLevel
              /\ \A k \in KeysOf(n, L, T) :
                    LET d == KeyLevelBits(k, LevelOf(m, L))
                    IN  /\ k \in KeysOf(m, L, T) /\ d \in Child
                        /\ WordOf(d) = w /\ SlotOf(d) = n[2] /\ n = ChildNode(m, d)
<1>1. n[1] \in nonLeafLive /\ n[2] \in Slot /\ n = <<n[1], n[2]>> /\ n[1] # NULL
  BY UsedNodes, Constants DEF TypeOK, NonLeafPool!TypeOK, Array
<1>2. PICK m \in Used, w \in Word :
          /\ children[m][w] = n[1]
          /\ L[n[1]] = LevelOf(m, L)
          /\ T[n[1]] = {k \in KeysOf(m, L, T) : WordOf(KeyLevelBits(k, L[n[1]])) = w}
  BY <1>1 DEF ArraysOK
<1>3. LevelOf(n, L) = LevelOf(m, L) + 1 /\ LevelOf(m, L) \in 0..LastLevel /\ LevelOf(n, L) \in 0..LastLevel
  BY <1>2 DEF LevelOf, ArraysOK
<1>4. LevelOf(m, L) # LastLevel
  BY <1>3, Constants
<1>5. ASSUME NEW k \in KeysOf(n, L, T)
      PROVE  LET d == KeyLevelBits(k, LevelOf(m, L))
             IN  /\ k \in KeysOf(m, L, T) /\ d \in Child
                 /\ WordOf(d) = w /\ SlotOf(d) = n[2] /\ n = ChildNode(m, d)
  <2> DEFINE d == KeyLevelBits(k, LevelOf(m, L))
  <2>1. k \in T[n[1]] /\ SlotOf(d) = n[2]
    BY <1>2 DEF KeysOf
  <2>2. k \in KeysOf(m, L, T) /\ WordOf(d) = w
    BY <1>2, <2>1
  <2>3. k \in Key /\ d \in Child
    BY <1>3, <2>2, UsedNodes, KeyPart
  <2>4. n = ChildNode(m, d)
    BY <1>1, <1>2, <2>1, <2>2 DEF ChildNode
  <2> QED BY <2>1, <2>2, <2>3, <2>4
<1> QED BY <1>1, <1>2, <1>3, <1>4, <1>5

\* A node that has a key is under the child that the key tells.
LEMMA ParentOfKey ==
    ASSUME NEW L, NEW O, NEW T, TypeOK, ArraysOK(L, O, T),
           NEW m \in Used, NEW c \in Child, LevelOf(m, L) # LastLevel,
           children[m][WordOf(c)] # NULL
    PROVE  /\ ChildNode(m, c) \in Used /\ ChildNode(m, c) # Root
           /\ LevelOf(ChildNode(m, c), L) = LevelOf(m, L) + 1
           /\ \A k \in KeysOf(ChildNode(m, c), L, T) :
                 k \in KeysOf(m, L, T) /\ KeyLevelBits(k, LevelOf(m, L)) = c
<1>1. WordOf(c) \in Word /\ SlotOf(c) \in Slot
  BY WordAndSlot
<1>2. PICK a : a = children[m][WordOf(c)]
  OBVIOUS
<1>3. /\ a \in nonLeafLive /\ L[a] = LevelOf(m, L)
      /\ T[a] = {k \in KeysOf(m, L, T) : WordOf(KeyLevelBits(k, LevelOf(m, L))) = WordOf(c)}
  BY <1>1, <1>2, Owned DEF Live
<1>4. PICK n : n = <<a, SlotOf(c)>> /\ n[1] = a /\ n[2] = SlotOf(c) /\ n = ChildNode(m, c)
  BY <1>2 DEF ChildNode
<1>5. n \in Used /\ n # Root
  BY <1>1, <1>3, <1>4, UsedNodes DEF Used
<1>6. LevelOf(n, L) = LevelOf(m, L) + 1
  BY <1>3, <1>4, <1>5 DEF LevelOf
<1>7. ASSUME NEW k \in KeysOf(n, L, T)
      PROVE  k \in KeysOf(m, L, T) /\ KeyLevelBits(k, LevelOf(m, L)) = c
  <2> DEFINE d == KeyLevelBits(k, LevelOf(m, L))
  <2>1. k \in T[a] /\ SlotOf(d) = SlotOf(c)
    BY <1>3, <1>4, <1>5, <1>7 DEF KeysOf
  <2>2. k \in KeysOf(m, L, T) /\ WordOf(d) = WordOf(c)
    BY <1>3, <2>1
  <2>3. d \in Child
    <3>1. k \in Key
      BY <2>2, UsedNodes
    <3>2. LevelOf(m, L) \in 0..LastLevel
      BY DEF ArraysOK
    <3> QED BY <3>1, <3>2, KeyPart
  <2>4. /\ c = WordBits * WordOf(c) + SlotOf(c)
        /\ d = WordBits * WordOf(d) + SlotOf(d)
    BY <2>3, WordAndSlot
  <2> QED BY <2>1, <2>2, <2>4
<1> QED BY <1>4, <1>5, <1>6, <1>7

-----------------------------------------------------------------------------
(* Arrays that come and go.                                                 *)

\* A free array is hung into a word without one, ...
Hangs(L, n, w, a) ==
    /\ children[n][w] = NULL /\ a \notin nonLeafLive \union leafLive
    /\ IF LevelOf(n, L) = LastLevel
       THEN a \in LeafArray /\ leafLive' = leafLive \union {a} /\ nonLeafLive' = nonLeafLive
       ELSE a \in NonLeafArray /\ nonLeafLive' = nonLeafLive \union {a} /\ leafLive' = leafLive
    /\ children' = [children EXCEPT ![n][w] = a]

\* ... and given its level, its owner and its keys.
Extended(L, O, T, n, w, a, L2, O2, T2) ==
    /\ L2 \in [Array -> Nat] /\ L2[a] = LevelOf(n, L) /\ O2[a] = <<n, w>>
    /\ T2[a] = {k \in KeysOf(n, L, T) : WordOf(KeyLevelBits(k, LevelOf(n, L))) = w}
    /\ \A b \in Array \ {a} : L2[b] = L[b] /\ O2[b] = O[b] /\ T2[b] = T[b]

\* The nodes there are stay, at their levels and with their keys.
NodesStay(L, T, L2, T2) ==
    \A m \in Used : /\ m \in Used' /\ LevelOf(m, L2) = LevelOf(m, L)
                    /\ KeysOf(m, L2, T2) = KeysOf(m, L, T)

LEMMA ArraysGrow ==
    ASSUME NEW L, NEW O, NEW T, TypeOK, FreeArraysAreClean, ArraysOK(L, O, T),
           NEW n \in Used, NEW w \in Word, NEW a \in Array, Hangs(L, n, w, a),
           NEW L2, NEW O2, NEW T2, Extended(L, O, T, n, w, a, L2, O2, T2)
    PROVE  ArraysOK(L2, O2, T2)' /\ NodesStay(L, T, L2, T2)
<1> USE DEF Hangs, Extended
<1>1. /\ nonLeafLive \subseteq NonLeafArray /\ leafLive \subseteq LeafArray
      /\ nonLeafLive \subseteq Array /\ leafLive \subseteq Array
      /\ nonLeafLive' \subseteq Array /\ leafLive' \subseteq Array
      /\ nonLeafLive' \subseteq NonLeafArray
  BY DEF TypeOK, NonLeafPool!TypeOK, LeafPool!TypeOK, Array
<1>2. L \in [Array -> Nat] /\ LevelOf(n, L) \in 0..LastLevel /\ LevelOf(n, L) \in Nat
  <2>1. LevelOf(n, L) \in 0..LastLevel
    BY DEF ArraysOK
  <2> QED BY <2>1, Constants DEF ArraysOK
<1>3. /\ L2 \in [Array -> Nat] /\ L2[a] = LevelOf(n, L) /\ O2[a] = <<n, w>>
      /\ T2[a] = {k \in KeysOf(n, L, T) : WordOf(KeyLevelBits(k, LevelOf(n, L))) = w}
      /\ \A b \in Array \ {a} : L2[b] = L[b] /\ O2[b] = O[b] /\ T2[b] = T[b]
  OBVIOUS
<1>4. ASSUME NEW m \in Used
      PROVE  /\ m \in Used' /\ LevelOf(m, L2) = LevelOf(m, L)
             /\ KeysOf(m, L2, T2) = KeysOf(m, L, T)
  <2>1. m \in Used'
    BY DEF Used
  <2>2. m = Root \/ (m[1] \in nonLeafLive /\ m[1] \in Array /\ m[1] # a)
    BY <1>1, UsedNodes
  <2>3. m # Root => L2[m[1]] = L[m[1]] /\ T2[m[1]] = T[m[1]]
    BY <1>3, <2>2
  <2> QED BY <2>1, <2>3 DEF LevelOf, KeysOf
<1>5. ASSUME NEW m \in Used', m \notin Used
      PROVE  /\ m[1] = a /\ m[2] \in Slot /\ m # Root /\ LevelOf(n, L) # LastLevel
             /\ m = <<m[1], m[2]>> /\ a \in NonLeafArray
             /\ LevelOf(m, L2) = LevelOf(n, L) + 1
             /\ KeysOf(m, L2, T2) = {k \in T2[a] : SlotOf(KeyLevelBits(k, LevelOf(n, L))) = m[2]}
             /\ m \in Node /\ children[m] = EmptyChildren
  <2>1. /\ m \in {a} \X Slot /\ LevelOf(n, L) # LastLevel /\ a \in NonLeafArray
    BY <1>5 DEF Used
  <2>2. m[1] = a /\ m[2] \in Slot /\ m = <<a, m[2]>>
    BY <2>1
  <2>3. m # Root /\ m \in Node
    BY <2>1, <2>2, Constants DEF Node
  <2>4. children[m] = EmptyChildren
    BY <2>1, <2>2 DEF FreeArraysAreClean
  <2> QED BY <1>3, <2>1, <2>2, <2>3, <2>4 DEF LevelOf, KeysOf
<1>6. n \in Node /\ children \in [Node -> [Word -> Array \union {NULL}]]
  BY UsedNodes DEF TypeOK, Array
<1>7. /\ \A m \in Node \ {n} : children'[m] = children[m]
      /\ \A v \in Word \ {w} : children'[n][v] = children[n][v]
      /\ children'[n][w] = a
  BY <1>6
<1>8. ASSUME NEW m \in Used, NEW v \in Word PROVE
          children'[m][v] = children[m][v] \/ (m = n /\ v = w)
  <2>1. m \in Node
    BY UsedNodes
  <2> QED BY <1>7, <2>1
<1>9. ASSUME NEW m \in Used' PROVE LevelOf(m, L2) \in 0..LastLevel
  <2>1. CASE m \in Used
    <3>1. LevelOf(m, L) \in 0..LastLevel
      BY <2>1 DEF ArraysOK
    <3> QED BY <1>4, <2>1, <3>1
  <2>2. CASE m \notin Used
    <3>1. LevelOf(m, L2) = LevelOf(n, L) + 1 /\ LevelOf(n, L) # LastLevel
      BY <1>5, <2>2
    <3> QED BY <1>2, <3>1, Constants
  <2> QED BY <2>1, <2>2
<1>10. ASSUME NEW m \in Used', NEW v \in Word, children'[m][v] # NULL
       PROVE  /\ children'[m][v] \in Live(LevelOf(m, L2))'
              /\ O2[children'[m][v]] = <<m, v>>
  <2>1. m \in Used
    <3> SUFFICES ASSUME m \notin Used PROVE FALSE
      OBVIOUS
    <3>1. m \in Node /\ children[m] = EmptyChildren
      BY <1>5
    <3>2. m # n
      OBVIOUS
    <3>3. children'[m][v] = EmptyChildren[v]
      BY <1>7, <3>1, <3>2
    <3> QED BY <1>10, <3>3 DEF EmptyChildren
  <2>2. CASE m = n /\ v = w
    <3>1. LevelOf(m, L2) = LevelOf(n, L)
      BY <1>4, <2>1, <2>2
    <3>2. children'[m][v] = a
      BY <1>7, <2>2
    <3> QED BY <1>3, <2>2, <3>1, <3>2 DEF Live
  <2>3. CASE ~(m = n /\ v = w)
    <3>1. children'[m][v] = children[m][v]
      BY <1>8, <2>1, <2>3
    <3>2. /\ children[m][v] \in Live(LevelOf(m, L)) /\ O[children[m][v]] = <<m, v>>
      BY <1>10, <2>1, <3>1 DEF ArraysOK
    <3>3. children[m][v] # a /\ children[m][v] \in Array
      BY <1>1, <3>2 DEF Live
    <3>4. children[m][v] \in Live(LevelOf(m, L))'
      BY <3>2 DEF Live
    <3> QED BY <1>3, <1>4, <2>1, <3>1, <3>2, <3>3, <3>4
  <2> QED BY <2>2, <2>3
<1>11. ASSUME NEW b \in nonLeafLive' \union leafLive'
       PROVE  \E m \in Used', v \in Word :
                 /\ children'[m][v] = b
                 /\ L2[b] = LevelOf(m, L2)
                 /\ T2[b] = {k \in KeysOf(m, L2, T2) : WordOf(KeyLevelBits(k, L2[b])) = v}
  <2>1. CASE b = a
    <3>1. n \in Used' /\ children'[n][w] = b /\ L2[b] = LevelOf(n, L2)
      BY <1>3, <1>4, <1>7, <2>1
    <3>2. T2[b] = {k \in KeysOf(n, L2, T2) : WordOf(KeyLevelBits(k, L2[b])) = w}
      BY <1>3, <1>4, <2>1
    <3> QED BY <3>1, <3>2
  <2>2. CASE b # a
    <3>1. b \in nonLeafLive \union leafLive /\ b \in Array
      BY <1>1, <2>2
    <3>2. PICK m \in Used, v \in Word :
              /\ children[m][v] = b
              /\ L[b] = LevelOf(m, L)
              /\ T[b] = {k \in KeysOf(m, L, T) : WordOf(KeyLevelBits(k, L[b])) = v}
      BY <3>1 DEF ArraysOK
    <3>3. b # NULL
      BY <3>1, Constants
    <3>4. children'[m][v] = b
      BY <1>8, <3>2, <3>3
    <3>5. /\ m \in Used' /\ L2[b] = LevelOf(m, L2)
          /\ T2[b] = {k \in KeysOf(m, L2, T2) : WordOf(KeyLevelBits(k, L2[b])) = v}
      BY <1>3, <1>4, <2>2, <3>1, <3>2
    <3> QED BY <3>4, <3>5
  <2> QED BY <2>1, <2>2
<1>12. ASSUME NEW m \in Used, NEW p \in Used', p \notin Used,
              NEW k \in KeysOf(m, L, T) \intersect KeysOf(p, L2, T2), LevelOf(m, L) = LevelOf(p, L2)
       PROVE  FALSE
  <2>1. /\ LevelOf(m, L) = LevelOf(n, L) + 1
        /\ k \in T2[a]
    BY <1>5, <1>12
  <2>2. k \in KeysOf(n, L, T) /\ WordOf(KeyLevelBits(k, LevelOf(n, L))) = w
    BY <1>3, <2>1
  <2>3. m # Root
    BY <1>2, <2>1 DEF LevelOf
  <2>4. PICK q \in Used, v \in Word :
            /\ children[q][v] = m[1] /\ m[1] # NULL
            /\ LevelOf(m, L) = LevelOf(q, L) + 1 /\ LevelOf(q, L) \in 0..LastLevel
            /\ k \in KeysOf(q, L, T) /\ WordOf(KeyLevelBits(k, LevelOf(q, L))) = v
    BY <2>3, Above
  <2>5. LevelOf(q, L) = LevelOf(n, L)
    <3>1. LevelOf(q, L) \in Nat /\ LevelOf(q, L) + 1 = LevelOf(n, L) + 1
      BY <2>1, <2>4, Constants
    <3> QED BY <1>2, <3>1
  <2>6. q = n
    BY <2>2, <2>4, <2>5 DEF ArraysOK
  <2> QED BY <2>2, <2>4, <2>6
<1>13. ASSUME NEW m \in Used', NEW p \in Used',
              NEW k \in KeysOf(m, L2, T2) \intersect KeysOf(p, L2, T2), LevelOf(m, L2) = LevelOf(p, L2)
       PROVE  m = p
  <2>1. CASE m \in Used /\ p \in Used
    <3>1. k \in KeysOf(m, L, T) \intersect KeysOf(p, L, T) /\ LevelOf(m, L) = LevelOf(p, L)
      BY <1>4, <1>13, <2>1
    <3> QED BY <2>1, <3>1 DEF ArraysOK
  <2>2. CASE m \in Used /\ p \notin Used
    BY <1>4, <1>12, <1>13, <2>2
  <2>3. CASE m \notin Used /\ p \in Used
    BY <1>4, <1>12, <1>13, <2>3
  <2>4. CASE m \notin Used /\ p \notin Used
    <3>1. m = <<a, m[2]>> /\ p = <<a, p[2]>>
      BY <1>5, <2>4
    <3>2. /\ k \in {j \in T2[a] : SlotOf(KeyLevelBits(j, LevelOf(n, L))) = m[2]}
          /\ k \in {j \in T2[a] : SlotOf(KeyLevelBits(j, LevelOf(n, L))) = p[2]}
      BY <1>5, <1>13, <2>4
    <3> QED BY <3>1, <3>2
  <2> QED BY <2>1, <2>2, <2>3, <2>4
<1> QED BY <1>3, <1>4, <1>9, <1>10, <1>11, <1>13 DEF ArraysOK, NodesStay

\* An array whose nodes are empty is taken out of the word it is in.
LEMMA ArraysShrink ==
    ASSUME NEW L, NEW O, NEW T, TypeOK, ArraysOK(L, O, T),
           NEW n \in Used, NEW w \in Word, NEW a, a = children[n][w], a # NULL,
           \A s \in Slot : a \in nonLeafLive => children[<<a, s>>] = EmptyChildren,
           nonLeafLive' = nonLeafLive \ {a}, leafLive' = leafLive \ {a},
           children' = [children EXCEPT ![n][w] = NULL]
    PROVE  /\ ArraysOK(L, O, T)'
           /\ n \in Used'
           /\ \A m \in Used : m[1] # a => m \in Used'
           /\ \A m \in Used' : m \in Used /\ (m # Root => m[1] # a)
<1>1. n \in Node /\ children \in [Node -> [Word -> Array \union {NULL}]]
  BY UsedNodes DEF TypeOK, Array
<1>2. /\ \A m \in Node \ {n} : children'[m] = children[m]
      /\ \A v \in Word \ {w} : children'[n][v] = children[n][v]
      /\ children'[n][w] = NULL
  BY <1>1
<1>3. ASSUME NEW m \in Used
      PROVE  /\ m[1] # a => m \in Used'
             /\ m # Root /\ m[1] = a => m \notin Used' /\ children[m] = EmptyChildren
  <2>1. m = Root \/ (m[1] \in nonLeafLive /\ m[2] \in Slot /\ m = <<m[1], m[2]>>)
    BY UsedNodes
  <2>2. CASE m = Root
    BY <2>2 DEF Used
  <2>3. CASE m # Root
    <3>1. m[1] \in nonLeafLive /\ m[2] \in Slot /\ m = <<m[1], m[2]>>
      BY <2>1, <2>3
    <3>2. m[1] # a => m \in Used'
      BY <3>1 DEF Used
    <3>3. m[1] = a => children[m] = EmptyChildren
      BY <3>1
    <3>4. m[1] = a => m \notin Used'
      BY <2>3, <3>1 DEF Used
    <3> QED BY <2>3, <3>2, <3>3, <3>4
  <2> QED BY <2>2, <2>3
<1>4. ASSUME NEW m \in Used' PROVE m \in Used /\ (m # Root => m[1] # a)
  <2>1. m \in Used
    BY DEF Used
  <2> QED BY <1>3, <2>1
<1>5. n \in Used'
  <2>1. children[n] # EmptyChildren
    BY DEF EmptyChildren
  <2>2. n = Root => n \in Used'
    BY DEF Used
  <2> QED BY <1>3, <2>1, <2>2
<1>6. ASSUME NEW m \in Used, NEW v \in Word
      PROVE  \/ children'[m][v] = children[m][v] /\ (children[m][v] = a => a = NULL)
             \/ m = n /\ v = w /\ children'[m][v] = NULL /\ children[m][v] = a
  <2>1. m \in Node
    BY UsedNodes
  <2>2. CASE m = n /\ v = w
    BY <1>2, <2>2
  <2>3. CASE ~(m = n /\ v = w)
    <3>1. children'[m][v] = children[m][v]
      BY <1>2, <2>1, <2>3
    <3>2. children[m][v] # a
      <4> SUFFICES ASSUME children[m][v] = a PROVE FALSE
        OBVIOUS
      <4>1. O[children[m][v]] = <<m, v>>
        BY DEF ArraysOK
      <4>2. O[children[n][w]] = <<n, w>>
        BY DEF ArraysOK
      <4>3. <<m, v>> = <<n, w>>
        BY <4>1, <4>2
      <4> QED BY <2>3, <4>3
    <3> QED BY <3>1, <3>2
  <2> QED BY <2>2, <2>3
<1>7. ASSUME NEW m \in Used', NEW v \in Word, children'[m][v] # NULL
      PROVE  /\ children'[m][v] \in Live(LevelOf(m, L))'
             /\ O[children'[m][v]] = <<m, v>>
  <2>1. m \in Used
    BY <1>4
  <2>2. children'[m][v] = children[m][v] /\ children[m][v] # a
    BY <1>6, <1>7, <2>1
  <2>3. /\ children[m][v] \in Live(LevelOf(m, L)) /\ O[children[m][v]] = <<m, v>>
    BY <1>7, <2>1, <2>2 DEF ArraysOK
  <2>4. children[m][v] \in Live(LevelOf(m, L))'
    BY <2>2, <2>3 DEF Live
  <2> QED BY <2>2, <2>3, <2>4
<1>8. ASSUME NEW b \in nonLeafLive' \union leafLive'
      PROVE  \E m \in Used', v \in Word :
                /\ children'[m][v] = b
                /\ L[b] = LevelOf(m, L)
                /\ T[b] = {k \in KeysOf(m, L, T) : WordOf(KeyLevelBits(k, L[b])) = v}
  <2>1. b \in nonLeafLive \union leafLive /\ b # a
    OBVIOUS
  <2>2. PICK m \in Used, v \in Word :
            /\ children[m][v] = b
            /\ L[b] = LevelOf(m, L)
            /\ T[b] = {k \in KeysOf(m, L, T) : WordOf(KeyLevelBits(k, L[b])) = v}
    BY <2>1 DEF ArraysOK
  <2>3. children'[m][v] = b
    BY <1>6, <2>1, <2>2
  <2>4. b # NULL
    BY <2>1, Constants DEF TypeOK, NonLeafPool!TypeOK, LeafPool!TypeOK, Array
  <2>5. m = Root \/ m[1] # a
    <3>1. children[m] # EmptyChildren
      BY <2>2, <2>4 DEF EmptyChildren
    <3> QED BY <1>3, <3>1
  <2>6. m \in Used'
    <3>1. m = Root => m \in Used'
      BY DEF Used
    <3> QED BY <1>3, <2>5, <3>1
  <2> QED BY <2>2, <2>3, <2>6
<1>9. /\ L \in [Array -> Nat]
      /\ \A m \in Used' : LevelOf(m, L) \in 0..LastLevel
      /\ \A m, p \in Used' : \A k \in KeysOf(m, L, T) \intersect KeysOf(p, L, T) :
            LevelOf(m, L) = LevelOf(p, L) => m = p
  BY <1>4 DEF ArraysOK
<1>10. ArraysOK(L, O, T)'
  BY <1>7, <1>8, <1>9 DEF ArraysOK
<1>11. \A m \in Used : m[1] # a => m \in Used'
  BY <1>3
<1> QED BY <1>4, <1>5, <1>10, <1>11

-----------------------------------------------------------------------------
(* Bits that come and go.                                                   *)

\* A bit is set in a node, with the array of its word.
SetsBit(L, n, c, a) ==
    /\ \/ children[n][WordOf(c)] = a
       \/ children[n][WordOf(c)] = NULL /\ a \notin nonLeafLive \union leafLive
    /\ children' = [children EXCEPT ![n][WordOf(c)] = a]
    /\ bits' = [bits EXCEPT ![n] = @ \union {c}]
    /\ \A b \in LeafArray, t \in Slot :
          b # a \/ t # SlotOf(c) \/ LevelOf(n, L) # LastLevel => leaf'[b][t] = leaf[b][t]
    /\ LevelOf(n, L) = LastLevel => a \in LeafArray
    /\ LevelOf(n, L) # LastLevel => a \in NonLeafArray

\* The nodes that are new are those of an array that was free.
NewNodesOf(a) ==
    \A m \in Used' : m \notin Used => m[1] = a /\ a \notin nonLeafLive /\ m \in NonLeafArray \X Slot

\* The bit of a node is set in the node above it.
OwnBitSet(L, n) ==
    \A m \in Used, d \in Child :
        LevelOf(m, L) # LastLevel /\ children[m][WordOf(d)] # NULL /\ ChildNode(m, d) = n
            => d \in bits[m]

LEMMA BitsGrow ==
    ASSUME NEW L, NEW O, NEW T, TypeOK, FreeArraysAreClean, ArraysOK(L, O, T), BitsOK(L, T),
           NEW n \in Used, NEW k \in KeysOf(n, L, T),
           NEW c, c = KeyLevelBits(k, LevelOf(n, L)),
           NEW a \in Array, SetsBit(L, n, c, a),
           NEW L2, NEW T2, NodesStay(L, T, L2, T2), NewNodesOf(a), OwnBitSet(L, n)
    PROVE  BitsOK(L2, T2)'
<1> USE DEF SetsBit, NodesStay, NewNodesOf, OwnBitSet
<1> DEFINE w == WordOf(c)
           s == SlotOf(c)
<1>1. c \in Child /\ w \in Word /\ s \in Slot /\ LevelOf(n, L) \in 0..LastLevel
  <2>1. k \in Key
    BY UsedNodes
  <2>2. LevelOf(n, L) \in 0..LastLevel
    BY DEF ArraysOK
  <2>3. c \in Child
    BY <2>1, <2>2, KeyPart
  <2> QED BY <2>2, <2>3, WordAndSlot
<1>2. /\ n \in Node /\ children \in [Node -> [Word -> Array \union {NULL}]]
      /\ bits \in [Node -> SUBSET Child] /\ leaf \in [LeafArray -> [Slot -> Value \union {0}]]
  BY UsedNodes DEF TypeOK, Array
<1>3. /\ \A m \in Node \ {n} : children'[m] = children[m] /\ bits'[m] = bits[m]
      /\ \A v \in Word \ {w} : children'[n][v] = children[n][v]
      /\ children'[n][w] = a /\ bits'[n] = bits[n] \union {c}
  BY <1>1, <1>2
<1>4. \A b \in LeafArray, t \in Slot :
         b # a \/ t # s \/ LevelOf(n, L) # LastLevel => leaf'[b][t] = leaf[b][t]
  OBVIOUS
<1>5. ASSUME NEW m \in Used', m \notin Used
      PROVE  m \in Node /\ m # n /\ bits'[m] = {} /\ children'[m] = EmptyChildren
  <2>1. /\ m[1] = a /\ a \notin nonLeafLive /\ a \in NonLeafArray /\ m[2] \in Slot /\ m = <<a, m[2]>>
    BY <1>5
  <2>2. m \in Node /\ m # n
    BY <1>5, <2>1 DEF Node
  <2>3. bits[<<a, m[2]>>] = {} /\ children[<<a, m[2]>>] = EmptyChildren
    BY <2>1 DEF FreeArraysAreClean
  <2> QED BY <1>3, <2>1, <2>2, <2>3
<1> HIDE DEF w, s
<1>6. ASSUME NEW m \in Used', NEW v \in Word
      PROVE  children'[m][v] # NULL <=> InWord(bits'[m], v) # {}
  <2>1. CASE m \notin Used
    BY <1>5, <2>1 DEF EmptyChildren, InWord
  <2>2. CASE m = n /\ v = w
    <3>1. c \in InWord(bits'[m], v)
      BY <1>3, <2>2 DEF InWord, w
    <3>2. a # NULL
      BY Constants
    <3> QED BY <1>3, <2>2, <3>1, <3>2
  <2>3. CASE m \in Used /\ m = n /\ v # w
    <3>1. InWord(bits'[m], v) = InWord(bits[m], v)
      BY <1>3, <2>3 DEF InWord, w
    <3>2. children'[m][v] = children[m][v]
      BY <1>3, <2>3
    <3> QED BY <2>3, <3>1, <3>2 DEF BitsOK
  <2>4. CASE m \in Used /\ m # n
    <3>1. m \in Node
      BY <2>4, UsedNodes
    <3>2. bits'[m] = bits[m] /\ children'[m] = children[m]
      BY <1>3, <2>4, <3>1
    <3> QED BY <2>4, <3>2 DEF BitsOK
  <2> QED BY <2>1, <2>2, <2>3, <2>4
\* What the word of another child holds has not changed.
<1>7. ASSUME NEW m \in Used, NEW e \in Child, m # n \/ e # c,
             children'[m][WordOf(e)] # NULL
      PROVE  \/ /\ children[m][WordOf(e)] = children'[m][WordOf(e)]
                /\ LevelOf(m, L) = LastLevel => ValueAt(m, e)' = ValueAt(m, e)
             \/ /\ LevelOf(m, L) = LastLevel => ValueAt(m, e)' = 0
                /\ LevelOf(m, L) # LastLevel => bits'[ChildNode(m, e)'] = {}
  <2>1. WordOf(e) \in Word /\ SlotOf(e) \in Slot /\ m \in Node
    BY WordAndSlot, UsedNodes
  <2>2. CASE m = n /\ WordOf(e) = w /\ children[n][w] = NULL
    <3>1. /\ SlotOf(e) # s /\ children'[m][WordOf(e)] = a /\ a \notin nonLeafLive \union leafLive
      <4>1. c = WordBits * WordOf(c) + SlotOf(c) /\ e = WordBits * WordOf(e) + SlotOf(e)
        BY <1>1, WordAndSlot
      <4>2. children[n][WordOf(c)] = NULL
        BY <2>2 DEF w
      <4>3. a # NULL
        BY Constants
      <4> QED BY <1>3, <1>7, <2>2, <4>1, <4>2, <4>3 DEF w, s
    <3>2. CASE LevelOf(m, L) = LastLevel
      <4>1. a \in LeafArray /\ leaf'[a][SlotOf(e)] = leaf[a][SlotOf(e)]
        BY <1>4, <2>1, <2>2, <3>1, <3>2
      <4>2. leaf[a][SlotOf(e)] = 0
        BY <2>1, <3>1, <4>1 DEF FreeArraysAreClean
      <4> QED BY <3>1, <3>2, <4>1, <4>2 DEF ValueAt
    <3>3. CASE LevelOf(m, L) # LastLevel
      <4>1. a \in NonLeafArray
        BY <2>2, <3>3
      <4>2. ChildNode(m, e)' = <<a, SlotOf(e)>>
        BY <3>1 DEF ChildNode
      <4>3. <<a, SlotOf(e)>> \in Node /\ <<a, SlotOf(e)>> \notin Used
        <5>1. <<a, SlotOf(e)>> # Root
          BY <2>1, <4>1, Constants
        <5> QED BY <2>1, <3>1, <4>1, <5>1 DEF Node, Used
      <4>4. bits[<<a, SlotOf(e)>>] = {}
        BY <2>1, <3>1, <4>1 DEF FreeArraysAreClean
      <4>5. <<a, SlotOf(e)>> # n
        BY <4>3
      <4>6. bits'[<<a, SlotOf(e)>>] = bits[<<a, SlotOf(e)>>]
        BY <1>3, <4>3, <4>5
      <4> QED BY <3>3, <4>2, <4>4, <4>6
    <3> QED BY <3>2, <3>3
  <2>3. CASE ~(m = n /\ WordOf(e) = w /\ children[n][w] = NULL)
    <3>1. children[m][WordOf(e)] = children'[m][WordOf(e)]
      <4>1. CASE m = n /\ WordOf(e) = w
        BY <1>3, <2>3, <4>1 DEF w
      <4>2. CASE ~(m = n /\ WordOf(e) = w)
        BY <1>3, <2>1, <4>2
      <4> QED BY <4>1, <4>2
    <3>2. ASSUME LevelOf(m, L) = LastLevel PROVE ValueAt(m, e)' = ValueAt(m, e)
      <4>1. PICK b : b = children[m][WordOf(e)]
        OBVIOUS
      <4>2. b \in leafLive /\ b \in LeafArray
        <5>1. b \in Live(LevelOf(m, L))
          BY <1>7, <2>1, <3>1, <4>1, Owned
        <5> QED BY <3>2, <5>1 DEF Live, TypeOK, LeafPool!TypeOK
      <4>3. b # a \/ SlotOf(e) # s \/ LevelOf(n, L) # LastLevel
        <5> SUFFICES ASSUME b = a, SlotOf(e) = s PROVE FALSE
          OBVIOUS
        <5>1. children[n][w] = a
          BY <4>2 DEF w
        <5>2. a # NULL
          BY Constants
        <5>3. O[a] = <<n, w>>
          <6>1. children[n][w] # NULL
            BY <5>1, <5>2
          <6>2. O[children[n][w]] = <<n, w>>
            BY <1>1, <6>1 DEF ArraysOK
          <6> QED BY <5>1, <6>2
        <5>4. O[a] = <<m, WordOf(e)>>
          <6>1. children[m][WordOf(e)] # NULL
            BY <4>1, <5>2
          <6>2. O[children[m][WordOf(e)]] = <<m, WordOf(e)>>
            BY <2>1, <6>1 DEF ArraysOK
          <6> QED BY <4>1, <6>2
        <5>5. m = n /\ WordOf(e) = w
          BY <5>3, <5>4
        <5>6. c = WordBits * WordOf(c) + SlotOf(c) /\ e = WordBits * WordOf(e) + SlotOf(e)
          BY <1>1, WordAndSlot
        <5> QED BY <1>7, <5>5, <5>6 DEF w, s
      <4>4. leaf'[b][SlotOf(e)] = leaf[b][SlotOf(e)]
        BY <1>4, <2>1, <4>2, <4>3
      <4> QED BY <3>1, <4>1, <4>4 DEF ValueAt
    <3> QED BY <3>1, <3>2
  <2> QED BY <2>2, <2>3
<1>8. ASSUME NEW m \in Used', NEW e \in Child, children'[m][WordOf(e)] # NULL,
             ~Hollow(LevelOf(m, L2), m, e)'
      PROVE  e \in bits'[m]
  <2>1. WordOf(e) \in Word
    BY WordAndSlot
  <2>2. m \in Used /\ m \in Node
    <3>1. m \in Used
      BY <1>5, <1>8, <2>1 DEF EmptyChildren
    <3> QED BY <3>1, UsedNodes
  <2>3. CASE m = n /\ e = c
    BY <1>3, <2>3
  <2>4. CASE m # n \/ e # c
    <3>1. bits[m] \subseteq bits'[m]
      BY <1>3, <2>2
    <3>2. LevelOf(m, L2) = LevelOf(m, L)
      BY <2>2
    <3>3. CASE LevelOf(m, L) = LastLevel
      <4>1. ValueAt(m, e)' # 0
        BY <1>8, <3>2, <3>3 DEF Hollow
      <4>2. children[m][WordOf(e)] # NULL /\ ValueAt(m, e) # 0
        BY <1>7, <1>8, <2>2, <2>4, <3>3, <4>1
      <4>3. ~Hollow(LevelOf(m, L), m, e)
        BY <3>3, <4>2 DEF Hollow
      <4> QED BY <2>2, <3>1, <4>2, <4>3 DEF BitsOK
    <3>4. CASE LevelOf(m, L) # LastLevel
      <4>1. bits'[ChildNode(m, e)'] # {}
        BY <1>8, <3>2, <3>4 DEF Hollow
      <4>2. children[m][WordOf(e)] # NULL /\ ChildNode(m, e)' = ChildNode(m, e)
        <5>1. children[m][WordOf(e)] = children'[m][WordOf(e)]
          BY <1>7, <1>8, <2>2, <2>4, <3>4, <4>1
        <5> QED BY <1>8, <5>1 DEF ChildNode
      <4>3. CASE ChildNode(m, e) = n
        BY <2>2, <3>1, <3>4, <4>2, <4>3
      <4>4. CASE ChildNode(m, e) # n
        <5>1. ChildNode(m, e) \in Used
          BY <2>2, <3>4, <4>2, ParentOfKey
        <5>2. ChildNode(m, e) \in Node
          BY <5>1, UsedNodes
        <5>3. bits[ChildNode(m, e)] # {}
          BY <1>3, <4>1, <4>2, <4>4, <5>2
        <5>4. ~Hollow(LevelOf(m, L), m, e)
          BY <3>4, <5>3 DEF Hollow
        <5> QED BY <2>2, <3>1, <4>2, <5>4 DEF BitsOK
      <4> QED BY <4>3, <4>4
    <3> QED BY <3>3, <3>4
  <2> QED BY <2>3, <2>4
<1>9. ASSUME NEW m \in Used', NEW e \in Child, LevelOf(m, L2) = LastLevel,
             children'[m][WordOf(e)] # NULL, ValueAt(m, e)' # 0
      PROVE  \E j \in KeysOf(m, L2, T2) : KeyLevelBits(j, LastLevel) = e
  <2>1. WordOf(e) \in Word
    BY WordAndSlot
  <2>2. m \in Used
    BY <1>5, <1>9, <2>1 DEF EmptyChildren
  <2>3. LevelOf(m, L) = LastLevel /\ KeysOf(m, L2, T2) = KeysOf(m, L, T)
    BY <1>9, <2>2
  <2>4. CASE m = n /\ e = c
    BY <2>3, <2>4
  <2>5. CASE m # n \/ e # c
    <3>1. children[m][WordOf(e)] # NULL /\ ValueAt(m, e) # 0
      BY <1>7, <1>9, <2>2, <2>3, <2>5
    <3> QED BY <2>2, <2>3, <3>1 DEF BitsOK
  <2> QED BY <2>4, <2>5
<1> QED BY <1>6, <1>8, <1>9 DEF BitsOK

\* A bit is cleared that stands for nothing, and an array with it whose word has
\* no other.
LEMMA BitsShrink ==
    ASSUME NEW L, NEW O, NEW T, TypeOK, ArraysOK(L, O, T), BitsOK(L, T),
           NEW n \in Used, NEW c \in Child,
           children[n][WordOf(c)] # NULL => Hollow(LevelOf(n, L), n, c),
           bits' = [bits EXCEPT ![n] = @ \ {c}], leaf' = leaf,
           IF InWord(bits[n] \ {c}, WordOf(c)) = {} /\ children[n][WordOf(c)] # NULL
              THEN children' = [children EXCEPT ![n][WordOf(c)] = NULL]
              ELSE children' = children,
           Used' \subseteq Used
    PROVE  BitsOK(L, T)'
<1> DEFINE w == WordOf(c)
<1>1. w \in Word /\ n \in Node
  BY WordAndSlot, UsedNodes
<1>2. /\ children \in [Node -> [Word -> Array \union {NULL}]]
      /\ bits \in [Node -> SUBSET Child]
  BY DEF TypeOK, Array
<1>3. /\ \A m \in Node \ {n} : bits'[m] = bits[m] /\ children'[m] = children[m]
      /\ bits'[n] = bits[n] \ {c}
      /\ \A v \in Word \ {w} : children'[n][v] = children[n][v]
      /\ IF InWord(bits[n] \ {c}, w) = {} /\ children[n][w] # NULL
         THEN children'[n][w] = NULL ELSE children'[n][w] = children[n][w]
  <2>1. bits'[n] = bits[n] \ {c} /\ \A m \in Node \ {n} : bits'[m] = bits[m]
    BY <1>1, <1>2
  <2>2. CASE InWord(bits[n] \ {c}, w) = {} /\ children[n][w] # NULL
    <3>1. children' = [children EXCEPT ![n][w] = NULL]
      BY <2>2
    <3>2. /\ \A m \in Node \ {n} : children'[m] = children[m]
          /\ \A v \in Word \ {w} : children'[n][v] = children[n][v]
          /\ children'[n][w] = NULL
      BY ONLY <1>1, <1>2, <3>1
    <3> QED BY <2>1, <2>2, <3>2
  <2>3. CASE ~(InWord(bits[n] \ {c}, w) = {} /\ children[n][w] # NULL)
    <3>1. children' = children
      BY <2>3
    <3> QED BY <2>1, <2>3, <3>1
  <2> QED BY <2>2, <2>3
<1> HIDE DEF w
<1>4. ASSUME NEW m \in Used', NEW v \in Word
      PROVE  children'[m][v] # NULL <=> InWord(bits'[m], v) # {}
  <2>1. m \in Used /\ m \in Node
    BY UsedNodes
  <2>2. children[m][v] # NULL <=> InWord(bits[m], v) # {}
    BY <2>1 DEF BitsOK
  <2>3. CASE m # n
    BY <1>3, <2>1, <2>2, <2>3
  <2>4. CASE m = n /\ v # w
    <3>1. InWord(bits'[m], v) = InWord(bits[m], v)
      BY <1>3, <2>4 DEF InWord, w
    <3> QED BY <1>3, <2>2, <2>4, <3>1
  <2>5. CASE m = n /\ v = w
    <3>1. InWord(bits[n] \ {c}, w) \subseteq InWord(bits[n], w)
      BY DEF InWord
    <3> QED BY <1>3, <2>2, <2>5, <3>1
  <2> QED BY <2>3, <2>4, <2>5
<1>5. ASSUME NEW m \in Used', NEW e \in Child, children'[m][WordOf(e)] # NULL
      PROVE  /\ m \in Used /\ m \in Node /\ children'[m][WordOf(e)] = children[m][WordOf(e)]
             /\ LevelOf(m, L) = LastLevel => ValueAt(m, e)' = ValueAt(m, e)
             /\ ChildNode(m, e)' = ChildNode(m, e)
  <2>1. m \in Used /\ m \in Node /\ WordOf(e) \in Word
    BY UsedNodes, WordAndSlot
  <2>2. children'[m][WordOf(e)] = children[m][WordOf(e)]
    BY <1>3, <1>5, <2>1
  <2> QED BY <2>1, <2>2 DEF ValueAt, ChildNode
<1>6. ASSUME NEW m \in Used', NEW e \in Child, children'[m][WordOf(e)] # NULL,
             ~Hollow(LevelOf(m, L), m, e)'
      PROVE  e \in bits'[m]
  <2>1. ~Hollow(LevelOf(m, L), m, e)
    <3>1. CASE LevelOf(m, L) = LastLevel
      BY <1>5, <1>6, <3>1 DEF Hollow
    <3>2. CASE LevelOf(m, L) # LastLevel
      <4>1. bits'[ChildNode(m, e)] # {}
        BY <1>5, <1>6, <3>2 DEF Hollow
      <4>2. ChildNode(m, e) \in Node
        <5>1. ChildNode(m, e) \in Used
          BY <1>5, <1>6, <3>2, ParentOfKey
        <5> QED BY <5>1, UsedNodes
      <4>3. bits'[ChildNode(m, e)] \subseteq bits[ChildNode(m, e)]
        BY <1>3, <4>2
      <4> QED BY <3>2, <4>1, <4>3 DEF Hollow
    <3> QED BY <3>1, <3>2
  <2>2. e \in bits[m]
    BY <1>5, <1>6, <2>1 DEF BitsOK
  <2>3. m # n \/ e # c
    BY <1>5, <1>6, <2>1
  <2> QED BY <1>3, <1>5, <1>6, <2>2, <2>3
<1>7. ASSUME NEW m \in Used', NEW e \in Child, LevelOf(m, L) = LastLevel,
             children'[m][WordOf(e)] # NULL, ValueAt(m, e)' # 0
      PROVE  \E k \in KeysOf(m, L, T) : KeyLevelBits(k, LastLevel) = e
  BY <1>5, <1>7 DEF BitsOK
<1> QED BY <1>4, <1>6, <1>7 DEF BitsOK

\* An array that is freed is empty.
LEMMA FreedIsClean ==
    ASSUME NEW L, NEW O, NEW T, TypeOK, ArraysOK(L, O, T), BitsOK(L, T),
           NEW n \in Used, NEW c \in Child,
           NEW a, a = children[n][WordOf(c)], a # NULL,
           Hollow(LevelOf(n, L), n, c), InWord(bits[n] \ {c}, WordOf(c)) = {}
    PROVE  /\ LevelOf(n, L) = LastLevel =>
                 a \in leafLive /\ \A s \in Slot : leaf[a][s] = 0
           /\ LevelOf(n, L) # LastLevel =>
                 a \in nonLeafLive /\ \A s \in Slot : /\ bits[<<a, s>>] = {}
                                                      /\ children[<<a, s>>] = EmptyChildren
<1>1. WordOf(c) \in Word
  BY WordAndSlot
<1>2. a \in Live(LevelOf(n, L))
  BY <1>1, Owned
<1>3. ASSUME NEW s \in Slot
      PROVE  \E d \in Child : WordOf(d) = WordOf(c) /\ SlotOf(d) = s /\ Hollow(LevelOf(n, L), n, d)
  <2>1. PICK d \in Child : WordOf(d) = WordOf(c) /\ SlotOf(d) = s
    BY <1>1, ChildAt
  <2>2. d # c => d \notin bits[n]
    BY <2>1 DEF InWord
  <2>3. Hollow(LevelOf(n, L), n, d)
    BY <2>1, <2>2 DEF BitsOK
  <2> QED BY <2>1, <2>3
<1>4. ASSUME LevelOf(n, L) = LastLevel, NEW s \in Slot PROVE leaf[a][s] = 0
  <2>1. PICK d \in Child : WordOf(d) = WordOf(c) /\ SlotOf(d) = s /\ Hollow(LevelOf(n, L), n, d)
    BY <1>3
  <2> QED BY <1>4, <2>1 DEF Hollow, ValueAt
<1>5. ASSUME LevelOf(n, L) # LastLevel, NEW s \in Slot
      PROVE  bits[<<a, s>>] = {} /\ children[<<a, s>>] = EmptyChildren
  <2>1. PICK d \in Child : WordOf(d) = WordOf(c) /\ SlotOf(d) = s /\ Hollow(LevelOf(n, L), n, d)
    BY <1>3
  <2>2. bits[<<a, s>>] = {}
    BY <1>5, <2>1 DEF Hollow, ChildNode
  <2>3. <<a, s>> \in Used /\ <<a, s>> \in Node
    BY <1>2, <1>5, UsedNodes DEF Live, Used
  <2>4. children[<<a, s>>] \in [Word -> Array \union {NULL}]
    BY <2>3 DEF TypeOK, Array
  <2>5. \A v \in Word : children[<<a, s>>][v] = NULL
    BY <2>2, <2>3 DEF BitsOK, InWord
  <2> QED BY <2>2, <2>4, <2>5 DEF EmptyChildren
<1> QED BY <1>2, <1>4, <1>5 DEF Live

-----------------------------------------------------------------------------
(* The steps.                                                               *)

\* The node at hand, and the child of the key there.
LEMMA AtHand ==
    ASSUME NEW L, NEW O, NEW T, Inv(L, O, T), Running
    PROVE  /\ path \in Seq(Node) /\ Len(path) \in 1..NumLevels /\ numLevels # 0
           /\ Level \in 0..LastLevel /\ Level + 1 = Len(path)
           /\ call.key \in Key
           /\ Here \in Used /\ Here \in Node /\ LevelOf(Here, L) = Level
           /\ call.key \in KeysOf(Here, L, T)
           /\ KeyBits \in Child /\ KeyBits = KeyLevelBits(call.key, LevelOf(Here, L))
           /\ WordOf(KeyBits) \in Word /\ SlotOf(KeyBits) \in Slot
           /\ ChildArray \in Array \union {NULL}
<1>1. path \in Seq(Node) /\ Len(path) \in 1..NumLevels
  BY DEF Inv, TypeOK, PathOK
<1>2. Level \in 0..LastLevel /\ Level + 1 = Len(path) /\ Len(path) \in 1..Len(path)
  BY <1>1, Constants DEF Level
<1>3. Here \in Used /\ LevelOf(Here, L) = Level /\ call.key \in KeysOf(Here, L, T)
  BY <1>2 DEF Inv, PathOK, Here, Level
<1>4. Here \in Node /\ call.key \in Key
  BY <1>3, UsedNodes DEF Inv
<1>5. KeyBits \in Child /\ KeyBits = KeyLevelBits(call.key, LevelOf(Here, L))
  BY <1>2, <1>3, <1>4, KeyPart DEF KeyBits
<1>6. WordOf(KeyBits) \in Word /\ SlotOf(KeyBits) \in Slot
  BY <1>5, WordAndSlot
<1>7. ChildArray \in Array \union {NULL}
  BY <1>4, <1>6 DEF ChildArray, Inv, TypeOK, Array
<1>8. numLevels # 0
  BY DEF Inv, Running
<1> QED BY <1>1, <1>2, <1>3, <1>4, <1>5, <1>6, <1>7, <1>8

\* A step that leaves the pointers alone.
LEMMA ArraysKept ==
    ASSUME NEW L, NEW O, NEW T, ArraysOK(L, O, T),
           UNCHANGED <<children, nonLeafLive, leafLive>>
    PROVE  ArraysOK(L, O, T)' /\ Used' = Used
<1>1. Used' = Used /\ \A l : Live(l)' = Live(l)
  BY DEF Used, Live
<1>2. \A n \in Used, w \in Word : children'[n][w] # NULL =>
          children'[n][w] \in Live(LevelOf(n, L))' /\ O[children'[n][w]] = <<n, w>>
  BY <1>1 DEF ArraysOK
<1> QED BY <1>1, <1>2 DEF ArraysOK

\* A step that leaves the tree alone.
LEMMA TreeKept ==
    ASSUME NEW L, NEW O, NEW T, FreeArraysAreClean, ArraysOK(L, O, T), BitsOK(L, T),
           UNCHANGED treeVars
    PROVE  FreeArraysAreClean' /\ ArraysOK(L, O, T)' /\ BitsOK(L, T)' /\ Used' = Used
<1>1. /\ bits' = bits /\ children' = children /\ leaf' = leaf
      /\ nonLeafLive' = nonLeafLive /\ leafLive' = leafLive
  BY DEF treeVars
<1>2. ArraysOK(L, O, T)' /\ Used' = Used
  BY <1>1, ArraysKept
<1>3. FreeArraysAreClean'
  BY <1>1 DEF FreeArraysAreClean
<1>4. \A l, n, c : Hollow(l, n, c)' = Hollow(l, n, c) /\ ValueAt(n, c)' = ValueAt(n, c)
  BY <1>1 DEF Hollow, ValueAt, ChildNode
<1>5. BitsOK(L, T)'
  BY <1>1, <1>2, <1>4 DEF BitsOK
<1> QED BY <1>2, <1>3, <1>5

LEMMA InitInv ==
    ASSUME Init PROVE IInv
<1> DEFINE L == [a \in Array |-> 0]
           T == [a \in Array |-> {}]
<1>1. TypeOK
  <2>1. <<>> \in Seq(Node) /\ Len(<<>>) = 0
    OBVIOUS
  <2>2. EmptyChildren \in [Word -> NonLeafArray \union LeafArray \union {NULL}]
    BY DEF EmptyChildren
  <2> QED BY <2>1, <2>2, Constants DEF Init, Zeroed, Idle, TypeOK, NonLeafPool!TypeOK, LeafPool!TypeOK
<1>2. Used = {Root}
  BY DEF Init, Zeroed, Used
<1>3. FreeArraysAreClean
  BY DEF Init, Zeroed, FreeArraysAreClean, Node
<1>4. \A w \in Word : children[Root][w] = NULL /\ bits[Root] = {}
  BY Constants DEF Init, Zeroed, EmptyChildren
<1>5. ArraysOK(L, L, T)
  BY <1>2, <1>4, Constants DEF ArraysOK, LevelOf, Init, Zeroed
<1>6. BitsOK(L, T)
  <2>1. \A c \in Child : WordOf(c) \in Word
    BY WordAndSlot
  <2> QED BY <1>2, <1>4, <2>1 DEF BitsOK, InWord
<1>7. PathOK(L, T) /\ CallOK
  BY DEF Init, Idle, PathOK, Running, CallOK
<1> QED BY <1>1, <1>3, <1>5, <1>6, <1>7 DEF IInv, Inv, Init, Idle

LEMMA InitStep ==
    ASSUME NEW L, NEW O, NEW T, Inv(L, O, T), treeInit PROVE Inv(L, O, T)'
<1>1. TypeOK'
  BY DEF Inv, TypeOK, treeInit, treeVars, callVars, NonLeafPool!TypeOK, LeafPool!TypeOK
<1>2. FreeArraysAreClean' /\ ArraysOK(L, O, T)' /\ BitsOK(L, T)'
  BY TreeKept DEF Inv, treeInit
<1>3. PathOK(L, T)' /\ CallOK'
  BY DEF Inv, treeInit, callVars, PathOK, Running, CallOK
<1> QED BY <1>1, <1>2, <1>3, Constants DEF Inv, treeInit

LEMMA DestroyStep ==
    ASSUME NEW L, NEW O, NEW T, Inv(L, O, T), treeDestroy PROVE IInv'
<1>1. Zeroed'
  BY DEF treeDestroy, Zeroed, NonLeafPool!Destroy, LeafPool!Destroy
<1>2. Idle /\ Idle'
  <2>1. Idle
    BY DEF treeDestroy, Inv, TypeOK, CallOK, Idle
  <2> QED BY <2>1 DEF treeDestroy, callVars, Idle
<1>3. Init'
  BY <1>1, <1>2 DEF treeDestroy, Init
<1>4. Init' => IInv'
  BY InitInv, PTL
<1> QED BY <1>3, <1>4

\* A call begins at the root.
LEMMA BeginStep ==
    ASSUME NEW L, NEW O, NEW T, Inv(L, O, T), numLevels > 0, NEW c, NEW start, Begin(c, start),
           \/ start = "insert" /\ c \in InsertCall
           \/ start = "remove" /\ c \in RemoveCall
    PROVE  Inv(L, O, T)'
<1>1. path' = <<Root>> /\ path' \in Seq(Node) /\ Len(path') = 1 /\ path' # <<>> /\ path'[1] = Root
  BY Constants DEF Begin
<1>2. TypeOK'
  BY <1>1, Constants DEF Inv, TypeOK, Begin, treeVars, NonLeafPool!TypeOK, LeafPool!TypeOK
<1>3. FreeArraysAreClean' /\ ArraysOK(L, O, T)' /\ BitsOK(L, T)'
  BY TreeKept DEF Inv, Begin
<1>4. c.key \in Key
  BY DEF InsertCall, RemoveCall
<1>5. PathOK(L, T)'
  <2>1. LevelOf(Root, L) = 0 /\ KeysOf(Root, L, T) = Key /\ Root \in Used'
    BY DEF LevelOf, KeysOf, Used
  <2> QED BY <1>1, <1>4, <2>1, Constants DEF PathOK, Begin
<1>6. CallOK'
  BY DEF Inv, CallOK, Begin
<1> QED BY <1>2, <1>3, <1>5, <1>6 DEF Inv, Begin, Zeroed

LEMMA ReturnStep ==
    ASSUME NEW L, NEW O, NEW T, Inv(L, O, T), Return PROVE Inv(L, O, T)'
<1>1. path' \in Seq(Node) /\ Len(path') = 0
  BY DEF Return
<1>2. TypeOK'
  BY <1>1, Constants DEF Inv, TypeOK, Return, treeVars, NonLeafPool!TypeOK, LeafPool!TypeOK
<1>3. FreeArraysAreClean' /\ ArraysOK(L, O, T)' /\ BitsOK(L, T)'
  BY TreeKept DEF Inv, Return
<1>4. PathOK(L, T)' /\ CallOK'
  BY DEF Return, PathOK, Running, CallOK
<1> QED BY <1>2, <1>3, <1>4 DEF Inv, Return

\* A call ends with an answer, or has none to look for any more.
LEMMA EndStep ==
    ASSUME NEW L, NEW O, NEW T, Inv(L, O, T), InsertFails \/ CleanDone \/ RemoveAbsent
    PROVE  Inv(L, O, T)'
<1>1. /\ Running /\ UNCHANGED <<numLevels, treeVars, call, path>>
      /\ pc' = "return" \/ (pc' = "clean" /\ pc = "remove" /\ ChildArray = NULL)
  BY DEF InsertFails, CleanDone, RemoveAbsent, ReturnWith, Running
<1>2. /\ call \in InsertCall \union RemoveCall
      /\ answer' \in Value \union {0, Failed}
      /\ pc' = "clean" => call \in RemoveCall /\ answer' = 0
  BY DEF Inv, CallOK, InsertFails, CleanDone, RemoveAbsent, ReturnWith
<1>3. answer' # Pending
  BY <1>2, DataAssumption
<1>4. TypeOK'
  BY <1>1, <1>2 DEF Inv, TypeOK, Running, treeVars, NonLeafPool!TypeOK, LeafPool!TypeOK
<1>5. FreeArraysAreClean' /\ ArraysOK(L, O, T)' /\ BitsOK(L, T)' /\ Used' = Used
  BY <1>1, TreeKept DEF Inv
<1>6. PathOK(L, T)'
  BY <1>1, <1>5 DEF Inv, PathOK, Running
<1>7. CallOK'
  <2>1. ChildArray' = ChildArray
    BY <1>1 DEF ChildArray, KeyBits, Here, Level, treeVars
  <2> QED BY <1>1, <1>2, <1>3, <2>1 DEF CallOK
<1>8. numLevels' # 0
  BY <1>1, AtHand
<1> QED BY <1>4, <1>5, <1>6, <1>7, <1>8 DEF Inv

\* A call goes down a level.
LEMMA PathDown ==
    ASSUME NEW L, NEW O, NEW T, Inv(L, O, T), Running, pc' = pc, call' = call,
           NEW L2, NEW T2,
           NodesStay(L, T, L2, T2), \A m \in Used : bits[m] \subseteq bits'[m],
           NEW n, n \in Used', n \in Node, path' = Append(path, n), Len(path) < NumLevels,
           LevelOf(n, L2) = Len(path), call.key \in KeysOf(n, L2, T2),
           pc = "insert" => KeyBits \in bits'[Here]
    PROVE  /\ PathOK(L2, T2)'
           /\ path' \in Seq(Node) /\ Len(path') <= NumLevels /\ path' # <<>>
<1>1. path \in Seq(Node) /\ Len(path) \in 1..NumLevels
  BY AtHand
<1>2. /\ path' \in Seq(Node) /\ Len(path') = Len(path) + 1 /\ path' # <<>>
      /\ \A i \in 1..Len(path) : path'[i] = path[i]
      /\ path'[Len(path) + 1] = n
  BY <1>1
<1>3. ASSUME NEW i \in 1..Len(path)
      PROVE  /\ path[i] \in Used /\ LevelOf(path[i], L) = i - 1
             /\ call.key \in KeysOf(path[i], L, T)
  BY <1>3 DEF Inv, PathOK
<1>4. ASSUME NEW i \in 1..Len(path')
      PROVE  /\ path'[i] \in Used' /\ LevelOf(path'[i], L2) = i - 1
             /\ call.key \in KeysOf(path'[i], L2, T2)
  <2>1. CASE i \in 1..Len(path)
    BY <1>2, <1>3, <2>1 DEF NodesStay
  <2>2. CASE i = Len(path) + 1
    BY <1>1, <1>2, <2>2
  <2> QED BY <1>1, <1>2, <2>1, <2>2
<1>5. ASSUME pc = "insert", NEW i \in 1..(Len(path') - 1)
      PROVE  KeyLevelBits(call.key, i - 1) \in bits'[path'[i]]
  <2>1. i \in 1..Len(path) /\ path'[i] = path[i]
    BY <1>1, <1>2
  <2>2. CASE i \in 1..(Len(path) - 1)
    <3>1. KeyLevelBits(call.key, i - 1) \in bits[path[i]]
      BY <1>5, <2>2 DEF Inv, PathOK, Running
    <3> QED BY <1>3, <2>1, <3>1
  <2>3. CASE i = Len(path)
    BY <1>1, <1>5, <2>1, <2>3 DEF KeyBits, Here, Level
  <2> QED BY <1>1, <2>1, <2>2, <2>3
<1>6. Len(path') \in 1..NumLevels
  BY <1>1, <1>2, Constants
<1> QED BY <1>2, <1>4, <1>5, <1>6 DEF PathOK

LEMMA DescendStep ==
    ASSUME NEW L, NEW O, NEW T, Inv(L, O, T), RemoveDescend PROVE Inv(L, O, T)'
<1>1. Running /\ pc = "remove" /\ UNCHANGED <<numLevels, treeVars, pc, call, answer>>
  BY DEF RemoveDescend, Running
<1>2. FreeArraysAreClean' /\ ArraysOK(L, O, T)' /\ BitsOK(L, T)' /\ Used' = Used
  BY <1>1, TreeKept DEF Inv
<1>3. PICK n : n = ChildNode(Here, KeyBits)
  OBVIOUS
<1>4. n \in Used /\ LevelOf(n, L) = Level + 1 /\ call.key \in KeysOf(n, L, T)
  <2>1. LevelOf(Here, L) # LastLevel /\ children[Here][WordOf(KeyBits)] # NULL
    BY <1>1, AtHand, Constants DEF RemoveDescend, ChildArray
  <2> QED BY <1>1, <1>3, <2>1, AtHand, Below DEF Inv
<1>5. n \in Node
  BY <1>4, UsedNodes DEF Inv
<1>6. path' = Append(path, n) /\ Len(path) < NumLevels /\ LevelOf(n, L) = Len(path)
  BY <1>1, <1>3, <1>4, AtHand, Constants DEF RemoveDescend, ChildNode, ChildArray
<1>7. PathOK(L, T)' /\ path' \in Seq(Node) /\ Len(path') <= NumLevels /\ path' # <<>>
  <2>1. NodesStay(L, T, L, T) /\ \A m \in Used : bits[m] \subseteq bits'[m]
    BY <1>1, <1>2 DEF treeVars, NodesStay
  <2> QED BY <1>1, <1>2, <1>4, <1>5, <1>6, <2>1, PathDown
<1>8. TypeOK'
  BY <1>1, <1>7 DEF Inv, TypeOK, treeVars, NonLeafPool!TypeOK, LeafPool!TypeOK
<1>9. CallOK'
  BY <1>1 DEF Inv, CallOK
<1>10. numLevels' # 0
  BY <1>1, AtHand
<1> QED BY <1>2, <1>7, <1>8, <1>9, <1>10 DEF Inv

\* The value is taken out of the leaf array.
LEMMA RemoveValueStep ==
    ASSUME NEW L, NEW O, NEW T, Inv(L, O, T), RemoveValue PROVE Inv(L, O, T)'
<1>1. /\ Running /\ pc = "remove" /\ pc' = "clean" /\ Level = LastLevel /\ ChildArray # NULL
      /\ UNCHANGED <<numLevels, bits, children, nonLeafLive, leafLive, call, path>>
  BY DEF RemoveValue, Running
<1>2. PICK a, s : a = ChildArray /\ s = SlotOf(KeyBits)
  OBVIOUS
<1>3. answer' = leaf[a][s] /\ leaf' = [leaf EXCEPT ![a][s] = 0]
  BY <1>2 DEF RemoveValue
<1>4. a \in leafLive /\ a \in LeafArray /\ s \in Slot
  <2>1. a \in Live(LevelOf(Here, L))
    BY <1>1, <1>2, AtHand, Owned DEF Inv, ChildArray
  <2> QED BY <1>1, <1>2, <2>1, AtHand DEF Live, Inv, TypeOK, LeafPool!TypeOK
<1>5. leaf \in [LeafArray -> [Slot -> Value \union {0}]]
  BY DEF Inv, TypeOK
<1>6. /\ \A b \in LeafArray, t \in Slot : leaf'[b][t] = leaf[b][t] \/ leaf'[b][t] = 0
      /\ leaf'[a][s] = 0
      /\ leaf' \in [LeafArray -> [Slot -> Value \union {0}]]
  BY <1>3, <1>4, <1>5
<1>7. TypeOK'
  BY <1>1, <1>3, <1>4, <1>5, <1>6 DEF Inv, TypeOK, NonLeafPool!TypeOK, LeafPool!TypeOK
<1>8. FreeArraysAreClean'
  BY <1>1, <1>6 DEF Inv, FreeArraysAreClean
<1>9. ArraysOK(L, O, T)' /\ Used' = Used
  BY <1>1, ArraysKept DEF Inv
<1>10. ASSUME NEW m \in Used, NEW e \in Child, LevelOf(m, L) = LastLevel, children[m][WordOf(e)] # NULL
       PROVE  ValueAt(m, e)' = ValueAt(m, e) \/ ValueAt(m, e)' = 0
  <2>1. WordOf(e) \in Word /\ SlotOf(e) \in Slot
    BY WordAndSlot
  <2>2. children[m][WordOf(e)] \in Live(LevelOf(m, L))
    BY <1>10, <2>1, Owned DEF Inv
  <2>3. children[m][WordOf(e)] \in LeafArray
    BY <1>10, <2>2 DEF Live, Inv, TypeOK, LeafPool!TypeOK
  <2> QED BY <1>1, <1>6, <2>1, <2>3 DEF ValueAt
<1>11. BitsOK(L, T)'
  <2>1. \A m \in Used, v \in Word : children'[m][v] # NULL <=> InWord(bits'[m], v) # {}
    BY <1>1 DEF Inv, BitsOK
  <2>2. ASSUME NEW m \in Used, NEW e \in Child, children'[m][WordOf(e)] # NULL,
               ~Hollow(LevelOf(m, L), m, e)'
        PROVE  e \in bits'[m]
    <3>1. children[m][WordOf(e)] # NULL
      BY <1>1, <2>2
    <3>2. ~Hollow(LevelOf(m, L), m, e)
      BY <1>1, <1>10, <2>2, <3>1 DEF Hollow, ChildNode
    <3> QED BY <1>1, <3>1, <3>2 DEF Inv, BitsOK
  <2>3. ASSUME NEW m \in Used, NEW e \in Child, LevelOf(m, L) = LastLevel,
               children'[m][WordOf(e)] # NULL, ValueAt(m, e)' # 0
        PROVE  \E j \in KeysOf(m, L, T) : KeyLevelBits(j, LastLevel) = e
    <3>1. children[m][WordOf(e)] # NULL /\ ValueAt(m, e) # 0
      BY <1>1, <1>10, <2>3
    <3> QED BY <2>3, <3>1 DEF Inv, BitsOK
  <2> QED BY <1>9, <2>1, <2>2, <2>3 DEF BitsOK
<1>12. PathOK(L, T)'
  BY <1>1, <1>9 DEF Inv, PathOK, Running
<1>13. CallOK'
  <2>1. /\ ChildArray' = ChildArray /\ Here' = Here /\ KeyBits' = KeyBits /\ Level' = Level
    BY <1>1 DEF ChildArray, KeyBits, Here, Level
  <2>2. ValueAt(Here, KeyBits)' = 0
    BY <1>1, <1>2, <1>6, <2>1 DEF ValueAt, ChildArray
  <2>3. Hollow(Level, Here, KeyBits)'
    BY <1>1, <2>1, <2>2 DEF Hollow
  <2>4. call' \in RemoveCall /\ answer' \in Value \union {0}
    BY <1>1, <1>3, <1>4, <1>5 DEF Inv, CallOK
  <2> QED BY <1>1, <2>3, <2>4 DEF CallOK
<1>14. numLevels' # 0
  BY <1>1, AtHand
<1> QED BY <1>7, <1>8, <1>9, <1>11, <1>12, <1>13, <1>14 DEF Inv

\* Whether an iteration of the way back frees the child array at hand, and the
\* bits it leaves.
Left == bits[Here] \ {KeyBits}
Freed == WordEmpty(Left, WordOf(KeyBits)) /\ ChildArray # NULL

\* What an iteration of the way back does to the arrays.
LEMMA CleanArrays ==
    ASSUME NEW L, NEW O, NEW T, Inv(L, O, T), Clean
    PROVE  /\ Running /\ pc = "clean" /\ Level > 0 /\ bits' = [bits EXCEPT ![Here] = Left]
           /\ UNCHANGED <<numLevels, leaf, call, answer>>
           /\ call \in RemoveCall /\ answer \in Value \union {0}
           /\ ChildArray # NULL => Hollow(LevelOf(Here, L), Here, KeyBits)
           /\ Freed => children' = [children EXCEPT ![Here][WordOf(KeyBits)] = NULL]
           /\ Freed /\ Level = LastLevel =>
                 ChildArray \in leafLive /\ leafLive' = leafLive \ {ChildArray} /\ nonLeafLive' = nonLeafLive
           /\ Freed /\ Level # LastLevel =>
                 ChildArray \in nonLeafLive /\ nonLeafLive' = nonLeafLive \ {ChildArray} /\ leafLive' = leafLive
           /\ ~Freed => UNCHANGED <<children, nonLeafLive, leafLive>>
           /\ Freed /\ Level = LastLevel => \A s \in Slot : leaf[ChildArray][s] = 0
           /\ Freed /\ Level # LastLevel => \A s \in Slot : /\ bits[<<ChildArray, s>>] = {}
                                                            /\ children[<<ChildArray, s>>] = EmptyChildren
           /\ ArraysOK(L, O, T)' /\ Here \in Used' /\ Used' \subseteq Used
           /\ \A m \in Used : (Freed /\ m # Root /\ m[1] = ChildArray) \/ m \in Used'
           /\ \A m \in Used' : Freed /\ m # Root => m[1] # ChildArray
<1>1. /\ Running /\ pc = "clean" /\ Level > 0 /\ bits' = [bits EXCEPT ![Here] = Left]
      /\ UNCHANGED <<numLevels, leaf, call, answer>>
  BY DEF Clean, CleanNode, Running, Left
<1>2. /\ call \in RemoveCall /\ answer \in Value \union {0}
      /\ ChildArray # NULL => Hollow(LevelOf(Here, L), Here, KeyBits)
  BY <1>1, AtHand DEF Inv, CallOK
<1>3. /\ Freed => children' = [children EXCEPT ![Here][WordOf(KeyBits)] = NULL]
      /\ Freed /\ Level = LastLevel =>
            ChildArray \in leafLive /\ leafLive' = leafLive \ {ChildArray} /\ nonLeafLive' = nonLeafLive
      /\ Freed /\ Level # LastLevel =>
            ChildArray \in nonLeafLive /\ nonLeafLive' = nonLeafLive \ {ChildArray} /\ leafLive' = leafLive
      /\ ~Freed => UNCHANGED <<children, nonLeafLive, leafLive>>
  BY DEF Clean, CleanNode, ClearPointer, LeafPool!Free, NonLeafPool!Free, Freed, Left
<1>5. /\ nonLeafLive \subseteq NonLeafArray /\ leafLive \subseteq LeafArray
      /\ nonLeafLive \intersect leafLive = {}
  BY DataAssumption DEF Inv, TypeOK, NonLeafPool!TypeOK, LeafPool!TypeOK
<1>6. Here \in Used /\ Here \in Node /\ WordOf(KeyBits) \in Word /\ KeyBits \in Child
  BY <1>1, AtHand
<1>7. ASSUME Freed
      PROVE  /\ Level = LastLevel => \A s \in Slot : leaf[ChildArray][s] = 0
             /\ Level # LastLevel => \A s \in Slot : /\ bits[<<ChildArray, s>>] = {}
                                                     /\ children[<<ChildArray, s>>] = EmptyChildren
  <2>1. InWord(Left, WordOf(KeyBits)) = {} /\ ChildArray # NULL
    BY <1>7 DEF WordEmpty, Freed, Left
  <2> QED BY <1>1, <1>2, <1>6, <2>1, AtHand, FreedIsClean, SMTT(40) DEF Inv, ChildArray, Left
<1>8. /\ ArraysOK(L, O, T)' /\ Here \in Used' /\ Used' \subseteq Used
      /\ \A m \in Used : (Freed /\ m # Root /\ m[1] = ChildArray) \/ m \in Used'
      /\ \A m \in Used' : Freed /\ m # Root => m[1] # ChildArray
  <2>1. CASE ~Freed
    BY <1>3, <1>6, <2>1, ArraysKept DEF Inv
  <2>2. CASE Freed
    <3>1. PICK a : a = children[Here][WordOf(KeyBits)] /\ a = ChildArray
      BY DEF ChildArray
    <3>2. /\ nonLeafLive' = nonLeafLive \ {a} /\ leafLive' = leafLive \ {a}
          /\ \A s \in Slot : a \in nonLeafLive => children[<<a, s>>] = EmptyChildren
      BY <1>3, <1>5, <1>7, <2>2, <3>1
    <3>3. /\ ArraysOK(L, O, T)'
          /\ Here \in Used'
          /\ \A m \in Used : m[1] # a => m \in Used'
          /\ \A m \in Used' : m \in Used /\ (m # Root => m[1] # a)
      <4>1. a # NULL /\ children' = [children EXCEPT ![Here][WordOf(KeyBits)] = NULL]
        BY <1>3, <2>2, <3>1 DEF Freed
      <4> QED BY <1>6, <3>1, <3>2, <4>1, ArraysShrink DEF Inv
    <3>4. Root \in Used'
      BY DEF Used
    <3> QED BY <2>2, <3>1, <3>3, <3>4
  <2> QED BY <2>1, <2>2
<1> QED BY <1>1, <1>2, <1>3, <1>7, <1>8

\* One iteration of the way back.
LEMMA CleanStep ==
    ASSUME NEW L, NEW O, NEW T, Inv(L, O, T), Clean PROVE Inv(L, O, T)'
<1> DEFINE w == WordOf(KeyBits)
<1>1. /\ Running /\ pc = "clean" /\ Level > 0 /\ bits' = [bits EXCEPT ![Here] = Left]
      /\ UNCHANGED <<numLevels, leaf, call, answer>>
  BY CleanArrays
<1>2. /\ call \in RemoveCall /\ answer \in Value \union {0}
      /\ ChildArray # NULL => Hollow(LevelOf(Here, L), Here, KeyBits)
  BY CleanArrays
<1>3. /\ Freed => children' = [children EXCEPT ![Here][w] = NULL]
      /\ Freed /\ Level = LastLevel =>
            ChildArray \in leafLive /\ leafLive' = leafLive \ {ChildArray} /\ nonLeafLive' = nonLeafLive
      /\ Freed /\ Level # LastLevel =>
            ChildArray \in nonLeafLive /\ nonLeafLive' = nonLeafLive \ {ChildArray} /\ leafLive' = leafLive
      /\ ~Freed => UNCHANGED <<children, nonLeafLive, leafLive>>
  BY CleanArrays
<1>4. /\ Left # {} => pc' = "return" /\ path' = path
      /\ Left = {} => pc' = "clean" /\ path' = SubSeq(path, 1, Len(path) - 1)
  BY <1>1 DEF Clean, CleanNode, StopHere, Left
<1>5. /\ nonLeafLive \subseteq NonLeafArray /\ leafLive \subseteq LeafArray
      /\ nonLeafLive \intersect leafLive = {}
  BY DataAssumption DEF Inv, TypeOK, NonLeafPool!TypeOK, LeafPool!TypeOK
<1>6. Here \in Used /\ Here \in Node /\ w \in Word /\ KeyBits \in Child
  BY <1>1, AtHand
<1>7. ASSUME Freed
      PROVE  /\ Level = LastLevel => \A s \in Slot : leaf[ChildArray][s] = 0
             /\ Level # LastLevel => \A s \in Slot : /\ bits[<<ChildArray, s>>] = {}
                                                     /\ children[<<ChildArray, s>>] = EmptyChildren
  BY <1>7, CleanArrays
<1>8. /\ ArraysOK(L, O, T)' /\ Here \in Used' /\ Used' \subseteq Used
      /\ \A m \in Used : (Freed /\ m # Root /\ m[1] = ChildArray) \/ m \in Used'
      /\ \A m \in Used' : Freed /\ m # Root => m[1] # ChildArray
  BY CleanArrays
<1>9. BitsOK(L, T)'
  <2>1. children[Here][WordOf(KeyBits)] # NULL => Hollow(LevelOf(Here, L), Here, KeyBits)
    BY <1>2 DEF ChildArray
  <2>2. IF InWord(bits[Here] \ {KeyBits}, WordOf(KeyBits)) = {} /\ children[Here][WordOf(KeyBits)] # NULL
           THEN children' = [children EXCEPT ![Here][WordOf(KeyBits)] = NULL]
           ELSE children' = children
    BY <1>3 DEF WordEmpty, ChildArray, Freed, Left
  <2> QED BY <1>1, <1>6, <1>8, <2>1, <2>2, BitsShrink DEF Inv, Left
<1> HIDE DEF w
<1>10. /\ \A m \in Node \ {Here} : bits'[m] = bits[m] /\ children'[m] = children[m]
       /\ bits' \in [Node -> SUBSET Child] /\ bits'[Here] = Left
       /\ children' \in [Node -> [Word -> NonLeafArray \union LeafArray \union {NULL}]]
  <2>1. /\ children \in [Node -> [Word -> NonLeafArray \union LeafArray \union {NULL}]]
        /\ bits \in [Node -> SUBSET Child]
    BY DEF Inv, TypeOK
  <2>2. Left \subseteq Child
    BY <1>6, <2>1 DEF Left
  <2>3. children' = [children EXCEPT ![Here][w] = NULL] \/ children' = children
    BY <1>3
  <2> QED BY <1>1, <1>6, <2>1, <2>2, <2>3
<1>11. path \in Seq(Node) /\ Len(path) \in 1..NumLevels /\ Len(path) > 1
  BY <1>1, AtHand
<1>12. /\ path' \in Seq(Node) /\ Len(path') \in 1..Len(path) /\ path' # <<>>
       /\ \A i \in 1..Len(path') : path'[i] = path[i]
       /\ pc' = "clean" => Len(path') = Len(path) - 1
  BY <1>4, <1>11
<1>13. TypeOK'
  <2>1. nonLeafLive' \subseteq NonLeafArray /\ leafLive' \subseteq LeafArray
    BY <1>3, <1>5
  <2>2. path' \in Seq(Node) /\ Len(path') <= NumLevels /\ ~(path' = <<>>)
    BY <1>11, <1>12, Constants
  <2>3. pc' \in {"clean", "return"}
    BY <1>4
  <2> QED BY <1>1, <1>2, <1>10, <2>1, <2>2, <2>3 DEF Inv, TypeOK, NonLeafPool!TypeOK, LeafPool!TypeOK
<1>14. FreeArraysAreClean'
  <2>1. ASSUME NEW b \in NonLeafArray, b \notin nonLeafLive', NEW s \in Slot
        PROVE  bits'[<<b, s>>] = {} /\ children'[<<b, s>>] = EmptyChildren
    <3>1. bits[<<b, s>>] = {} /\ children[<<b, s>>] = EmptyChildren
      <4>1. CASE b \in nonLeafLive
        BY <1>3, <1>7, <2>1, <4>1
      <4>2. CASE b \notin nonLeafLive
        BY <2>1, <4>2 DEF Inv, FreeArraysAreClean
      <4> QED BY <4>1, <4>2
    <3>2. <<b, s>> \in Node /\ <<b, s>> # Here
      <4>1. <<b, s>> \notin Used'
        BY <2>1, Constants DEF Used
      <4> QED BY <1>8, <4>1 DEF Node
    <3> QED BY <1>10, <3>1, <3>2
  <2>2. ASSUME NEW b \in LeafArray, b \notin leafLive', NEW s \in Slot PROVE leaf'[b][s] = 0
    <3>1. CASE b \in leafLive
      BY <1>1, <1>3, <1>7, <2>2, <3>1
    <3>2. CASE b \notin leafLive
      BY <1>1, <2>2, <3>2 DEF Inv, FreeArraysAreClean
    <3> QED BY <3>1, <3>2
  <2> QED BY <2>1, <2>2 DEF FreeArraysAreClean
\* The nodes above the one at hand, and that one, are still there.
<1>15. ASSUME NEW i \in 1..Len(path)
       PROVE  /\ path[i] \in Used' /\ LevelOf(path[i], L) = i - 1 /\ call.key \in KeysOf(path[i], L, T)
              /\ path[i] \in Used
  <2>1. path[i] \in Used /\ LevelOf(path[i], L) = i - 1 /\ call.key \in KeysOf(path[i], L, T)
    BY <1>1, <1>15 DEF Inv, PathOK
  <2>2. path[i] \in Used'
    <3> SUFFICES ASSUME Freed, path[i] # Root, path[i][1] = ChildArray PROVE FALSE
      BY <1>8, <2>1
    <3>1. L[ChildArray] = LevelOf(Here, L)
      BY <1>6, AtHand, Owned DEF Inv, ChildArray, Freed, w
    <3>2. LevelOf(path[i], L) = Level + 1
      BY <1>1, <3>1, AtHand DEF LevelOf
    <3> QED BY <1>1, <1>11, <2>1, <3>2, AtHand
  <2> QED BY <2>1, <2>2
<1>16. PathOK(L, T)'
  <2>1. pc' # "insert" /\ Len(path') \in 1..NumLevels
    BY <1>4, <1>11, <1>12, Constants
  <2>2. ASSUME NEW i \in 1..Len(path')
        PROVE  /\ path'[i] \in Used' /\ LevelOf(path'[i], L) = i - 1
               /\ call'.key \in KeysOf(path'[i], L, T)
    BY <1>1, <1>11, <1>12, <1>15
  <2> QED BY <2>1, <2>2 DEF PathOK
<1>17. ASSUME pc' = "clean", ChildArray' # NULL PROVE Hollow(Level, Here, KeyBits)'
  <2>1. PICK i \in 1..Len(path) : i = Len(path) - 1 /\ i = Len(path')
    BY <1>11, <1>12, <1>17
  <2>2. PICK p : p = path[i]
    OBVIOUS
  <2>3. Here' = p /\ Level' = i - 1 /\ i - 1 \in 0..LastLevel /\ i - 1 # LastLevel
    BY <1>11, <1>12, <1>17, <2>1, <2>2, Constants DEF Here, Level
  <2>4. p \in Used /\ LevelOf(p, L) = i - 1 /\ call.key \in KeysOf(p, L, T)
    BY <1>15, <2>2
  <2>5. PICK c : c = KeyLevelBits(call.key, i - 1) /\ KeyBits' = c
    BY <1>1, <2>3 DEF KeyBits
  <2>6. p # Here /\ p \in Node
    <3>1. LevelOf(Here, L) = i
      BY <1>1, <1>11, <2>1, AtHand
    <3>2. p \in Node
      BY <2>4, UsedNodes DEF Inv
    <3> QED BY <2>1, <2>4, <3>1, <3>2
  <2>7. children'[p] = children[p]
    BY <1>10, <2>6
  <2>8. children[p][WordOf(c)] # NULL
    BY <1>17, <2>3, <2>5, <2>7 DEF ChildArray
  <2>9. /\ ChildNode(p, c) \in Used /\ LevelOf(ChildNode(p, c), L) = i
        /\ call.key \in KeysOf(ChildNode(p, c), L, T)
    <3>1. LevelOf(p, L) # LastLevel /\ c = KeyLevelBits(call.key, LevelOf(p, L))
      BY <2>3, <2>4, <2>5
    <3>2. /\ ChildNode(p, c) \in Used /\ LevelOf(ChildNode(p, c), L) = LevelOf(p, L) + 1
          /\ call.key \in KeysOf(ChildNode(p, c), L, T)
      BY <2>4, <2>8, <3>1, Below DEF Inv
    <3> QED BY <2>1, <2>4, <3>2
  <2>10. ChildNode(p, c) = Here
    <3>1. LevelOf(Here, L) = i /\ call.key \in KeysOf(Here, L, T)
      BY <1>1, <1>11, <2>1, AtHand
    <3> QED BY <1>6, <2>9, <3>1 DEF Inv, ArraysOK
  <2>11. Left = {}
    BY <1>4, <1>17
  <2>12. ChildNode(p, c)' = Here
    BY <2>7, <2>10 DEF ChildNode
  <2>13. bits'[Here] = {}
    BY <1>10, <2>11
  <2> QED BY <2>3, <2>5, <2>12, <2>13 DEF Hollow, ChildNode
<1>18. CallOK'
  <2>1. answer' # Pending
    BY <1>1, <1>2, DataAssumption
  <2> QED BY <1>1, <1>2, <1>4, <1>17, <2>1 DEF CallOK
<1>19. numLevels' # 0
  BY <1>1, AtHand
<1> QED BY <1>8, <1>9, <1>13, <1>14, <1>16, <1>18, <1>19 DEF Inv

\* Where the child array of an insert comes from, and what it is to the tree.
LEMMA InsertArray ==
    ASSUME NEW L, NEW O, NEW T, Inv(L, O, T), NEW a \in Array, InsertLevel(a)
    PROVE  /\ IF Level = LastLevel THEN a \in leafLive' /\ a \in LeafArray
                                   ELSE a \in nonLeafLive' /\ a \in NonLeafArray
           /\ nonLeafLive \subseteq nonLeafLive' /\ nonLeafLive' \subseteq NonLeafArray
           /\ leafLive \subseteq leafLive' /\ leafLive' \subseteq LeafArray
           /\ ChildArray = a \/ (ChildArray = NULL /\ a \notin nonLeafLive \union leafLive)
           /\ NewNodesOf(a)
           /\ \E L2, O2, T2 :
                 /\ ArraysOK(L2, O2, T2)'
                 /\ NodesStay(L, T, L2, T2)
                 /\ L2[a] = Level /\ call.key \in T2[a]
<1>1. Running /\ children' = [children EXCEPT ![Here][WordOf(KeyBits)] = a]
  BY DEF InsertLevel, Running
<1>2. PICK n, w : n = Here /\ w = WordOf(KeyBits)
  OBVIOUS
<1>3. /\ n \in Used /\ n \in Node /\ w \in Word /\ LevelOf(n, L) = Level
      /\ call.key \in KeysOf(n, L, T) /\ WordOf(KeyLevelBits(call.key, LevelOf(n, L))) = w
      /\ ChildArray = children[n][w]
  BY <1>1, <1>2, AtHand DEF ChildArray
<1>4. /\ nonLeafLive \subseteq NonLeafArray /\ leafLive \subseteq LeafArray
      /\ children \in [Node -> [Word -> Array \union {NULL}]]
  BY DEF Inv, TypeOK, NonLeafPool!TypeOK, LeafPool!TypeOK, Array
<1>5. CASE ChildArray # NULL
  <2>1. a = ChildArray /\ nonLeafLive' = nonLeafLive /\ leafLive' = leafLive
    BY <1>5 DEF InsertLevel, FetchChildArray
  <2>2. children' = children
    BY <1>1, <1>2, <1>3, <1>4, <2>1
  <2>3. /\ a \in Live(LevelOf(n, L)) /\ L[a] = Level /\ call.key \in T[a]
    BY <1>3, <1>5, <2>1, Owned DEF Inv
  <2>4. ArraysOK(L, O, T)' /\ Used' = Used
    BY <2>1, <2>2, ArraysKept DEF Inv
  <2> QED BY <1>3, <1>4, <2>1, <2>3, <2>4 DEF Live, NodesStay, NewNodesOf
<1>6. CASE ChildArray = NULL
  <2>1. IF Level = LastLevel
        THEN /\ a \in LeafArray /\ a \notin leafLive /\ leafLive' = leafLive \union {a}
             /\ nonLeafLive' = nonLeafLive
        ELSE /\ a \in NonLeafArray /\ a \notin nonLeafLive /\ nonLeafLive' = nonLeafLive \union {a}
             /\ leafLive' = leafLive
    BY <1>6 DEF InsertLevel, FetchChildArray, LeafPool!Alloc, NonLeafPool!Alloc
  <2>2. a \notin nonLeafLive \union leafLive
    BY <1>4, <2>1, DataAssumption
  <2>3. PICK L2, O2, T2 :
          /\ L2 = [L EXCEPT ![a] = LevelOf(n, L)]
          /\ O2 = [b \in Array |-> IF b = a THEN <<n, w>> ELSE O[b]]
          /\ T2 = [b \in Array |->
               IF b = a THEN {k \in KeysOf(n, L, T) : WordOf(KeyLevelBits(k, LevelOf(n, L))) = w}
               ELSE T[b]]
    OBVIOUS
  <2>4. ArraysOK(L2, O2, T2)' /\ NodesStay(L, T, L2, T2)
    <3>1. Extended(L, O, T, n, w, a, L2, O2, T2)
      <4>1. L \in [Array -> Nat] /\ LevelOf(n, L) \in Nat
        BY <1>1, <1>3, AtHand DEF Inv, ArraysOK
      <4> QED BY <2>3, <4>1 DEF Extended
    <3>2. Hangs(L, n, w, a)
      BY <1>1, <1>2, <1>3, <1>6, <2>1, <2>2 DEF Hangs
    <3>3. TypeOK /\ FreeArraysAreClean /\ ArraysOK(L, O, T)
      BY DEF Inv
    <3> QED BY <1>3, <3>1, <3>2, <3>3, ArraysGrow
  <2>5. L2[a] = Level /\ call.key \in T2[a]
    <3>1. L \in [Array -> Nat]
      BY DEF Inv, ArraysOK
    <3> QED BY <1>3, <2>3, <3>1
  <2>6. NewNodesOf(a)
    BY <2>1, <2>2 DEF Used, NewNodesOf
  <2> QED BY <1>4, <1>6, <2>1, <2>2, <2>4, <2>5, <2>6
<1> QED BY <1>5, <1>6

\* The bits above the node at hand of an insert are set.
LEMMA InsertBits ==
    ASSUME NEW L, NEW O, NEW T, Inv(L, O, T), pc = "insert",
           NEW m \in Used, NEW d \in Child, LevelOf(m, L) # LastLevel,
           children[m][WordOf(d)] # NULL, ChildNode(m, d) = Here
    PROVE  d \in bits[m]
<1>1. /\ Here # Root /\ LevelOf(Here, L) = LevelOf(m, L) + 1
      /\ \A k \in KeysOf(Here, L, T) : k \in KeysOf(m, L, T) /\ KeyLevelBits(k, LevelOf(m, L)) = d
  BY ParentOfKey DEF Inv
<1>2. /\ call.key \in KeysOf(Here, L, T) /\ LevelOf(Here, L) = Level /\ Level + 1 = Len(path)
      /\ Len(path) \in Nat
  BY AtHand DEF Running
<1>3. LevelOf(m, L) \in Nat
  <2>1. LevelOf(m, L) \in 0..LastLevel
    BY DEF Inv, ArraysOK
  <2> QED BY <2>1
<1>4. PICK i \in 1..(Len(path) - 1) : i = Len(path) - 1 /\ LevelOf(m, L) = i - 1
  BY <1>1, <1>2, <1>3
<1>5. /\ path[i] \in Used /\ LevelOf(path[i], L) = i - 1
      /\ call.key \in KeysOf(path[i], L, T)
      /\ KeyLevelBits(call.key, i - 1) \in bits[path[i]]
  BY <1>2, <1>4 DEF Inv, PathOK, Running
<1>6. path[i] = m
  <2>1. call.key \in KeysOf(m, L, T)
    BY <1>1, <1>2
  <2> QED BY <1>4, <1>5, <2>1 DEF Inv, ArraysOK
<1>7. KeyLevelBits(call.key, i - 1) = d
  BY <1>1, <1>2, <1>4
<1> QED BY <1>5, <1>6, <1>7

\* One iteration of an insert.
LEMMA InsertStep ==
    ASSUME NEW L, NEW O, NEW T, Inv(L, O, T), NEW a \in Array, InsertLevel(a)
    PROVE  \E L2, O2, T2 : Inv(L2, O2, T2)' /\ NodesStay(L, T, L2, T2)
<1> DEFINE w == WordOf(KeyBits)
           s == SlotOf(KeyBits)
<1>1. /\ Running /\ pc = "insert" /\ numLevels' = numLevels
      /\ children' = [children EXCEPT ![Here][w] = a]
      /\ bits' = [bits EXCEPT ![Here] = @ \union {KeyBits}]
  BY DEF InsertLevel, Running
<1>2. /\ IF Level = LastLevel THEN a \in leafLive' /\ a \in LeafArray
                              ELSE a \in nonLeafLive' /\ a \in NonLeafArray
      /\ nonLeafLive \subseteq nonLeafLive' /\ nonLeafLive' \subseteq NonLeafArray
      /\ leafLive \subseteq leafLive' /\ leafLive' \subseteq LeafArray
      /\ ChildArray = a \/ (ChildArray = NULL /\ a \notin nonLeafLive \union leafLive)
      /\ NewNodesOf(a)
  BY InsertArray
<1>3. PICK L2, O2, T2 :
          /\ ArraysOK(L2, O2, T2)'
          /\ NodesStay(L, T, L2, T2)
          /\ L2[a] = Level /\ call.key \in T2[a]
  BY InsertArray
<1>4. /\ path \in Seq(Node) /\ Len(path) \in 1..NumLevels /\ numLevels # 0
      /\ Level \in 0..LastLevel /\ Level + 1 = Len(path)
      /\ Here \in Used /\ Here \in Node /\ LevelOf(Here, L) = Level
      /\ call.key \in KeysOf(Here, L, T)
      /\ KeyBits \in Child /\ KeyBits = KeyLevelBits(call.key, LevelOf(Here, L))
      /\ w \in Word /\ s \in Slot /\ ChildArray = children[Here][w]
  BY <1>1, AtHand DEF ChildArray
<1>5. call \in InsertCall /\ call.value \in Value /\ answer = Pending
  BY <1>1 DEF Inv, CallOK, InsertCall
<1>6. /\ bits \in [Node -> SUBSET Child] /\ leaf \in [LeafArray -> [Slot -> Value \union {0}]]
      /\ children \in [Node -> [Word -> NonLeafArray \union LeafArray \union {NULL}]]
  BY DEF Inv, TypeOK
<1>7. \/ /\ Level = LastLevel /\ pc' = "return" /\ path' = path /\ call' = call
         /\ answer' = leaf[a][s]
         /\ leaf' = leaf \/ leaf' = [leaf EXCEPT ![a][s] = call.value]
      \/ /\ Level # LastLevel /\ pc' = pc /\ path' = Append(path, <<a, s>>) /\ call' = call
         /\ answer' = answer /\ leaf' = leaf
  BY <1>4 DEF InsertLevel, ReturnWith, StoreIfEmpty
<1>8. BitsOK(L2, T2)'
  <2>1. \A b \in LeafArray, t \in Slot :
           b # a \/ t # s \/ LevelOf(Here, L) # LastLevel => leaf'[b][t] = leaf[b][t]
    BY <1>2, <1>4, <1>6, <1>7
  <2>2. SetsBit(L, Here, KeyBits, a)
    BY <1>1, <1>2, <1>4, <2>1 DEF SetsBit
  <2>3. OwnBitSet(L, Here)
    BY <1>1, InsertBits DEF OwnBitSet
  <2>4. TypeOK /\ FreeArraysAreClean /\ ArraysOK(L, O, T) /\ BitsOK(L, T)
    BY DEF Inv
  <2> QED BY <1>2, <1>3, <1>4, <2>2, <2>3, <2>4, BitsGrow
<1> HIDE DEF w, s
<1>9. /\ \A m \in Node \ {Here} : children'[m] = children[m] /\ bits'[m] = bits[m]
      /\ children' \in [Node -> [Word -> NonLeafArray \union LeafArray \union {NULL}]]
      /\ bits' \in [Node -> SUBSET Child]
      /\ bits'[Here] = bits[Here] \union {KeyBits}
  BY <1>1, <1>4, <1>6 DEF Array
<1>10. FreeArraysAreClean'
  <2>1. ASSUME NEW b \in NonLeafArray, b \notin nonLeafLive', NEW t \in Slot
        PROVE  bits'[<<b, t>>] = {} /\ children'[<<b, t>>] = EmptyChildren
    <3>1. b \notin nonLeafLive
      BY <1>2, <2>1
    <3>2. bits[<<b, t>>] = {} /\ children[<<b, t>>] = EmptyChildren
      BY <3>1 DEF Inv, FreeArraysAreClean
    <3>3. <<b, t>> \in Node /\ <<b, t>> # Here
      BY <1>4, <3>1, Constants DEF Node, Used
    <3> QED BY <1>9, <3>2, <3>3
  <2>2. ASSUME NEW b \in LeafArray, b \notin leafLive', NEW t \in Slot PROVE leaf'[b][t] = 0
    <3>1. b \notin leafLive /\ (Level = LastLevel => b # a)
      BY <1>2, <2>2
    <3>2. leaf[b][t] = 0
      BY <3>1 DEF Inv, FreeArraysAreClean
    <3>3. leaf'[b] = leaf[b]
      BY <1>2, <1>6, <1>7, <3>1
    <3> QED BY <3>2, <3>3
  <2> QED BY <2>1, <2>2 DEF FreeArraysAreClean
<1>11. /\ PathOK(L2, T2)'
       /\ path' \in Seq(Node) /\ Len(path') <= NumLevels /\ path' # <<>>
  <2>1. CASE Level = LastLevel
    BY <1>4, <1>7, <2>1, Constants DEF PathOK, Running
  <2>2. CASE Level # LastLevel
    <3>0. PICK n : n = <<a, s>>
      OBVIOUS
    <3>1. n = <<a, s>> /\ n[1] = a /\ n[2] = s
      BY <3>0
    <3>2. n \in Used' /\ n \in Node /\ n # Root
      BY <1>2, <1>4, <2>2, <3>1, Constants DEF Used, Node
    <3>3. LevelOf(n, L2) = Len(path) /\ call.key \in KeysOf(n, L2, T2)
      BY <1>3, <1>4, <3>1, <3>2 DEF LevelOf, KeysOf, s
    <3>4. \A m \in Used : bits[m] \subseteq bits'[m]
      <4>1. Used \subseteq Node
        BY UsedNodes DEF Inv
      <4> QED BY <1>9, <4>1
    <3>5. path' = Append(path, n) /\ Len(path) < NumLevels /\ pc' = pc /\ call' = call
      BY <1>4, <1>7, <2>2, <3>1, Constants
    <3>6. KeyBits \in bits'[Here]
      BY <1>9
    <3> QED BY <1>1, <1>3, <3>2, <3>3, <3>4, <3>5, <3>6, PathDown
  <2> QED BY <2>1, <2>2
<1>12. /\ leaf' \in [LeafArray -> [Slot -> Value \union {0}]]
       /\ Level = LastLevel => answer' \in Value \union {0}
  <2>1. CASE Level = LastLevel
    <3>1. a \in LeafArray /\ s \in Slot
      BY <1>2, <1>4, <2>1 DEF s
    <3>2. leaf' = leaf \/ leaf' = [leaf EXCEPT ![a][s] = call.value]
      BY <1>7
    <3>3. leaf' \in [LeafArray -> [Slot -> Value \union {0}]]
      BY <1>5, <1>6, <3>1, <3>2
    <3>4. answer' \in Value \union {0}
      BY <1>6, <1>7, <2>1, <3>1
    <3> QED BY <3>3, <3>4
  <2>2. CASE Level # LastLevel
    BY <1>6, <1>7, <2>2
  <2> QED BY <2>1, <2>2
<1>13. TypeOK'
  <2>1. answer' \in Value \union {0, Pending, Failed} /\ pc' \in {"insert", "return"}
    BY <1>1, <1>5, <1>7, <1>12
  <2>2. numLevels' \in {0, NumLevels}
    BY <1>1 DEF Inv, TypeOK
  <2>3. ~(path' = <<>>)
    BY <1>11
  <2> QED BY <1>2, <1>9, <1>11, <1>12, <2>1, <2>2, <2>3 DEF TypeOK, NonLeafPool!TypeOK, LeafPool!TypeOK
<1>14. CallOK'
  <2>1. Level = LastLevel => answer' # Pending
    BY <1>12, DataAssumption
  <2> QED BY <1>1, <1>5, <1>7, <2>1 DEF CallOK
<1>15. Inv(L2, O2, T2)'
  BY <1>1, <1>3, <1>4, <1>8, <1>10, <1>11, <1>13, <1>14 DEF Inv
<1> QED BY <1>3, <1>15

LEMMA UnchangedStep ==
    ASSUME NEW L, NEW O, NEW T, Inv(L, O, T), UNCHANGED vars PROVE Inv(L, O, T)'
<1>1. UNCHANGED <<numLevels, treeVars, pc, call, path, answer>>
  BY DEF vars, callVars
<1>2. FreeArraysAreClean' /\ ArraysOK(L, O, T)' /\ BitsOK(L, T)' /\ Used' = Used
  BY <1>1, TreeKept DEF Inv
<1>3. TypeOK'
  BY <1>1 DEF Inv, TypeOK, treeVars, NonLeafPool!TypeOK, LeafPool!TypeOK
<1>4. PathOK(L, T)'
  BY <1>1, <1>2 DEF Inv, PathOK, Running, treeVars
<1>5. CallOK' /\ (numLevels' = 0 => Zeroed' /\ pc' = "idle")
  <2>1. /\ ChildArray' = ChildArray /\ Here' = Here /\ KeyBits' = KeyBits /\ Level' = Level
        /\ \A l, n, c : Hollow(l, n, c)' = Hollow(l, n, c)
    BY <1>1 DEF ChildArray, Here, KeyBits, Level, Hollow, ValueAt, ChildNode, treeVars
  <2>2. CallOK'
    BY <1>1, <2>1 DEF Inv, CallOK
  <2>3. Zeroed' = Zeroed
    BY <1>1 DEF Zeroed, treeVars
  <2> QED BY <1>1, <2>2, <2>3 DEF Inv
<1> QED BY <1>2, <1>3, <1>4, <1>5 DEF Inv

LEMMA NextInv ==
    ASSUME IInv, [Next]_vars PROVE IInv'
<1>1. PICK L, O, T : Inv(L, O, T)
  BY DEF IInv
<1>2. CASE treeInit
  BY <1>1, <1>2, InitStep DEF IInv
<1>3. CASE treeDestroy
  BY <1>1, <1>3, DestroyStep
<1>4. ASSUME NEW k \in Key, NEW v \in Value, BeginInsert(k, v) PROVE IInv'
  <2>1. PICK c : c = [op |-> "insert", key |-> k, value |-> v]
    OBVIOUS
  <2>2. c \in InsertCall /\ numLevels > 0 /\ Begin(c, "insert")
    BY <1>4, <2>1 DEF BeginInsert, InsertCall
  <2> QED BY <1>1, <2>2, BeginStep DEF IInv
<1>5. ASSUME NEW a \in LeafArray \union NonLeafArray, InsertLevel(a) PROVE IInv'
  <2>1. a \in Array
    BY DEF Array
  <2>2. PICK L2, O2, T2 : Inv(L2, O2, T2)'
    BY <1>1, <1>5, <2>1, InsertStep
  <2> QED BY <2>2 DEF IInv
<1>6. ASSUME NEW k \in Key, BeginRemove(k) PROVE IInv'
  <2>1. PICK c : c = [op |-> "remove", key |-> k]
    OBVIOUS
  <2>2. c \in RemoveCall /\ numLevels > 0 /\ Begin(c, "remove")
    BY <1>6, <2>1 DEF BeginRemove, RemoveCall
  <2> QED BY <1>1, <2>2, BeginStep DEF IInv
<1>7. CASE InsertFails \/ CleanDone \/ RemoveAbsent
  BY <1>1, <1>7, EndStep DEF IInv
<1>8. CASE RemoveDescend
  BY <1>1, <1>8, DescendStep DEF IInv
<1>9. CASE RemoveValue
  BY <1>1, <1>9, RemoveValueStep DEF IInv
<1>10. CASE Clean
  BY <1>1, <1>10, CleanStep DEF IInv
<1>11. CASE Return
  BY <1>1, <1>11, ReturnStep DEF IInv
<1>12. CASE UNCHANGED vars
  BY <1>1, <1>12, UnchangedStep DEF IInv
<1> QED
  BY <1>2, <1>3, <1>4, <1>5, <1>6, <1>7, <1>8, <1>9, <1>10, <1>11, <1>12 DEF Next

LEMMA Invariance == Spec => []IInv
<1>1. Init => IInv
  BY InitInv
<1>2. IInv /\ [Next]_vars => IInv'
  BY NextInv
<1> QED BY <1>1, <1>2, PTL DEF Spec

\* TypeOK holds in every state: the calls keep to the nodes and the arrays
\* there are, and path to as many levels as treeInit found.
THEOREM TypeCorrect == Spec => []TypeOK
<1>1. IInv => TypeOK
  BY DEF IInv, Inv
<1> QED BY <1>1, Invariance, PTL

\* Every array that treeRemove gives back to its pool is empty, as
\* treeInsertOrReturnExisting needs that takes it again without clearing it.
THEOREM FreedArraysAreClean == Spec => []FreeArraysAreClean
<1>1. IInv => FreeArraysAreClean
  BY DEF IInv, Inv
<1> QED BY <1>1, Invariance, PTL

-----------------------------------------------------------------------------
(* The nodes level by level.                                                *)

NodeLayers(F) ==
    F = [level \in 0..LastLevel |-> IF level = 0 THEN {Root} ELSE ArraysUnder(F[level - 1]) \X Slot]

\* The nodes of the invariant's levels are the tree's, level by level.
LEMMA LevelsAreLayers ==
    ASSUME NEW L, NEW O, NEW T, TypeOK, ArraysOK(L, O, T)
    PROVE  NodeLayers([level \in 0..LastLevel |-> {n \in Used : LevelOf(n, L) = level}])
<1> DEFINE F == [level \in 0..LastLevel |-> {n \in Used : LevelOf(n, L) = level}]
<1>1. LastLevel \in Nat /\ 0 \in 0..LastLevel
  BY Constants
<1>2. F[0] = {Root}
  BY <1>1, UsedNodes DEF Used
<1>3. ASSUME NEW level \in 0..LastLevel, level # 0
      PROVE  F[level] = ArraysUnder(F[level - 1]) \X Slot
  <2>1. level - 1 \in 0..LastLevel /\ level - 1 # LastLevel
    BY <1>1, <1>3
  <2>2. F[level] \subseteq ArraysUnder(F[level - 1]) \X Slot
    <3> SUFFICES ASSUME NEW n \in Used, LevelOf(n, L) = level
                 PROVE  n \in ArraysUnder(F[level - 1]) \X Slot
      OBVIOUS
    <3>1. n # Root /\ n[2] \in Slot /\ n = <<n[1], n[2]>>
      BY <1>3, UsedNodes
    <3>2. PICK m \in Used, w \in Word :
              /\ children[m][w] = n[1] /\ n[1] # NULL
              /\ LevelOf(n, L) = LevelOf(m, L) + 1 /\ LevelOf(m, L) \in 0..LastLevel
      BY <3>1, Above
    <3>3. m \in F[level - 1]
      BY <1>1, <2>1, <3>2
    <3>4. n[1] \in ArraysUnder(F[level - 1])
      BY <3>2, <3>3 DEF ArraysUnder
    <3> QED BY <3>1, <3>4
  <2>3. ASSUME NEW a \in ArraysUnder(F[level - 1]), NEW s \in Slot PROVE <<a, s>> \in F[level]
    <3>1. PICK m \in F[level - 1], w \in Word : a = children[m][w] /\ a # NULL
      BY DEF ArraysUnder
    <3>2. m \in Used /\ LevelOf(m, L) = level - 1
      BY <2>1, <3>1
    <3>3. a \in nonLeafLive /\ L[a] = level - 1
      BY <2>1, <3>1, <3>2, Owned DEF Live
    <3>4. <<a, s>> \in Used /\ <<a, s>> # Root
      BY <3>3, UsedNodes DEF Used
    <3>5. LevelOf(<<a, s>>, L) = level
      BY <1>1, <1>3, <3>3, <3>4 DEF LevelOf
    <3> QED BY <3>4, <3>5
  <2> HIDE DEF F
  <2> QED BY <2>2, <2>3
<1>4. F = [level \in 0..LastLevel |-> F[level]]
  OBVIOUS
<1> HIDE DEF F
<1>5. NodeLayers(F)
  BY <1>2, <1>3, <1>4 DEF NodeLayers
<1> QED BY <1>5 DEF F

LEMMA NodesAtLevels ==
    ASSUME NEW L, NEW O, NEW T, TypeOK, ArraysOK(L, O, T), NEW level \in 0..LastLevel
    PROVE  NodesAt[level] = {n \in Used : LevelOf(n, L) = level}
<1>1. PICK F : /\ F = [l \in 0..LastLevel |-> {n \in Used : LevelOf(n, L) = l}]
               /\ NodeLayers(F)
  BY LevelsAreLayers
<1>2. NodeLayers(NodesAt)
  <2>1. NodesAt = CHOOSE f : NodeLayers(f)
    BY DEF NodesAt, NodeLayers
  <2>2. NodeLayers(CHOOSE f : NodeLayers(f))
    BY <1>1
  <2> QED BY <2>1, <2>2
<1>3. ASSUME NEW l \in 0..LastLevel
      PROVE  /\ NodesAt[l] = IF l = 0 THEN {Root} ELSE ArraysUnder(NodesAt[l - 1]) \X Slot
             /\ F[l] = IF l = 0 THEN {Root} ELSE ArraysUnder(F[l - 1]) \X Slot
  BY <1>1, <1>2 DEF NodeLayers
<1> DEFINE Bad == {l \in 0..LastLevel : NodesAt[l] # F[l]}
<1>4. Bad = {}
  <2> SUFFICES ASSUME Bad # {} PROVE FALSE
    OBVIOUS
  <2>1. LastLevel \in Nat /\ Bad \subseteq Nat
    BY Constants
  <2>2. PICK l \in Bad : \A i \in Bad : l <= i
    BY <2>1, LeastOfNaturals
  <2>3. l # 0 => l - 1 \in 0..LastLevel /\ l - 1 \notin Bad
    BY <2>1, <2>2
  <2> QED BY <1>3, <2>3
<1> QED BY <1>1, <1>4

LEMMA OwnsItsArrays ==
    ASSUME IInv PROVE TreeOwnsItsArrays
<1>1. PICK L, O, T : Inv(L, O, T)
  BY DEF IInv
<1>2. TypeOK /\ ArraysOK(L, O, T)
  BY <1>1 DEF Inv
<1>3. LastLevel \in Nat /\ NULL \notin Array
  BY Constants
<1>4. ASSUME NEW level \in 0..LastLevel
      PROVE  ArraysUnder(NodesAt[level]) = {a \in Live(level) : L[a] = level}
  <2>1. NodesAt[level] = {n \in Used : LevelOf(n, L) = level}
    BY <1>2, NodesAtLevels
  <2>2. ASSUME NEW a \in ArraysUnder(NodesAt[level]) PROVE a \in Live(level) /\ L[a] = level
    <3>1. PICK n \in Used, w \in Word : a = children[n][w] /\ LevelOf(n, L) = level /\ a # NULL
      BY <2>1 DEF ArraysUnder
    <3> QED BY <1>2, <3>1, Owned
  <2>3. ASSUME NEW a \in Live(level), L[a] = level PROVE a \in ArraysUnder(NodesAt[level])
    <3>1. a \in nonLeafLive \union leafLive /\ a # NULL
      BY <1>2, <1>3 DEF Live, TypeOK, NonLeafPool!TypeOK, LeafPool!TypeOK, Array
    <3>2. PICK n \in Used, w \in Word : children[n][w] = a /\ L[a] = LevelOf(n, L)
      BY <1>2, <3>1 DEF ArraysOK
    <3> QED BY <2>1, <2>3, <3>1, <3>2 DEF ArraysUnder
  <2> QED BY <2>2, <2>3
\* An array in use is in the pool of its level.
<1>5. ASSUME NEW a \in nonLeafLive \union leafLive
      PROVE  L[a] \in 0..LastLevel /\ a \in Live(L[a])
  <2>1. PICK n \in Used, w \in Word : children[n][w] = a /\ L[a] = LevelOf(n, L)
    BY <1>2 DEF ArraysOK
  <2>2. a # NULL
    BY <1>2, <1>3 DEF TypeOK, NonLeafPool!TypeOK, LeafPool!TypeOK, Array
  <2>3. LevelOf(n, L) \in 0..LastLevel
    BY <1>2 DEF ArraysOK
  <2>4. children[n][w] \in Live(LevelOf(n, L))
    BY <1>2, <2>1, <2>2, Owned
  <2> QED BY <2>1, <2>3, <2>4
<1>6. nonLeafLive \intersect leafLive = {}
  BY <1>2, DataAssumption DEF TypeOK, NonLeafPool!TypeOK, LeafPool!TypeOK
<1>7. leafLive = ArraysUnder(NodesAt[LastLevel])
  <2>1. \A a \in leafLive : L[a] = LastLevel
    BY <1>5, <1>6 DEF Live
  <2> QED BY <1>3, <1>4, <2>1 DEF Live
<1>8. nonLeafLive = UNION {ArraysUnder(NodesAt[l]) : l \in 0..(LastLevel - 1)}
  <2>1. ASSUME NEW a \in nonLeafLive
        PROVE  L[a] \in 0..(LastLevel - 1) /\ a \in ArraysUnder(NodesAt[L[a]])
    <3>1. L[a] # LastLevel /\ L[a] \in 0..LastLevel /\ a \in Live(L[a])
      BY <1>5, <1>6 DEF Live
    <3> QED BY <1>3, <1>4, <3>1
  <2>2. ASSUME NEW l \in 0..(LastLevel - 1) PROVE ArraysUnder(NodesAt[l]) \subseteq nonLeafLive
    <3>1. l \in 0..LastLevel /\ l # LastLevel
      BY <1>3
    <3> QED BY <1>4, <3>1 DEF Live
  <2> QED BY <2>1, <2>2
<1>9. ASSUME NEW n \in Used, NEW m \in Used, NEW v \in Word, NEW w \in Word,
             children[n][v] = children[m][w], children[n][v] # NULL
      PROVE  n = m /\ v = w
  <2>1. O[children[n][v]] = <<n, v>>
    BY <1>2, <1>9 DEF ArraysOK
  <2>2. O[children[m][w]] = <<m, w>>
    BY <1>2, <1>9 DEF ArraysOK
  <2> QED BY <1>9, <2>1, <2>2
<1> QED BY <1>7, <1>8, <1>9 DEF TreeOwnsItsArrays, Used

\* The pools' arrays in use are those the tree reaches, each by one pointer:
\* neither treeRemove nor an insert that fails half-way loses an array, keeps a
\* pointer to a freed one or hangs one in twice.
THEOREM ArraysOwned == Spec => []TreeOwnsItsArrays
  BY OwnsItsArrays, Invariance, PTL

-----------------------------------------------------------------------------
(* Keys that the tree tells apart: log2Max - log2Align bits, in whole levels. *)

KeysFit == \A k \in Key : k < Fanout ^ NumLevels

\* What the first d parts of a key make as a number.
Prefix(k, d) == k \div (Fanout ^ (NumLevels - d))

LEMMA PrefixStep ==
    ASSUME KeysFit, NEW k \in Key
    PROVE  /\ Prefix(k, 0) = 0 /\ Prefix(k, NumLevels) = k
           /\ \A d \in 0..LastLevel :
                 Prefix(k, d + 1) = Fanout * Prefix(k, d) + KeyLevelBits(k, d)
<1>1. /\ k \in Nat /\ NumLevels \in Nat /\ LastLevel \in Nat /\ LastLevel + 1 = NumLevels
      /\ Fanout \in Nat /\ Fanout > 0
  BY Constants, DataAssumption
<1>2. Prefix(k, 0) = 0
  <2>1. PICK u \in Nat : u = Fanout ^ NumLevels /\ u > 0 /\ k < u
    <3>1. NumLevels \in 0..NumLevels
      BY <1>1
    <3> QED BY <3>1, PowerAssumption DEF KeysFit
  <2>2. k \div u \in Nat /\ u * (k \div u) <= k /\ k < u * (k \div u) + u
    BY <1>1, <2>1, Quotient
  <2>3. u * 0 <= k /\ k < u * 0 + u
    BY <1>1, <2>1
  <2>4. k \div u = 0
    BY <1>1, <2>1, <2>2, <2>3, QuotientUnique
  <2>5. NumLevels - 0 = NumLevels
    BY <1>1
  <2> QED BY <2>1, <2>4, <2>5 DEF Prefix
<1>3. Prefix(k, NumLevels) = k
  <2>1. NumLevels - NumLevels = 0 /\ k \div 1 = k
    BY <1>1
  <2> QED BY <2>1, PowerAssumption DEF Prefix
<1>4. ASSUME NEW d \in 0..LastLevel
      PROVE  Prefix(k, d + 1) = Fanout * Prefix(k, d) + KeyLevelBits(k, d)
  <2>1. PICK i \in 0..NumLevels :
            i = LastLevel - d /\ i = NumLevels - (d + 1) /\ i + 1 = NumLevels - d
    BY <1>1
  <2>2. PICK u \in Nat : u = Fanout ^ i /\ u > 0 /\ Fanout ^ (i + 1) = Fanout * u
    BY PowerAssumption
  <2>3. k \div u = Fanout * (k \div (Fanout * u)) + ((k \div u) % Fanout)
    <3>1. k \in Nat /\ Fanout \in Nat /\ Fanout > 0
      BY <1>1
    <3> QED BY ONLY <2>2, <3>1, QuotientOfProduct, ZenonT(40)
  <2>4. Prefix(k, d + 1) = k \div u
    BY <2>1, <2>2 DEF Prefix
  <2>5. Prefix(k, d) = k \div (Fanout * u)
    BY <2>1, <2>2 DEF Prefix
  <2>6. KeyLevelBits(k, d) = (k \div u) % Fanout
    BY <2>1, <2>2 DEF KeyLevelBits
  <2> QED BY <2>3, <2>4, <2>5, <2>6
<1> QED BY <1>2, <1>3, <1>4

LEMMA PrefixSame ==
    ASSUME KeysFit, NEW j \in Key, NEW k \in Key, NEW d \in 0..NumLevels,
           \A l \in 0..LastLevel : l < d => KeyLevelBits(j, l) = KeyLevelBits(k, l)
    PROVE  Prefix(j, d) = Prefix(k, d)
<1>1. NumLevels \in Nat /\ LastLevel \in Nat /\ LastLevel + 1 = NumLevels
  BY Constants
<1> DEFINE Bad == {e \in 0..d : Prefix(j, e) # Prefix(k, e)}
<1> SUFFICES ASSUME Bad # {} PROVE FALSE
  BY <1>1
<1>2. PICK e \in Bad : \A f \in Bad : e <= f
  <2>1. Bad \subseteq Nat
    BY <1>1
  <2> QED BY <2>1, LeastOfNaturals
<1>3. e \in 0..d /\ Prefix(j, e) # Prefix(k, e)
  OBVIOUS
<1>4. e # 0
  BY <1>3, PrefixStep
<1>5. PICK l \in 0..LastLevel : e = l + 1 /\ l \in 0..d /\ l < d
  <2>1. e - 1 \in 0..LastLevel /\ e = (e - 1) + 1 /\ e - 1 \in 0..d /\ e - 1 < d
    BY <1>1, <1>3, <1>4
  <2> QED BY <2>1
<1>6. Prefix(j, l) = Prefix(k, l)
  <2>1. ~(e <= l)
    BY <1>5
  <2>2. l \notin Bad
    <3> HIDE DEF Bad
    <3> QED BY <1>2, <2>1
  <2> QED BY <1>5, <2>2
<1> QED BY <1>3, <1>5, <1>6, PrefixStep

\* Two keys with the same part at every level are one key.
LEMMA KeysApart ==
    ASSUME KeysFit, NEW j \in Key, NEW k \in Key,
           \A level \in 0..LastLevel : KeyLevelBits(j, level) = KeyLevelBits(k, level)
    PROVE  j = k
<1>1. NumLevels \in 0..NumLevels
  BY Constants
<1>2. Prefix(j, NumLevels) = Prefix(k, NumLevels)
  BY <1>1, PrefixSame
<1> QED BY <1>2, PrefixStep

\* Keys that lead to one node have the same parts above it.
LEMMA SameAbove ==
    ASSUME NEW L, NEW O, NEW T, TypeOK, ArraysOK(L, O, T),
           NEW n \in Used, NEW j \in KeysOf(n, L, T), NEW k \in KeysOf(n, L, T),
           NEW level \in Nat, level < LevelOf(n, L)
    PROVE  KeyLevelBits(j, level) = KeyLevelBits(k, level)
<1> DEFINE Bad == {d \in Nat : \E m \in Used :
                     /\ LevelOf(m, L) = d /\ level < d
                     /\ {j, k} \subseteq KeysOf(m, L, T)}
<1>1. KeyLevelBits(j, level) # KeyLevelBits(k, level) => Bad = {}
  <2> SUFFICES ASSUME KeyLevelBits(j, level) # KeyLevelBits(k, level), Bad # {} PROVE FALSE
    OBVIOUS
  <2>1. PICK d \in Bad : \A e \in Bad : d <= e
    BY LeastOfNaturals
  <2>2. PICK m \in Used : LevelOf(m, L) = d /\ level < d /\ {j, k} \subseteq KeysOf(m, L, T)
    OBVIOUS
  <2>3. m # Root
    BY <2>2 DEF LevelOf
  <2>4. PICK p \in Used, w \in Word :
            /\ LevelOf(m, L) = LevelOf(p, L) + 1 /\ LevelOf(p, L) \in 0..LastLevel
            /\ \A x \in KeysOf(m, L, T) :
                  LET e == KeyLevelBits(x, LevelOf(p, L))
                  IN  /\ x \in KeysOf(p, L, T) /\ e \in Child
                      /\ WordOf(e) = w /\ SlotOf(e) = m[2]
    BY <2>3, Above
  <2>5. KeyLevelBits(j, LevelOf(p, L)) = KeyLevelBits(k, LevelOf(p, L))
    <3>1. PICK e \in Child : e = KeyLevelBits(j, LevelOf(p, L)) /\ WordOf(e) = w /\ SlotOf(e) = m[2]
      BY <2>2, <2>4
    <3>2. PICK f \in Child : f = KeyLevelBits(k, LevelOf(p, L)) /\ WordOf(f) = w /\ SlotOf(f) = m[2]
      BY <2>2, <2>4
    <3>3. e = WordBits * WordOf(e) + SlotOf(e) /\ f = WordBits * WordOf(f) + SlotOf(f)
      BY WordAndSlot
    <3> QED BY <3>1, <3>2, <3>3
  <2>6. LevelOf(p, L) \in Nat /\ LevelOf(p, L) < d /\ LevelOf(p, L) # level
    BY <2>2, <2>4, <2>5
  <2>7. level < LevelOf(p, L)
    BY <2>2, <2>4, <2>6
  <2>8. LevelOf(p, L) \in Bad
    BY <2>2, <2>4, <2>6, <2>7
  <2> QED BY <2>1, <2>6, <2>8
<1>2. LevelOf(n, L) \in Bad
  <2>1. LevelOf(n, L) \in 0..LastLevel
    BY DEF ArraysOK
  <2> QED BY <2>1
<1> QED BY <1>1, <1>2

\* In a leaf node the keys have places of their own.
LEMMA OwnPlace ==
    ASSUME KeysFit, NEW L, NEW O, NEW T, TypeOK, ArraysOK(L, O, T),
           NEW n \in Used, LevelOf(n, L) = LastLevel,
           NEW j \in KeysOf(n, L, T), NEW k \in KeysOf(n, L, T), j # k
    PROVE  KeyLevelBits(j, LastLevel) # KeyLevelBits(k, LastLevel)
<1> SUFFICES ASSUME KeyLevelBits(j, LastLevel) = KeyLevelBits(k, LastLevel) PROVE FALSE
  OBVIOUS
<1>1. j \in Key /\ k \in Key
  BY UsedNodes
<1>2. ASSUME NEW level \in 0..LastLevel PROVE KeyLevelBits(j, level) = KeyLevelBits(k, level)
  <2>1. level \in Nat /\ (level = LastLevel \/ level < LastLevel)
    BY Constants
  <2> QED BY <2>1, SameAbove
<1> QED BY <1>1, <1>2, KeysApart

-----------------------------------------------------------------------------
(* What a search finds.                                                     *)

\* Above a node that a key leads to, the key has a child array.
LEMMA ArrayAbove ==
    ASSUME NEW L, NEW O, NEW T, TypeOK, ArraysOK(L, O, T),
           NEW n \in Used, NEW m \in Used, LevelOf(m, L) < LevelOf(n, L),
           NEW k, k \in KeysOf(n, L, T), k \in KeysOf(m, L, T)
    PROVE  children[m][WordOf(KeyLevelBits(k, LevelOf(m, L)))] # NULL
<1> DEFINE Below2 == {d \in Nat : \E p \in Used :
                        LevelOf(p, L) = d /\ LevelOf(m, L) < d /\ k \in KeysOf(p, L, T)}
<1>1. \A p \in Used : LevelOf(p, L) \in Nat
  <2>1. \A p \in Used : LevelOf(p, L) \in 0..LastLevel
    BY DEF ArraysOK
  <2> QED BY <2>1
<1>2. LevelOf(n, L) \in Below2
  BY <1>1
<1>3. PICK d \in Below2 : \A e \in Below2 : d <= e
  BY <1>2, LeastOfNaturals
<1>4. PICK p \in Used : LevelOf(p, L) = d /\ LevelOf(m, L) < d /\ k \in KeysOf(p, L, T)
  OBVIOUS
<1>5. p # Root
  BY <1>1, <1>4 DEF LevelOf
<1>6. PICK q \in Used, w \in Word :
          /\ children[q][w] = p[1] /\ p[1] # NULL
          /\ LevelOf(p, L) = LevelOf(q, L) + 1
          /\ k \in KeysOf(q, L, T) /\ WordOf(KeyLevelBits(k, LevelOf(q, L))) = w
  BY <1>4, <1>5, Above
<1>7. LevelOf(q, L) \notin Below2
  BY <1>1, <1>3, <1>4, <1>6
<1>8. LevelOf(q, L) = LevelOf(m, L)
  BY <1>1, <1>4, <1>6, <1>7
<1>9. q = m
  BY <1>6, <1>8 DEF ArraysOK
<1> QED BY <1>6, <1>9

\* The nodes[] of a search: a function over the levels.
Steps(k, nodes) ==
    nodes = [level \in 0..LastLevel |->
        IF level = 0 THEN Root
        ELSE LET n == nodes[level - 1]
                 c == KeyLevelBits(k, level - 1)
             IN  IF n # NULL /\ HasChild(n, c) THEN ChildNode(n, c) ELSE NULL]

LEMMA NodesForSteps ==
    ASSUME NEW k PROVE Steps(k, NodesFor(k))
<1> DEFINE Go(level, n) == IF n # NULL /\ HasChild(n, KeyLevelBits(k, level))
                           THEN ChildNode(n, KeyLevelBits(k, level)) ELSE NULL
           Sol(d, f) == f = [level \in 0..d |-> IF level = 0 THEN Root ELSE Go(level - 1, f[level - 1])]
           Bad == {d \in Nat : \A f : ~Sol(d, f)}
<1> HIDE DEF Go
<1>1. Bad = {}
  <2> SUFFICES ASSUME Bad # {} PROVE FALSE
    OBVIOUS
  <2>1. PICK d \in Bad : \A e \in Bad : d <= e
    BY LeastOfNaturals
  <2>2. d # 0
    <3>1. Sol(0, [level \in 0..0 |-> Root])
      OBVIOUS
    <3> QED BY <2>1, <3>1
  <2>3. d - 1 \in Nat /\ d - 1 \notin Bad
    <3>1. d \in Nat /\ d - 1 \in Nat /\ ~(d <= d - 1)
      BY <2>2
    <3> HIDE DEF Bad
    <3> QED BY <2>1, <3>1
  <2>4. PICK f : Sol(d - 1, f)
    BY <2>3
  <2>5. PICK g : g = [level \in 0..d |-> IF level = d THEN Go(d - 1, f[d - 1]) ELSE f[level]]
    OBVIOUS
  <2>6. ASSUME NEW level \in 0..d
        PROVE  g[level] = IF level = 0 THEN Root ELSE Go(level - 1, g[level - 1])
    <3>1. CASE level = d
      <4>1. d - 1 \in 0..d /\ d - 1 # d
        BY <2>3
      <4> QED BY <2>2, <2>5, <3>1, <4>1
    <3>2. CASE level # d
      <4>1. level \in 0..(d - 1) /\ g[level] = f[level]
        BY <2>3, <2>5, <3>2
      <4>2. level # 0 => g[level - 1] = f[level - 1]
        <5>1. level # 0 => level - 1 \in 0..d /\ level - 1 # d
          BY <2>3, <4>1
        <5> QED BY <2>5, <5>1
      <4>3. f[level] = IF level = 0 THEN Root ELSE Go(level - 1, f[level - 1])
        BY <2>4, <4>1
      <4> QED BY <4>1, <4>2, <4>3
    <3> QED BY <3>1, <3>2
  <2>7. g = [level \in 0..d |-> g[level]]
    BY <2>5
  <2>8. Sol(d, g)
    BY <2>6, <2>7
  <2> QED BY <2>1, <2>8
<1>2. PICK f : Sol(LastLevel, f)
  BY <1>1, Constants
<1> USE DEF Go
<1>3. Steps(k, f)
  BY <1>2 DEF Steps
<1>4. NodesFor(k) = CHOOSE g : Steps(k, g)
  BY DEF NodesFor, Steps
<1>5. Steps(k, CHOOSE g : Steps(k, g))
  BY <1>3
<1> QED BY <1>4, <1>5

\* One step of a search.
LEMMA SearchStep ==
    ASSUME NEW k, NEW level \in 0..LastLevel
    PROVE  /\ level = 0 => NodesFor(k)[level] = Root
           /\ level # 0 =>
                 LET n == NodesFor(k)[level - 1]
                     c == KeyLevelBits(k, level - 1)
                 IN  NodesFor(k)[level] = IF n # NULL /\ HasChild(n, c) THEN ChildNode(n, c) ELSE NULL
  BY NodesForSteps DEF Steps

\* A search comes only to nodes that its key leads to.
LEMMA SearchKeeps ==
    ASSUME NEW L, NEW O, NEW T, TypeOK, ArraysOK(L, O, T), NEW k \in Key,
           NEW level \in 0..LastLevel, NodesFor(k)[level] # NULL
    PROVE  /\ NodesFor(k)[level] \in Used
           /\ LevelOf(NodesFor(k)[level], L) = level
           /\ k \in KeysOf(NodesFor(k)[level], L, T)
<1> DEFINE At(l) == NodesFor(k)[l]
           Good(l) == At(l) # NULL => /\ At(l) \in Used /\ LevelOf(At(l), L) = l
                                      /\ k \in KeysOf(At(l), L, T)
           Bad == {l \in 0..LastLevel : ~Good(l)}
<1>1. LastLevel \in Nat /\ Bad \subseteq Nat
  BY Constants
<1>2. Bad = {}
  <2> SUFFICES ASSUME Bad # {} PROVE FALSE
    OBVIOUS
  <2>1. PICK l \in Bad : \A e \in Bad : l <= e
    BY <1>1, LeastOfNaturals
  <2>2. l \in 0..LastLevel /\ ~Good(l)
    OBVIOUS
  <2>3. l # 0
    <3>1. At(0) = Root
      BY <1>1, SearchStep
    <3>2. Root \in Used /\ LevelOf(Root, L) = 0 /\ KeysOf(Root, L, T) = Key
      BY DEF Used, LevelOf, KeysOf
    <3> QED BY <2>2, <3>1, <3>2
  <2>4. PICK u \in 0..LastLevel : u = l - 1 /\ u # LastLevel /\ l = u + 1
    BY <1>1, <2>2, <2>3
  <2>5. Good(u)
    <3>1. ~(l <= u)
      BY <2>4
    <3> HIDE DEF Good
    <3> QED BY <2>1, <2>4, <3>1
  <2>6. PICK c : c = KeyLevelBits(k, u)
    OBVIOUS
  <2>7. At(l) = IF At(u) # NULL /\ HasChild(At(u), c) THEN ChildNode(At(u), c) ELSE NULL
    BY <2>2, <2>3, <2>4, <2>6, SearchStep
  <2>8. At(u) # NULL /\ HasChild(At(u), c) /\ At(l) = ChildNode(At(u), c)
    BY <2>2, <2>7
  <2>9. PICK m : m = At(u) /\ m \in Used /\ LevelOf(m, L) = u /\ k \in KeysOf(m, L, T)
    BY <2>5, <2>8
  <2>10. /\ ChildNode(m, c) \in Used /\ LevelOf(ChildNode(m, c), L) = u + 1
         /\ k \in KeysOf(ChildNode(m, c), L, T)
    <3>1. children[m][WordOf(c)] # NULL
      BY <2>8, <2>9 DEF HasChild
    <3> QED BY <2>4, <2>6, <2>9, <3>1, Below
  <2> QED BY <2>2, <2>4, <2>8, <2>9, <2>10
<1>3. Good(level)
  BY <1>2
<1> QED BY <1>3

\* A search comes to every node that its key leads to and that has a bit.
LEMMA SearchComes ==
    ASSUME NEW L, NEW O, NEW T, TypeOK, ArraysOK(L, O, T), BitsOK(L, T),
           NEW n \in Used, NEW k \in KeysOf(n, L, T), bits[n] # {}
    PROVE  NodesFor(k)[LevelOf(n, L)] = n
<1> DEFINE Missed(m) == /\ k \in KeysOf(m, L, T) /\ bits[m] # {}
                        /\ NodesFor(k)[LevelOf(m, L)] # m
           Bad == {d \in 0..LastLevel : \E m \in Used : LevelOf(m, L) = d /\ Missed(m)}
<1>1. LastLevel \in Nat /\ Bad \subseteq Nat /\ k \in Key
  BY Constants, UsedNodes
<1>2. Bad = {}
  <2> SUFFICES ASSUME Bad # {} PROVE FALSE
    OBVIOUS
  <2>1. PICK d \in Bad : \A e \in Bad : d <= e
    BY <1>1, LeastOfNaturals
  <2>2. PICK m \in Used : LevelOf(m, L) = d /\ Missed(m)
    OBVIOUS
  <2>3. d \in 0..LastLevel
    OBVIOUS
  <2>4. m # Root
    <3>1. m = Root => d = 0 /\ NodesFor(k)[0] = Root
      BY <1>1, <2>2, SearchStep DEF LevelOf
    <3> QED BY <2>2, <3>1
  <2>5. PICK p \in Used, w \in Word :
            /\ children[p][w] = m[1] /\ m[1] # NULL
            /\ d = LevelOf(p, L) + 1 /\ LevelOf(p, L) \in 0..LastLevel
            /\ LevelOf(p, L) # LastLevel
            /\ LET c == KeyLevelBits(k, LevelOf(p, L))
               IN  /\ k \in KeysOf(p, L, T) /\ c \in Child
                   /\ WordOf(c) = w /\ m = ChildNode(p, c)
    BY <2>2, <2>4, Above
  <2>6. PICK c \in Child : c = KeyLevelBits(k, LevelOf(p, L)) /\ WordOf(c) = w /\ m = ChildNode(p, c)
    BY <2>5
  <2>7. c \in bits[p]
    <3>1. ~Hollow(LevelOf(p, L), p, c)
      BY <2>2, <2>5, <2>6 DEF Hollow
    <3> QED BY <2>5, <2>6, <3>1 DEF BitsOK
  <2>8. NodesFor(k)[LevelOf(p, L)] = p
    <3>1. ~Missed(p)
      <4>1. LevelOf(p, L) \notin Bad
        <5>1. ~(d <= LevelOf(p, L))
          BY <1>1, <2>5
        <5> HIDE DEF Bad
        <5> QED BY <2>1, <5>1
      <4> QED BY <2>5, <4>1
    <3> QED BY <2>5, <2>7, <3>1
  <2>9. HasChild(p, c) /\ p # NULL
    <3>1. p \in Node
      BY UsedNodes
    <3> QED BY <2>5, <2>6, <2>7, <3>1, Constants DEF HasChild
  <2>10. NodesFor(k)[d] = ChildNode(p, c)
    <3>1. d # 0 /\ d - 1 = LevelOf(p, L)
      BY <1>1, <2>3, <2>5
    <3> QED BY <2>3, <2>6, <2>8, <2>9, <3>1, SearchStep
  <2> QED BY <2>2, <2>6, <2>10
<1>3. LevelOf(n, L) \in 0..LastLevel
  BY DEF ArraysOK
<1> QED BY <1>2, <1>3

\* What is in the key's place in a leaf node, 0 if its word has no array.
Place(k, n) ==
    LET c == KeyLevelBits(k, LastLevel)
    IN  IF children[n][WordOf(c)] # NULL THEN ValueAt(n, c) ELSE 0

\* treeFind returns what is in the place in the leaf node that the key leads to,
\* and 0 if there is no such node.
IsLeafOf(k, n, L, T) == LevelOf(n, L) = LastLevel /\ k \in KeysOf(n, L, T)

FindSpec(L, T) ==
    \A k \in Key :
        /\ \A n \in Used : IsLeafOf(k, n, L, T) => treeFind(k) = Place(k, n)
        /\ (\A n \in Used : ~IsLeafOf(k, n, L, T)) => treeFind(k) = 0

FindsAsSpecified == \A L, O, T : Inv(L, O, T) => FindSpec(L, T)

LEMMA Finds == FindsAsSpecified
<1> SUFFICES ASSUME NEW L, NEW O, NEW T, Inv(L, O, T), NEW k \in Key
             PROVE  /\ \A n \in Used : IsLeafOf(k, n, L, T) => treeFind(k) = Place(k, n)
                    /\ (\A n \in Used : ~IsLeafOf(k, n, L, T)) => treeFind(k) = 0
  BY DEF FindsAsSpecified, FindSpec
<1>1. TypeOK /\ ArraysOK(L, O, T) /\ BitsOK(L, T)
  BY DEF Inv
<1>2. PICK c \in Child : c = KeyLevelBits(k, LastLevel)
  BY Constants, KeyPart
<1>3. PICK m : m = NodesFor(k)[LastLevel]
  OBVIOUS
<1>4. treeFind(k) = IF numLevels # 0 /\ m # NULL /\ HasChild(m, c) THEN ValueAt(m, c) ELSE 0
  BY <1>2, <1>3 DEF treeFind
<1>5. m # NULL => m \in Used /\ LevelOf(m, L) = LastLevel /\ k \in KeysOf(m, L, T)
  <2>1. LastLevel \in 0..LastLevel
    BY Constants
  <2> QED BY <1>1, <1>3, <2>1, SearchKeeps
<1>6. ASSUME NEW n \in Used, LevelOf(n, L) = LastLevel, k \in KeysOf(n, L, T)
      PROVE  treeFind(k) = IF children[n][WordOf(c)] # NULL THEN ValueAt(n, c) ELSE 0
  <2>1. m # NULL => m = n
    BY <1>1, <1>5, <1>6 DEF ArraysOK
  <2>2. CASE children[n][WordOf(c)] = NULL
    BY <1>4, <2>1, <2>2 DEF HasChild
  <2>3. CASE children[n][WordOf(c)] # NULL /\ ValueAt(n, c) = 0
    BY <1>4, <2>1, <2>3
  <2>4. CASE children[n][WordOf(c)] # NULL /\ ValueAt(n, c) # 0
    <3>1. c \in bits[n]
      <4>1. ~Hollow(LevelOf(n, L), n, c)
        BY <1>6, <2>4 DEF Hollow
      <4> QED BY <1>1, <2>4, <4>1 DEF BitsOK
    <3>2. m = n
      BY <1>1, <1>3, <1>6, <3>1, SearchComes
    <3>3. n \in Node /\ WordOf(c) \in Word
      BY <1>1, UsedNodes, WordAndSlot
    <3>4. numLevels # 0
      <4>1. numLevels = 0 => children[n] = EmptyChildren
        BY <3>3 DEF Inv, Zeroed
      <4> QED BY <2>4, <3>3, <4>1 DEF EmptyChildren
    <3> QED BY <1>4, <2>4, <3>1, <3>2, <3>3, <3>4, Constants DEF HasChild
  <2> QED BY <2>2, <2>3, <2>4
<1> QED BY <1>2, <1>4, <1>5, <1>6 DEF Place, IsLeafOf

\* A step that leaves what is in the key's place leaves what treeFind returns.
LEMMA FindKept ==
    ASSUME NEW L, NEW O, NEW T, Inv(L, O, T), NEW L2, NEW O2, NEW T2, Inv(L2, O2, T2)',
           NEW k \in Key,
           \A n \in Used : n \in Used' =>
              LevelOf(n, L2) = LevelOf(n, L) /\ KeysOf(n, L2, T2) = KeysOf(n, L, T),
           \A n \in Used : IsLeafOf(k, n, L, T) =>
              IF n \in Used' THEN Place(k, n)' = Place(k, n) ELSE Place(k, n) = 0,
           \A n \in Used' : n \notin Used /\ IsLeafOf(k, n, L2, T2) => Place(k, n)' = 0
    PROVE  treeFind(k)' = treeFind(k)
<1>1. FindSpec(L, T)
  BY Finds DEF FindsAsSpecified
<1>2. FindSpec(L2, T2)'
  <2>1. FindsAsSpecified'
    BY Finds, PTL
  <2> QED BY <2>1 DEF FindsAsSpecified
<1>3. \A n \in Used : n \in Used' => (IsLeafOf(k, n, L2, T2) <=> IsLeafOf(k, n, L, T))
  BY DEF IsLeafOf
<1>4. \A n \in Used' : IsLeafOf(k, n, L2, T2) => treeFind(k)' = Place(k, n)'
  BY <1>2 DEF FindSpec
<1>5. (\A n \in Used' : ~IsLeafOf(k, n, L2, T2)) => treeFind(k)' = 0
  BY <1>2 DEF FindSpec
<1>6. \A n, m \in Used' : IsLeafOf(k, n, L2, T2) /\ IsLeafOf(k, m, L2, T2) => n = m
  BY DEF IsLeafOf, Inv, ArraysOK
<1>7. \A n \in Used : IsLeafOf(k, n, L, T) => treeFind(k) = Place(k, n)
  BY <1>1 DEF FindSpec
<1>8. (\A n \in Used : ~IsLeafOf(k, n, L, T)) => treeFind(k) = 0
  BY <1>1 DEF FindSpec
<1>9. CASE \E n \in Used' : n \in Used /\ IsLeafOf(k, n, L2, T2)
  BY <1>3, <1>4, <1>7, <1>9
<1>10. CASE \E n \in Used' : n \notin Used /\ IsLeafOf(k, n, L2, T2)
  <2>1. PICK n \in Used' : n \notin Used /\ IsLeafOf(k, n, L2, T2)
    BY <1>10
  <2>2. treeFind(k)' = 0
    BY <1>4, <2>1
  <2>3. \A m \in Used : IsLeafOf(k, m, L, T) => m \notin Used'
    BY <1>3, <1>6, <2>1
  <2> QED BY <1>7, <1>8, <2>2, <2>3
<1>11. CASE \A n \in Used' : ~IsLeafOf(k, n, L2, T2)
  BY <1>3, <1>5, <1>7, <1>8, <1>11
<1> QED BY <1>9, <1>10, <1>11

\* The slot of the key at hand changes, in the array a of its word.
ChangesSlot(a) ==
    /\ ChildArray = a \/ (ChildArray = NULL /\ a \notin leafLive)
    /\ children' = [children EXCEPT ![Here][WordOf(KeyBits)] = a]
    /\ \A b \in LeafArray, t \in Slot : b # a \/ t # SlotOf(KeyBits) => leaf'[b][t] = leaf[b][t]

\* The places of the other keys keep what is in them.
LEMMA OthersPlace ==
    ASSUME KeysFit, NEW L, NEW O, NEW T, Inv(L, O, T), Running, Level = LastLevel,
           NEW a \in LeafArray, ChangesSlot(a),
           NEW n \in Used, NEW j \in Key, IsLeafOf(j, n, L, T), j # call.key
    PROVE  Place(j, n)' = Place(j, n)
<1> USE DEF ChangesSlot
<1>1. /\ Here \in Used /\ Here \in Node /\ LevelOf(Here, L) = LastLevel
      /\ call.key \in KeysOf(Here, L, T)
      /\ KeyBits \in Child /\ KeyBits = KeyLevelBits(call.key, LastLevel)
      /\ WordOf(KeyBits) \in Word /\ SlotOf(KeyBits) \in Slot
      /\ ChildArray = children[Here][WordOf(KeyBits)]
  BY AtHand DEF ChildArray
<1>2. TypeOK /\ ArraysOK(L, O, T) /\ FreeArraysAreClean
  BY DEF Inv
<1>3. a # NULL /\ a \in Array
  BY Constants DEF Array
<1>4. PICK d \in Child : d = KeyLevelBits(j, LastLevel)
  BY Constants, KeyPart
<1>5. WordOf(d) \in Word /\ SlotOf(d) \in Slot /\ n \in Node
  BY <1>2, WordAndSlot, UsedNodes
<1>6. children \in [Node -> [Word -> Array \union {NULL}]]
  BY <1>2 DEF TypeOK, Array
<1>7. CASE n = Here /\ WordOf(d) = WordOf(KeyBits)
  <2>1. SlotOf(d) # SlotOf(KeyBits)
    <3>1. d # KeyBits
      <4>1. j \in KeysOf(Here, L, T)
        BY <1>7 DEF IsLeafOf
      <4> QED BY <1>1, <1>2, <1>4, <4>1, OwnPlace
    <3>2. d = WordBits * WordOf(d) + SlotOf(d) /\ KeyBits = WordBits * WordOf(KeyBits) + SlotOf(KeyBits)
      BY <1>1, WordAndSlot
    <3> QED BY <1>7, <3>1, <3>2
  <2>2. children'[n][WordOf(d)] = a
    BY <1>1, <1>6, <1>7
  <2>3. Place(j, n)' = leaf[a][SlotOf(d)]
    BY <1>3, <1>4, <1>5, <2>1, <2>2 DEF Place, ValueAt
  <2>4. CASE ChildArray = a
    BY <1>1, <1>3, <1>4, <1>7, <2>3, <2>4 DEF Place, ValueAt
  <2>5. CASE ChildArray = NULL /\ a \notin leafLive
    <3>1. leaf[a][SlotOf(d)] = 0
      BY <1>2, <1>5, <2>5 DEF FreeArraysAreClean
    <3> QED BY <1>1, <1>4, <1>7, <2>3, <2>5, <3>1 DEF Place
  <2> QED BY <2>4, <2>5
<1>8. CASE ~(n = Here /\ WordOf(d) = WordOf(KeyBits))
  <2>1. children'[n][WordOf(d)] = children[n][WordOf(d)]
    BY <1>1, <1>5, <1>6, <1>8
  <2>2. PICK b : b = children[n][WordOf(d)]
    OBVIOUS
  <2>3. CASE b = NULL
    BY <1>4, <2>1, <2>2, <2>3 DEF Place
  <2>4. CASE b # NULL
    <3>1. b \in leafLive /\ b \in LeafArray
      <4>1. b \in Live(LevelOf(n, L))
        BY <1>2, <1>5, <2>2, <2>4, Owned
      <4> QED BY <1>2, <4>1 DEF Live, IsLeafOf, TypeOK, LeafPool!TypeOK
    <3>2. b # a
      <4> SUFFICES ASSUME b = a PROVE FALSE
        OBVIOUS
      <4>1. children[Here][WordOf(KeyBits)] # NULL
        BY <1>1, <1>3, <3>1
      <4>2. children[Here][WordOf(KeyBits)] = children[n][WordOf(d)]
        BY <1>1, <2>2, <3>1
      <4>3. O[children[Here][WordOf(KeyBits)]] = <<Here, WordOf(KeyBits)>>
        BY <1>1, <1>2, <4>1, ZenonT(40) DEF ArraysOK
      <4>4. O[children[n][WordOf(d)]] = <<n, WordOf(d)>>
        BY <1>2, <1>5, <4>1, <4>2, Z3 DEF ArraysOK
      <4>5. <<Here, WordOf(KeyBits)>> = <<n, WordOf(d)>>
        BY <4>2, <4>3, <4>4
      <4> QED BY <1>8, <4>5
    <3>3. leaf'[b][SlotOf(d)] = leaf[b][SlotOf(d)]
      BY <1>5, <3>1, <3>2
    <3> QED BY <1>4, <2>1, <2>2, <3>3 DEF Place, ValueAt
  <2> QED BY <2>3, <2>4
<1> QED BY <1>7, <1>8

-----------------------------------------------------------------------------
(* The tree is a map.                                                       *)

Dict == [k \in Key |-> treeFind(k)]

\* The steps of an insert: the last one stores, where there was nothing.
LEMMA InsertImplements ==
    ASSUME KeysFit, NEW L, NEW O, NEW T, Inv(L, O, T), NEW a \in Array, InsertLevel(a)
    PROVE  Map!Insert \/ UNCHANGED <<Dict, call, answer>>
<1>0. PICK k, h, c, s : k = call.key /\ h = Here /\ c = KeyBits /\ s = SlotOf(c)
  OBVIOUS
<1>1. PICK L2, O2, T2 : Inv(L2, O2, T2)' /\ NodesStay(L, T, L2, T2)
  BY InsertStep
<1>2. /\ Running /\ pc = "insert"
      /\ children' = [children EXCEPT ![h][WordOf(c)] = a]
  BY <1>0 DEF InsertLevel, Running
<1>3. /\ h \in Used /\ h \in Node /\ LevelOf(h, L) = Level /\ k \in KeysOf(h, L, T)
      /\ k \in Key /\ c \in Child /\ c = KeyLevelBits(k, Level)
      /\ WordOf(c) \in Word /\ s \in Slot /\ ChildArray = children[h][WordOf(c)]
      /\ Level \in 0..LastLevel
  BY <1>0, <1>2, AtHand DEF ChildArray
<1>4. /\ IF Level = LastLevel THEN a \in leafLive' /\ a \in LeafArray
                              ELSE a \in nonLeafLive' /\ a \in NonLeafArray
      /\ ChildArray = a \/ (ChildArray = NULL /\ a \notin nonLeafLive \union leafLive)
      /\ NewNodesOf(a)
  BY InsertArray
<1>5. call \in InsertCall /\ call.op = "insert" /\ call.value \in Value /\ answer = Pending
  BY <1>2 DEF Inv, CallOK, InsertCall
<1>6. \A n \in Used : n \in Used' /\ LevelOf(n, L2) = LevelOf(n, L) /\ KeysOf(n, L2, T2) = KeysOf(n, L, T)
  BY <1>1 DEF NodesStay
<1>7. \/ /\ Level = LastLevel /\ call' = call /\ answer' = leaf[a][s]
         /\ leaf' = IF leaf[a][s] = 0 THEN [leaf EXCEPT ![a][s] = call.value] ELSE leaf
      \/ /\ Level # LastLevel /\ call' = call /\ answer' = answer /\ leaf' = leaf
  BY <1>0, <1>3 DEF InsertLevel, ReturnWith, StoreIfEmpty
<1>8. /\ children \in [Node -> [Word -> Array \union {NULL}]]
      /\ leaf \in [LeafArray -> [Slot -> Value \union {0}]]
      /\ a # NULL
  BY Constants DEF Inv, TypeOK, Array
<1>9. CASE Level # LastLevel
  <2>1. ASSUME NEW j \in Key PROVE treeFind(j)' = treeFind(j)
    <3>1. ASSUME NEW n \in Used, IsLeafOf(j, n, L, T) PROVE Place(j, n)' = Place(j, n)
      <4>1. n # h /\ n \in Node
        BY <1>3, <1>9, <3>1, UsedNodes DEF IsLeafOf, Inv
      <4>2. children'[n] = children[n] /\ leaf' = leaf
        BY <1>2, <1>7, <1>8, <1>9, <4>1
      <4> QED BY <4>2 DEF Place, ValueAt
    <3>2. ASSUME NEW n \in Used', n \notin Used, IsLeafOf(j, n, L2, T2) PROVE Place(j, n)' = 0
      <4>1. n[1] = a /\ a \notin nonLeafLive /\ n \in NonLeafArray \X Slot
        BY <1>4, <3>2 DEF NewNodesOf
      <4>2. children[n] = EmptyChildren /\ n \in Node /\ n # h
        BY <1>3, <3>2, <4>1 DEF Inv, FreeArraysAreClean, Node
      <4>3. children'[n] = EmptyChildren
        BY <1>2, <1>8, <4>2
      <4>4. WordOf(KeyLevelBits(j, LastLevel)) \in Word
        BY Constants, KeyPart, WordAndSlot
      <4> QED BY <4>3, <4>4 DEF Place, EmptyChildren
    <3> QED BY <1>1, <1>6, <3>1, <3>2, FindKept
  <2> QED BY <1>7, <1>9, <2>1 DEF Dict
<1>10. CASE Level = LastLevel
  <2>1. a \in LeafArray /\ a \notin NonLeafArray
    BY <1>4, <1>10, DataAssumption
  <2>2. Used' = Used
    <3>1. Used' \subseteq Used
      BY <1>4, <2>1 DEF NewNodesOf
    <3> QED BY <1>6, <3>1
  <2>3. ASSUME NEW j \in Key, j # k PROVE treeFind(j)' = treeFind(j)
    <3>1. ASSUME NEW n \in Used, IsLeafOf(j, n, L, T) PROVE Place(j, n)' = Place(j, n)
      <4>1. \A b \in LeafArray, t \in Slot : b # a \/ t # s => leaf'[b][t] = leaf[b][t]
        BY <1>3, <1>7, <1>8, <1>10
      <4>2. ChildArray = a \/ (ChildArray = NULL /\ a \notin leafLive)
        BY <1>4
      <4>3. ChangesSlot(a) /\ j # call.key
        BY <1>0, <1>2, <2>3, <4>1, <4>2 DEF ChangesSlot
      <4> QED BY <1>2, <1>10, <2>1, <3>1, <4>3, OthersPlace
    <3> QED BY <1>1, <1>6, <2>2, <3>1, FindKept
  <2>4. IsLeafOf(k, h, L, T) /\ IsLeafOf(k, h, L2, T2)
    BY <1>3, <1>6, <1>10 DEF IsLeafOf
  <2>5. treeFind(k) = leaf[a][s]
    <3>1. treeFind(k) = Place(k, h)
      BY <1>3, <2>4, Finds DEF FindsAsSpecified, FindSpec
    <3>2. ChildArray = NULL => leaf[a][s] = 0
      BY <1>3, <1>4, <1>8, <2>1 DEF Inv, FreeArraysAreClean
    <3> QED BY <1>3, <1>4, <1>8, <1>10, <3>1, <3>2, <1>0 DEF Place, ValueAt
  <2>6. treeFind(k)' = leaf'[a][s]
    <3>1. treeFind(k)' = Place(k, h)'
      <4>1. FindsAsSpecified'
        BY Finds, PTL
      <4>2. FindSpec(L2, T2)'
        BY <1>1, <4>1 DEF FindsAsSpecified
      <4>3. \A n \in Used' : IsLeafOf(k, n, L2, T2) => treeFind(k)' = Place(k, n)'
        BY <1>3, <4>2 DEF FindSpec
      <4> QED BY <1>3, <2>2, <2>4, <4>3
    <3>2. children'[h][WordOf(c)] = a
      BY <1>2, <1>3, <1>8
    <3>3. Place(k, h)' = leaf'[a][s]
      BY <1>3, <1>8, <1>10, <3>2, <1>0 DEF Place, ValueAt
    <3> QED BY <3>1, <3>3
  <2>7. leaf'[a][s] = IF leaf[a][s] = 0 THEN call.value ELSE leaf[a][s]
    BY <1>3, <1>7, <1>8, <1>10, <2>1
  <2>8. /\ answer' = Dict[k]
        /\ Dict' = IF Dict[k] = 0 THEN [Dict EXCEPT ![k] = call.value] ELSE Dict
        /\ call' = call
    <3>1. Dict[k] = leaf[a][s]
      BY <1>3, <2>5 DEF Dict
    <3>2. Dict' = [j \in Key |-> treeFind(j)']
      BY DEF Dict
    <3>3. \A j \in Key : treeFind(j)' = IF j = k /\ Dict[k] = 0 THEN call.value ELSE treeFind(j)
      BY <1>3, <2>3, <2>5, <2>6, <2>7, <3>1
    <3>4. CASE Dict[k] = 0
      <4>1. Dict' = [Dict EXCEPT ![k] = call.value]
        BY <1>3, <3>2, <3>3, <3>4 DEF Dict
      <4> QED BY <1>7, <1>10, <3>1, <3>4, <4>1
    <3>5. CASE Dict[k] # 0
      <4>1. Dict' = Dict
        BY <3>2, <3>3, <3>5 DEF Dict
      <4> QED BY <1>7, <1>10, <3>1, <3>5, <4>1
    <3> QED BY <3>4, <3>5
  <2>9. call # NoCall
    BY <1>5, DataAssumption DEF InsertCall
  <2> QED BY <1>0, <1>5, <2>8, <2>9 DEF Map!Insert, Map!NoValue, Dict
<1> QED BY <1>9, <1>10

\* Where the pointers of a remove end, there is no value.
LEMMA AbsentImplements ==
    ASSUME NEW L, NEW O, NEW T, Inv(L, O, T), RemoveAbsent
    PROVE  Map!Remove
<1>0. PICK k, h : k = call.key /\ h = Here
  OBVIOUS
<1>1. /\ Running /\ pc = "remove" /\ ChildArray = NULL /\ answer' = 0
      /\ UNCHANGED <<numLevels, treeVars, call>>
  BY DEF RemoveAbsent, Running
<1>2. /\ k \in Key /\ h \in Used /\ k \in KeysOf(h, L, T) /\ Level \in 0..LastLevel
      /\ LevelOf(h, L) = Level
      /\ children[h][WordOf(KeyLevelBits(k, LevelOf(h, L)))] = NULL
  BY <1>0, <1>1, AtHand DEF ChildArray
<1>3. call \in RemoveCall /\ call.op = "remove" /\ answer = Pending
  BY <1>1 DEF Inv, CallOK, RemoveCall
<1>4. FindSpec(L, T)
  BY Finds DEF FindsAsSpecified
<1>5. treeFind(k) = 0
  <2>1. ASSUME NEW n \in Used, IsLeafOf(k, n, L, T) PROVE treeFind(k) = 0
    <3>1. ~(LevelOf(h, L) < LevelOf(n, L))
      <4>1. k \in KeysOf(n, L, T) /\ TypeOK /\ ArraysOK(L, O, T)
        BY <2>1 DEF IsLeafOf, Inv
      <4> QED BY <1>2, <4>1, ArrayAbove
    <3>2. LevelOf(n, L) = LevelOf(h, L)
      BY <1>2, <2>1, <3>1, Constants DEF IsLeafOf
    <3>3. n = h
      BY <1>2, <2>1, <3>2 DEF IsLeafOf, Inv, ArraysOK
    <3>4. Place(k, n) = 0
      BY <1>2, <2>1, <3>3 DEF Place, IsLeafOf
    <3> QED BY <1>2, <1>4, <2>1, <3>4 DEF FindSpec
  <2> QED BY <1>2, <1>4, <2>1 DEF FindSpec
<1>6. Dict' = Dict /\ Dict[k] = 0 /\ Dict = [Dict EXCEPT ![k] = 0]
  <2>1. \A j \in Key : treeFind(j)' = treeFind(j)
    BY <1>1 DEF treeFind, NodesFor, HasChild, ChildNode, ValueAt, treeVars
  <2> QED BY <1>2, <1>5, <2>1 DEF Dict
<1>7. call # NoCall
  BY <1>3, DataAssumption DEF RemoveCall
<1> QED BY <1>0, <1>1, <1>3, <1>6, <1>7 DEF Map!Remove, Map!NoValue, Dict

\* At the last level a remove takes the value that is there.
LEMMA RemoveImplements ==
    ASSUME KeysFit, NEW L, NEW O, NEW T, Inv(L, O, T), RemoveValue
    PROVE  Map!Remove
<1>0. PICK k, h, c, a, s : k = call.key /\ h = Here /\ c = KeyBits /\ a = ChildArray /\ s = SlotOf(c)
  OBVIOUS
<1>1. /\ Running /\ pc = "remove" /\ Level = LastLevel /\ a # NULL /\ answer' = leaf[a][s]
      /\ leaf' = [leaf EXCEPT ![a][s] = 0]
      /\ UNCHANGED <<numLevels, bits, children, nonLeafLive, leafLive, call, path>>
  BY <1>0 DEF RemoveValue, Running
<1>2. /\ h \in Used /\ h \in Node /\ LevelOf(h, L) = LastLevel /\ k \in KeysOf(h, L, T)
      /\ k \in Key /\ c \in Child /\ c = KeyLevelBits(k, LastLevel)
      /\ WordOf(c) \in Word /\ s \in Slot /\ a = children[h][WordOf(c)]
  BY <1>0, <1>1, AtHand DEF ChildArray
<1>3. call \in RemoveCall /\ call.op = "remove" /\ answer = Pending
  BY <1>1 DEF Inv, CallOK, RemoveCall
<1>4. a \in LeafArray
  <2>1. a \in Live(LevelOf(h, L))
    BY <1>1, <1>2, Owned DEF Inv
  <2> QED BY <1>2, <2>1 DEF Live, Inv, TypeOK, LeafPool!TypeOK
<1>5. /\ children \in [Node -> [Word -> Array \union {NULL}]]
      /\ leaf \in [LeafArray -> [Slot -> Value \union {0}]]
  BY DEF Inv, TypeOK, Array
<1>6. Inv(L, O, T)' /\ Used' = Used
  BY <1>1, RemoveValueStep DEF Used
<1>7. ASSUME NEW j \in Key, j # k PROVE treeFind(j)' = treeFind(j)
  <2>1. ASSUME NEW n \in Used, IsLeafOf(j, n, L, T) PROVE Place(j, n)' = Place(j, n)
    <3>1. \A b \in LeafArray, t \in Slot : b # a \/ t # s => leaf'[b][t] = leaf[b][t]
      BY <1>1, <1>2, <1>4, <1>5
    <3>2. children' = [children EXCEPT ![h][WordOf(c)] = a]
      BY <1>1, <1>2, <1>5
    <3>3. ChangesSlot(a) /\ j # call.key
      BY <1>0, <1>7, <3>1, <3>2 DEF ChangesSlot
    <3> QED BY <1>1, <1>4, <2>1, <3>3, OthersPlace
  <2> QED BY <1>6, <2>1, FindKept
<1>8. IsLeafOf(k, h, L, T)
  BY <1>2 DEF IsLeafOf
<1>9. treeFind(k) = leaf[a][s]
  <2>1. treeFind(k) = Place(k, h)
    BY <1>2, <1>8, Finds DEF FindsAsSpecified, FindSpec
  <2> QED BY <1>0, <1>1, <1>2, <2>1 DEF Place, ValueAt
<1>10. treeFind(k)' = 0
  <2>1. FindsAsSpecified'
    BY Finds, PTL
  <2>2. FindSpec(L, T)'
    BY <1>6, <2>1 DEF FindsAsSpecified
  <2>3. \A n \in Used' : IsLeafOf(k, n, L, T) => treeFind(k)' = Place(k, n)'
    BY <1>2, <2>2 DEF FindSpec
  <2>4. treeFind(k)' = Place(k, h)'
    BY <1>2, <1>6, <1>8, <2>3
  <2>5. leaf'[a][s] = 0
    BY <1>1, <1>2, <1>4, <1>5
  <2> QED BY <1>0, <1>1, <1>2, <2>4, <2>5 DEF Place, ValueAt
<1>11. answer' = Dict[k] /\ Dict' = [Dict EXCEPT ![k] = 0]
  BY <1>1, <1>2, <1>7, <1>9, <1>10 DEF Dict
<1>12. call # NoCall
  BY <1>3, DataAssumption DEF RemoveCall
<1> QED BY <1>0, <1>1, <1>3, <1>11, <1>12 DEF Map!Remove, Map!NoValue, Dict

\* Clearing the bits on the way back takes nothing from the map.
LEMMA CleanImplements ==
    ASSUME NEW L, NEW O, NEW T, Inv(L, O, T), Clean
    PROVE  UNCHANGED <<Dict, call, answer>>
<1>0. PICK h, c, a : h = Here /\ c = KeyBits /\ a = ChildArray
  OBVIOUS
<1>1. /\ Running /\ UNCHANGED <<leaf, call, answer>>
      /\ Freed => children' = [children EXCEPT ![h][WordOf(c)] = NULL]
      /\ ~Freed => children' = children
      /\ Freed /\ Level = LastLevel => a \in leafLive /\ \A s \in Slot : leaf[a][s] = 0
      /\ Freed /\ Level # LastLevel => \A s \in Slot : children[<<a, s>>] = EmptyChildren
      /\ h \in Used' /\ Used' \subseteq Used
      /\ \A m \in Used : (Freed /\ m # Root /\ m[1] = a) \/ m \in Used'
  BY <1>0, CleanArrays
<1>2. /\ h \in Used /\ h \in Node /\ LevelOf(h, L) = Level /\ c \in Child /\ WordOf(c) \in Word
      /\ a = children[h][WordOf(c)]
  BY <1>0, <1>1, AtHand DEF ChildArray
<1>3. children \in [Node -> [Word -> Array \union {NULL}]]
  BY DEF Inv, TypeOK, Array
<1>4. Inv(L, O, T)'
  BY CleanStep
<1>5. ASSUME NEW j \in Key PROVE treeFind(j)' = treeFind(j)
  <2>1. PICK d \in Child : d = KeyLevelBits(j, LastLevel)
    BY Constants, KeyPart
  <2>2. WordOf(d) \in Word /\ SlotOf(d) \in Slot
    BY WordAndSlot
  <2>3. ASSUME NEW n \in Used, IsLeafOf(j, n, L, T), n \notin Used' PROVE Place(j, n) = 0
    <3>1. Freed /\ n # Root /\ n[1] = a
      BY <1>1, <2>3
    <3>2. n[1] \in nonLeafLive /\ n[2] \in Slot /\ n = <<n[1], n[2]>>
      BY <3>1, UsedNodes DEF Inv
    <3>3. Level # LastLevel
      BY <1>1, <3>1, <3>2, DataAssumption DEF Inv, TypeOK, NonLeafPool!TypeOK, LeafPool!TypeOK
    <3>4. children[n] = EmptyChildren
      BY <1>1, <3>1, <3>2, <3>3
    <3> QED BY <2>1, <2>2, <3>4 DEF Place, EmptyChildren
  <2>4. ASSUME NEW n \in Used, IsLeafOf(j, n, L, T) PROVE Place(j, n)' = Place(j, n)
    <3>1. n \in Node
      BY UsedNodes DEF Inv
    <3>2. CASE Freed /\ n = h /\ WordOf(d) = WordOf(c)
      <4>1. Level = LastLevel
        BY <1>2, <2>4, <3>2 DEF IsLeafOf
      <4>2. children'[n][WordOf(d)] = NULL
        BY <1>1, <1>2, <1>3, <3>2
      <4>3. children[n][WordOf(d)] = a /\ leaf[a][SlotOf(d)] = 0
        BY <1>1, <1>2, <2>2, <3>2, <4>1
      <4> QED BY <2>1, <4>2, <4>3 DEF Place, ValueAt
    <3>3. CASE ~(Freed /\ n = h /\ WordOf(d) = WordOf(c))
      <4>1. children'[n][WordOf(d)] = children[n][WordOf(d)]
        BY <1>1, <1>2, <1>3, <2>2, <3>1, <3>3
      <4> QED BY <1>1, <2>1, <4>1 DEF Place, ValueAt
    <3> QED BY <3>2, <3>3
  <2> QED BY <1>1, <1>4, <2>3, <2>4, FindKept
<1> QED BY <1>1, <1>5 DEF Dict

\* Making and destroying the tree, and the steps that only move a call on.
LEMMA MadeImplements ==
    ASSUME NEW L, NEW O, NEW T, Inv(L, O, T), treeInit
    PROVE  UNCHANGED <<Dict, call, answer>>
<1>1. Inv(L, O, T)'
  BY InitStep
<1>2. UNCHANGED <<bits, children, leaf, nonLeafLive, leafLive, call, answer>>
  BY DEF treeInit, treeVars, callVars
<1>3. Used' = Used /\ \A k, n : Place(k, n)' = Place(k, n)
  BY <1>2 DEF Used, Place, ValueAt
<1>4. \A k \in Key : treeFind(k)' = treeFind(k)
  BY <1>1, <1>3, FindKept
<1> QED BY <1>2, <1>4 DEF Dict

LEMMA ClearImplements ==
    ASSUME NEW L, NEW O, NEW T, Inv(L, O, T), treeDestroy
    PROVE  Map!Clear
<1>1. numLevels' = 0 /\ pc = "idle" /\ UNCHANGED <<call, answer>>
  BY DEF treeDestroy, callVars
<1>2. call = NoCall
  BY <1>1 DEF Inv, CallOK
<1>3. \A k \in Key : treeFind(k)' = 0
  BY <1>1 DEF treeFind
<1>4. Dict' = [k \in Key |-> 0]
  BY <1>3 DEF Dict
<1> QED BY <1>1, <1>2, <1>4 DEF Map!Clear, Map!NoValue, Dict

LEMMA DictKept ==
    ASSUME UNCHANGED <<numLevels, treeVars>> PROVE Dict' = Dict
<1>1. \A k \in Key : treeFind(k)' = treeFind(k)
  BY DEF treeFind, NodesFor, HasChild, ChildNode, ValueAt, treeVars
<1> QED BY <1>1 DEF Dict

LEMMA BeginImplements ==
    ASSUME NEW L, NEW O, NEW T, Inv(L, O, T), NEW c \in InsertCall \union RemoveCall,
           NEW start, Begin(c, start)
    PROVE  \E d \in Map!Call : Map!Begin(d)
<1>1. call = NoCall /\ call' = c /\ UNCHANGED <<numLevels, treeVars, answer>>
  BY DEF Inv, CallOK, Begin
<1>2. Dict' = Dict
  BY <1>1, DictKept
<1>3. c \in Map!Call
  BY DEF Map!Call, InsertCall, RemoveCall
<1> QED BY <1>1, <1>2, <1>3 DEF Map!Begin, Dict

\* A step that changes neither the tree nor the call, and so not the map.
LEMMA CallImplements ==
    ASSUME NEW L, NEW O, NEW T, Inv(L, O, T),
           InsertFails \/ RemoveDescend \/ CleanDone \/ Return
    PROVE  Map!InsertFails \/ Map!Return \/ UNCHANGED <<Dict, call, answer>>
<1>1. Dict' = Dict
  BY DictKept DEF InsertFails, RemoveDescend, CleanDone, Return
<1>2. CASE InsertFails
  <2>1. call \in InsertCall /\ answer = Pending /\ answer' = Failed /\ call' = call
    BY <1>2 DEF Inv, CallOK, InsertFails, ReturnWith
  <2>2. call # NoCall /\ call.op = "insert"
    BY <2>1, DataAssumption DEF InsertCall
  <2> QED BY <1>1, <2>1, <2>2 DEF Map!InsertFails, Dict
<1>3. CASE RemoveDescend \/ CleanDone
  BY <1>1, <1>3 DEF RemoveDescend, CleanDone, ReturnWith
<1>4. CASE Return
  <2>1. /\ call \in InsertCall \union RemoveCall /\ answer # Pending
        /\ call' = NoCall /\ answer' = Pending
    BY <1>4 DEF Inv, CallOK, Return
  <2>2. call # NoCall
    BY <2>1, DataAssumption DEF InsertCall, RemoveCall
  <2> QED BY <1>1, <2>1, <2>2 DEF Map!Return, Dict
<1> QED BY <1>2, <1>3, <1>4

MapNext == [Map!Next]_<<Dict, call, answer>>

LEMMA StepImplements ==
    ASSUME KeysFit, IInv, [Next]_vars PROVE MapNext
<1>1. PICK L, O, T : Inv(L, O, T)
  BY DEF IInv
<1> USE DEF MapNext, Map!Next, Dict
<1>2. CASE treeInit
  BY <1>1, <1>2, MadeImplements
<1>3. CASE treeDestroy
  BY <1>1, <1>3, ClearImplements
<1>4. ASSUME NEW k \in Key, NEW v \in Value, BeginInsert(k, v) PROVE MapNext
  <2>1. PICK c : c = [op |-> "insert", key |-> k, value |-> v]
    OBVIOUS
  <2>2. c \in InsertCall \union RemoveCall /\ Begin(c, "insert")
    BY <1>4, <2>1 DEF BeginInsert, InsertCall
  <2>3. \E d \in Map!Call : Map!Begin(d)
    BY <1>1, <2>2, BeginImplements
  <2> QED BY <2>3
<1>5. ASSUME NEW a \in LeafArray \union NonLeafArray, InsertLevel(a) PROVE MapNext
  <2>1. a \in Array
    BY DEF Array
  <2> QED BY <1>1, <1>5, <2>1, InsertImplements
<1>6. ASSUME NEW k \in Key, BeginRemove(k) PROVE MapNext
  <2>1. PICK c : c = [op |-> "remove", key |-> k]
    OBVIOUS
  <2>2. c \in InsertCall \union RemoveCall /\ Begin(c, "remove")
    BY <1>6, <2>1 DEF BeginRemove, RemoveCall
  <2>3. \E d \in Map!Call : Map!Begin(d)
    BY <1>1, <2>2, BeginImplements
  <2> QED BY <2>3
<1>7. CASE InsertFails \/ RemoveDescend \/ CleanDone \/ Return
  BY <1>1, <1>7, CallImplements
<1>8. CASE RemoveAbsent
  BY <1>1, <1>8, AbsentImplements
<1>9. CASE RemoveValue
  BY <1>1, <1>9, RemoveImplements
<1>10. CASE Clean
  BY <1>1, <1>10, CleanImplements
<1>11. CASE UNCHANGED vars
  <2>1. UNCHANGED <<numLevels, treeVars, call, answer>>
    BY <1>11 DEF vars, callVars
  <2> QED BY <2>1, DictKept
<1> QED
  BY <1>2, <1>3, <1>4, <1>5, <1>6, <1>7, <1>8, <1>9, <1>10, <1>11 DEF Next

\* The tree implements the map OrderedMap specifies: whatever the pools hand out
\* and whenever they fail, treeInsertOrReturnExisting and treeRemove take effect
\* once, on their own key, and treeFind finds what they left.  The keys must be
\* below the bound treeInit was given levels for: RadixNewAlign.cfg shows two
\* keys beyond it that share a place.
THEOREM TreeIsMap == KeysFit => (Spec => ImplementsMap)
<1> SUFFICES ASSUME KeysFit PROVE Spec => ImplementsMap
  OBVIOUS
<1>1. Init => Map!Init
  <2> SUFFICES ASSUME Init PROVE Map!Init
    OBVIOUS
  <2>1. \A k \in Key : treeFind(k) = 0
    BY DEF Init, treeFind
  <2> QED BY <2>1 DEF Init, Idle, Map!Init, Map!NoValue
<1>2. IInv /\ [Next]_vars => MapNext
  BY StepImplements
<1> QED BY <1>1, <1>2, Invariance, PTL DEF Spec, ImplementsMap, Map!Spec, MapNext, Dict

-----------------------------------------------------------------------------
(* While every allocation succeeds.                                         *)

\* Below the root a set bit leads to something, but for the one that an insert
\* has come through and the one that a remove clears next.
Exempt(n, c) ==
    \/ pc = "insert" /\ Here # Root /\ ChildNode(n, c) = Here
    \/ pc = "clean" /\ n = Here /\ c = KeyBits

HollowIn(L, n, c) == n # Root /\ c \in bits[n] /\ Hollow(LevelOf(n, L), n, c)

NoneHollow(L) == \A n \in Used, c \in Child : HollowIn(L, n, c) => Exempt(n, c)

LEMMA NoneHollowKept ==
    ASSUME NEW L, NEW O, NEW T, Inv(L, O, T), NoneHollow(L),
           treeInit \/ (\E c, start : Begin(c, start)) \/ RemoveDescend \/ RemoveAbsent
               \/ CleanDone \/ Return \/ UNCHANGED vars
    PROVE  NoneHollow(L)'
<1>1. UNCHANGED treeVars
  BY DEF treeInit, Begin, RemoveDescend, RemoveAbsent, CleanDone, Return, vars
<1>2. Used' = Used /\ \A n, c : HollowIn(L, n, c)' = HollowIn(L, n, c)
  BY <1>1 DEF Used, HollowIn, Hollow, ValueAt, ChildNode, treeVars
<1>3. ASSUME NEW n \in Used, NEW c \in Child, HollowIn(L, n, c) PROVE Exempt(n, c)'
  <2>1. Exempt(n, c)
    BY <1>3 DEF NoneHollow
  <2>2. CASE treeInit \/ UNCHANGED vars
    BY <2>1, <2>2 DEF Exempt, ChildNode, Here, KeyBits, Level, treeInit, vars, treeVars, callVars
  <2>3. CASE CleanDone
    <3>1. n = Here /\ Level = 0 /\ Running
      BY <2>1, <2>3 DEF Exempt, CleanDone, Running
    <3>2. LevelOf(n, L) = 0
      BY <3>1, AtHand
    <3>3. n = Root
      BY <3>2, UsedNodes DEF Inv
    <3> QED BY <1>3, <3>3 DEF HollowIn
  <2> QED
    BY <2>1, <2>2, <2>3 DEF Exempt, Inv, Begin, RemoveDescend, RemoveAbsent, Return
<1> QED BY <1>2, <1>3 DEF NoneHollow

\* treeInsertOrReturnExisting makes a node or a value for every bit it sets.
LEMMA NoneHollowInsert ==
    ASSUME NEW L, NEW O, NEW T, Inv(L, O, T), NoneHollow(L), NEW a \in Array, InsertLevel(a),
           NEW L2, NEW T2, NodesStay(L, T, L2, T2)
    PROVE  NoneHollow(L2)'
<1>0. PICK h, c, s : h = Here /\ c = KeyBits /\ s = SlotOf(c)
  OBVIOUS
<1>1. /\ Running /\ pc = "insert" /\ call.value # 0
      /\ children' = [children EXCEPT ![h][WordOf(c)] = a]
      /\ bits' = [bits EXCEPT ![h] = @ \union {c}]
  <2>1. call \in InsertCall
    BY DEF InsertLevel, Inv, CallOK
  <2> QED BY <1>0, <2>1, DataAssumption DEF InsertLevel, Running, InsertCall
<1>2. /\ h \in Used /\ h \in Node /\ LevelOf(h, L) = Level
      /\ c \in Child /\ WordOf(c) \in Word /\ s \in Slot
      /\ ChildArray = children[h][WordOf(c)]
      /\ path \in Seq(Node) /\ Level \in 0..LastLevel
  BY <1>0, <1>1, AtHand DEF ChildArray
<1>3. /\ IF Level = LastLevel THEN a \in LeafArray ELSE a \in NonLeafArray
      /\ ChildArray = a \/ (ChildArray = NULL /\ a \notin nonLeafLive \union leafLive)
      /\ NewNodesOf(a)
  BY InsertArray
<1>4. \/ /\ Level = LastLevel
         /\ leaf' = IF leaf[a][s] = 0 THEN [leaf EXCEPT ![a][s] = call.value] ELSE leaf
      \/ /\ Level # LastLevel /\ pc' = "insert" /\ path' = Append(path, <<a, s>>) /\ leaf' = leaf
  BY <1>0, <1>1, <1>2 DEF InsertLevel, StoreIfEmpty
<1>5. /\ bits \in [Node -> SUBSET Child] /\ leaf \in [LeafArray -> [Slot -> Value \union {0}]]
      /\ children \in [Node -> [Word -> Array \union {NULL}]]
  BY DEF Inv, TypeOK, Array
<1>6. \A b \in LeafArray, t \in Slot : leaf'[b][t] = 0 => leaf[b][t] = 0
  BY <1>1, <1>2, <1>4, <1>5
<1>7. /\ Used \subseteq Node
      /\ \A n \in Used : n = Root \/ (n[1] \in nonLeafLive /\ n[2] \in Slot /\ n = <<n[1], n[2]>>)
  BY UsedNodes DEF Inv
<1>8. ASSUME NEW n \in Used', n \notin Used, NEW d \in Child, HollowIn(L2, n, d)' PROVE FALSE
  <2>1. n[1] = a /\ a \notin nonLeafLive /\ n \in NonLeafArray \X Slot
    BY <1>3, <1>8 DEF NewNodesOf
  <2>2. bits[n] = {} /\ n \in Node /\ n # h
    BY <1>2, <1>8, <2>1 DEF Inv, FreeArraysAreClean, Node
  <2>3. bits'[n] = {}
    BY <1>1, <1>5, <2>2
  <2> QED BY <1>8, <2>3 DEF HollowIn
<1>9. ASSUME Level # LastLevel PROVE Exempt(h, c)'
  <2>1. Here' = <<a, s>>
    <3>1. PICK m : m = <<a, s>>
      OBVIOUS
    <3>2. Here' = m
      BY <1>2, <1>4, <1>9, <3>1 DEF Here
    <3> QED BY <3>1, <3>2
  <2>2. ChildNode(h, c)' = <<a, s>> /\ <<a, s>> # Root
    <3>1. children'[h][WordOf(c)] = a
      BY <1>1, <1>2, <1>5
    <3>2. a \in NonLeafArray
      BY <1>3, <1>9
    <3> QED BY <1>0, <1>2, <3>1, <3>2, Constants DEF ChildNode
  <2> QED BY <1>4, <1>9, <2>1, <2>2 DEF Exempt
<1>10. ASSUME Level = LastLevel PROVE ~HollowIn(L2, h, c)'
  <2>1. LevelOf(h, L2) = LastLevel /\ a \in LeafArray
    BY <1>2, <1>3, <1>10 DEF NodesStay
  <2>2. children'[h][WordOf(c)] = a
    BY <1>1, <1>2, <1>5
  <2>3. leaf'[a][s] # 0
    BY <1>1, <1>2, <1>4, <1>5, <1>10, <2>1
  <2>4. ValueAt(h, c)' = leaf'[a][s]
    BY <1>0, <2>2 DEF ValueAt
  <2> QED BY <2>1, <2>3, <2>4 DEF HollowIn, Hollow
<1>11. ASSUME NEW n \in Used, NEW d \in Child, HollowIn(L2, n, d)', ~(n = h /\ d = c) PROVE FALSE
  <2>1. n \in Node /\ n # Root /\ LevelOf(n, L2) = LevelOf(n, L) /\ WordOf(d) \in Word
    BY <1>7, <1>11, WordAndSlot DEF HollowIn, NodesStay
  <2>2. d \in bits[n] /\ \A m \in Node : bits[m] \subseteq bits'[m]
    BY <1>1, <1>2, <1>5, <1>11, <2>1 DEF HollowIn
  <2>3. PICK b : b = children[n][WordOf(d)]
    OBVIOUS
  <2>4. b # NULL
    BY <2>1, <2>2, <2>3 DEF Inv, BitsOK, InWord
  <2>5. children'[n][WordOf(d)] = b
    <3>1. CASE n = h /\ WordOf(d) = WordOf(c)
      BY <1>1, <1>2, <1>3, <1>5, <2>3, <2>4, <3>1
    <3>2. CASE ~(n = h /\ WordOf(d) = WordOf(c))
      BY <1>1, <1>2, <1>5, <2>1, <2>3, <3>2
    <3> QED BY <3>1, <3>2
  <2>6. HollowIn(L, n, d) => ChildNode(n, d) = h /\ h # Root
    BY <1>0, <1>1, <1>11 DEF NoneHollow, Exempt
  <2>7. b \in Live(LevelOf(n, L))
    BY <2>1, <2>3, <2>4, Owned DEF Inv
  <2>8. CASE LevelOf(n, L) = LastLevel
    <3>1. b \in LeafArray /\ b \notin NonLeafArray /\ SlotOf(d) \in Slot
      BY <2>7, <2>8, WordAndSlot, DataAssumption DEF Live, Inv, TypeOK, LeafPool!TypeOK
    <3>2. leaf'[b][SlotOf(d)] = 0
      BY <1>11, <2>1, <2>5, <2>8 DEF HollowIn, Hollow, ValueAt
    <3>3. HollowIn(L, n, d)
      BY <1>6, <2>1, <2>2, <2>3, <2>8, <3>1, <3>2 DEF HollowIn, Hollow, ValueAt
    <3>4. h = <<b, SlotOf(d)>>
      BY <2>3, <2>6, <3>3 DEF ChildNode
    <3>5. h[1] = b /\ h # Root
      BY <2>6, <3>3, <3>4
    <3> QED BY <1>2, <1>7, <3>1, <3>5 DEF Inv, TypeOK, NonLeafPool!TypeOK
  <2>9. CASE LevelOf(n, L) # LastLevel
    <3>1. PICK m : m = <<b, SlotOf(d)>>
      OBVIOUS
    <3>2. m = ChildNode(n, d) /\ m = ChildNode(n, d)'
      BY <2>3, <2>5, <3>1 DEF ChildNode
    <3>3. m \in Node
      BY <1>7, <2>3, <2>4, <2>9, <3>2, ParentOfKey DEF Inv
    <3>4. bits'[m] = {}
      BY <1>11, <2>1, <2>9, <3>2 DEF HollowIn, Hollow
    <3>5. HollowIn(L, n, d)
      BY <2>1, <2>2, <2>9, <3>2, <3>3, <3>4 DEF HollowIn, Hollow
    <3>6. m = h
      BY <2>6, <3>2, <3>5
    <3> QED BY <1>1, <1>2, <1>5, <3>4, <3>6
  <2> QED BY <2>8, <2>9
<1> QED BY <1>8, <1>9, <1>10, <1>11 DEF NoneHollow

\* treeRemove makes one bit hollow, ...
LEMMA NoneHollowRemove ==
    ASSUME NEW L, NEW O, NEW T, Inv(L, O, T), NoneHollow(L), RemoveValue
    PROVE  NoneHollow(L)'
<1>0. PICK h, c, a, s : h = Here /\ c = KeyBits /\ a = ChildArray /\ s = SlotOf(c)
  OBVIOUS
<1>1. /\ Running /\ pc = "remove" /\ pc' = "clean" /\ a # NULL
      /\ leaf' = [leaf EXCEPT ![a][s] = 0]
      /\ UNCHANGED <<bits, children, nonLeafLive, leafLive, call, path>>
  BY <1>0 DEF RemoveValue, Running
<1>2. h \in Used /\ c \in Child /\ WordOf(c) \in Word /\ s \in Slot /\ a = children[h][WordOf(c)]
  BY <1>0, <1>1, AtHand DEF ChildArray
<1>3. leaf \in [LeafArray -> [Slot -> Value \union {0}]]
  BY DEF Inv, TypeOK
<1>4. Used' = Used /\ Here' = h /\ KeyBits' = c
  BY <1>0, <1>1 DEF Used, Here, KeyBits, Level
<1>5. ASSUME NEW n \in Used, NEW d \in Child, HollowIn(L, n, d)', ~(n = h /\ d = c) PROVE FALSE
  <2>1. n # Root /\ d \in bits[n] /\ WordOf(d) \in Word /\ SlotOf(d) \in Slot
    BY <1>1, <1>5, WordAndSlot DEF HollowIn
  <2>2. PICK b : b = children[n][WordOf(d)]
    OBVIOUS
  <2>3. b # NULL
    BY <2>1, <2>2 DEF Inv, BitsOK, InWord
  <2>4. ~HollowIn(L, n, d)
    BY <1>1 DEF NoneHollow, Exempt
  <2>5. LevelOf(n, L) = LastLevel
    BY <1>1, <1>5, <2>4 DEF HollowIn, Hollow, ChildNode
  <2>6. b \in LeafArray
    <3>1. b \in Live(LevelOf(n, L))
      BY <2>1, <2>2, <2>3, Owned DEF Inv
    <3> QED BY <2>5, <3>1 DEF Live, Inv, TypeOK, LeafPool!TypeOK
  <2>7. leaf'[b][SlotOf(d)] = 0 /\ leaf[b][SlotOf(d)] # 0
    BY <1>1, <1>5, <2>1, <2>2, <2>4, <2>5 DEF HollowIn, Hollow, ValueAt
  <2>8. b = a /\ SlotOf(d) = s
    BY <1>1, <1>3, <2>1, <2>6, <2>7
  <2>9. n = h /\ WordOf(d) = WordOf(c)
    <3>1. O[b] = <<n, WordOf(d)>> /\ O[a] = <<h, WordOf(c)>>
      BY <1>1, <1>2, <2>1, <2>2, <2>3 DEF Inv, ArraysOK
    <3> QED BY <2>8, <3>1
  <2>10. d = c
    <3>1. d = WordBits * WordOf(d) + SlotOf(d) /\ c = WordBits * WordOf(c) + SlotOf(c)
      BY <1>2, WordAndSlot
    <3> QED BY <1>0, <2>8, <2>9, <3>1
  <2> QED BY <1>5, <2>9, <2>10
<1> QED BY <1>1, <1>4, <1>5 DEF NoneHollow, Exempt

\* ... and clears it, which may make the one above it hollow.
LEMMA NoneHollowClean ==
    ASSUME NEW L, NEW O, NEW T, Inv(L, O, T), NoneHollow(L), Clean
    PROVE  NoneHollow(L)'
<1>0. PICK h, c, p, lv : h = Here /\ c = KeyBits /\ p = path[Len(path) - 1] /\ lv = Level
  OBVIOUS
<1>1. /\ Running /\ pc = "clean" /\ Level > 0 /\ bits' = [bits EXCEPT ![h] = Left]
      /\ leaf' = leaf /\ call' = call
      /\ Freed => children' = [children EXCEPT ![h][WordOf(c)] = NULL]
      /\ ~Freed => children' = children
      /\ Used' \subseteq Used
  BY <1>0, CleanArrays
<1>2. Left = {} => pc' = "clean" /\ path' = SubSeq(path, 1, Len(path) - 1)
  BY <1>1 DEF Clean, CleanNode, StopHere, Left
<1>3. /\ h \in Used /\ h \in Node /\ LevelOf(h, L) = lv /\ lv \in 0..LastLevel /\ lv + 1 = Len(path)
      /\ c \in Child /\ WordOf(c) \in Word /\ path \in Seq(Node)
      /\ call.key \in KeysOf(h, L, T)
  BY <1>0, <1>1, AtHand
<1>4. /\ bits \in [Node -> SUBSET Child]
      /\ children \in [Node -> [Word -> Array \union {NULL}]]
  BY DEF Inv, TypeOK, Array
<1>5. p \in Used /\ LevelOf(p, L) = lv - 1 /\ call.key \in KeysOf(p, L, T)
  <2>1. Len(path) - 1 \in 1..Len(path) /\ (Len(path) - 1) - 1 = lv - 1
    BY <1>0, <1>1, <1>3
  <2> QED BY <1>0, <1>1, <2>1 DEF Inv, PathOK
<1>6. Left = {} => Here' = p /\ KeyBits' = KeyLevelBits(call.key, lv - 1)
  <2> SUFFICES ASSUME Left = {} PROVE Here' = p /\ KeyBits' = KeyLevelBits(call.key, lv - 1)
    OBVIOUS
  <2>1. PICK q : q = SubSeq(path, 1, lv)
    OBVIOUS
  <2>2. lv \in Nat /\ Len(path) - 1 = lv /\ lv > 0
    BY <1>0, <1>1, <1>3
  <2>3. Len(q) = lv /\ q[lv] = path[lv]
    BY <1>3, <2>1, <2>2
  <2>4. path' = q /\ p = path[lv]
    BY <1>0, <1>2, <2>1, <2>2
  <2> QED BY <1>1, <2>2, <2>3, <2>4 DEF Here, KeyBits, Level
<1>7. Used \subseteq Node
  BY UsedNodes DEF Inv
<1>8. ASSUME NEW n \in Used', NEW d \in Child, HollowIn(L, n, d)' PROVE Exempt(n, d)'
  <2>1. n \in Used /\ n \in Node /\ n # Root /\ d \in bits'[n] /\ WordOf(d) \in Word
    BY <1>1, <1>7, <1>8, WordAndSlot DEF HollowIn
  <2>2. d \in bits[n] /\ (n = h => d \in Left /\ d # c)
    BY <1>0, <1>1, <1>3, <1>4, <2>1 DEF Left
  <2>3. children[n][WordOf(d)] # NULL
    BY <2>1, <2>2 DEF Inv, BitsOK, InWord
  <2>4. children'[n][WordOf(d)] = children[n][WordOf(d)]
    <3>1. n = h /\ WordOf(d) = WordOf(c) => ~Freed
      BY <1>0, <2>2 DEF Freed, WordEmpty, InWord
    <3> QED BY <1>1, <1>3, <1>4, <2>1, <3>1
  <2>5. ~HollowIn(L, n, d)
    BY <1>0, <1>1, <2>2 DEF NoneHollow, Exempt
  <2>6. LevelOf(n, L) # LastLevel
    BY <1>1, <1>8, <2>1, <2>2, <2>4, <2>5 DEF HollowIn, Hollow, ValueAt
  <2>7. PICK m : m = ChildNode(n, d)
    OBVIOUS
  <2>8. /\ m \in Used /\ LevelOf(m, L) = LevelOf(n, L) + 1
        /\ \A k \in KeysOf(m, L, T) : k \in KeysOf(n, L, T) /\ KeyLevelBits(k, LevelOf(n, L)) = d
    BY <2>1, <2>3, <2>6, <2>7, ParentOfKey DEF Inv
  <2>9. bits'[m] = {} /\ bits[m] # {}
    <3>1. m = ChildNode(n, d)'
      BY <2>4, <2>7 DEF ChildNode
    <3>2. bits'[m] = {}
      BY <1>8, <2>6, <3>1 DEF HollowIn, Hollow
    <3> QED BY <2>1, <2>2, <2>5, <2>6, <2>7, <3>2 DEF HollowIn, Hollow
  <2>10. m = h /\ Left = {}
    BY <1>1, <1>3, <1>4, <1>7, <2>8, <2>9
  <2>11. call.key \in KeysOf(n, L, T) /\ KeyLevelBits(call.key, LevelOf(n, L)) = d
    BY <1>3, <2>8, <2>10
  <2>12. LevelOf(n, L) = lv - 1
    <3>1. LevelOf(n, L) \in 0..LastLevel
      BY <2>1 DEF Inv, ArraysOK
    <3> QED BY <1>3, <2>8, <2>10, <3>1, Constants
  <2>13. n = p
    BY <1>5, <2>1, <2>11, <2>12 DEF Inv, ArraysOK
  <2> QED BY <1>2, <1>6, <2>10, <2>11, <2>12, <2>13 DEF Exempt
<1> QED BY <1>8 DEF NoneHollow

\* A step keeps the invariant, and leaves nothing hollow unless it fails.
LEMMA HollowStep ==
    ASSUME NEW L, NEW O, NEW T, Inv(L, O, T), NoneHollow(L), [Next]_vars,
           answer' # Failed, numLevels' # 0
    PROVE  \E L2, O2, T2 : Inv(L2, O2, T2)' /\ NoneHollow(L2)'
<1> DEFINE Goal == \E L2, O2, T2 : Inv(L2, O2, T2)' /\ NoneHollow(L2)'
<1>1. ASSUME NEW c, NEW start, Begin(c, start), numLevels > 0,
             \/ start = "insert" /\ c \in InsertCall
             \/ start = "remove" /\ c \in RemoveCall
      PROVE  Goal
  <2>1. Inv(L, O, T)'
    BY <1>1, BeginStep
  <2>2. NoneHollow(L)'
    BY <1>1, NoneHollowKept
  <2> QED BY <2>1, <2>2
<1>2. CASE treeInit
  BY <1>2, InitStep, NoneHollowKept
<1>3. ASSUME NEW k \in Key, NEW v \in Value, BeginInsert(k, v) PROVE Goal
  <2>1. PICK c : c = [op |-> "insert", key |-> k, value |-> v]
    OBVIOUS
  <2>2. c \in InsertCall /\ numLevels > 0 /\ Begin(c, "insert")
    BY <1>3, <2>1 DEF BeginInsert, InsertCall
  <2> QED BY <1>1, <2>2
<1>4. ASSUME NEW a \in LeafArray \union NonLeafArray, InsertLevel(a) PROVE Goal
  <2>1. a \in Array
    BY DEF Array
  <2>2. PICK L2, O2, T2 : Inv(L2, O2, T2)' /\ NodesStay(L, T, L2, T2)
    BY <1>4, <2>1, InsertStep
  <2>3. NoneHollow(L2)'
    BY <1>4, <2>1, <2>2, NoneHollowInsert
  <2> QED BY <2>2, <2>3
<1>5. ASSUME NEW k \in Key, BeginRemove(k) PROVE Goal
  <2>1. PICK c : c = [op |-> "remove", key |-> k]
    OBVIOUS
  <2>2. c \in RemoveCall /\ numLevels > 0 /\ Begin(c, "remove")
    BY <1>5, <2>1 DEF BeginRemove, RemoveCall
  <2> QED BY <1>1, <2>2
<1>6. CASE CleanDone \/ RemoveAbsent
  BY <1>6, EndStep, NoneHollowKept
<1>7. CASE RemoveDescend
  BY <1>7, DescendStep, NoneHollowKept
<1>8. CASE RemoveValue
  BY <1>8, RemoveValueStep, NoneHollowRemove
<1>9. CASE Clean
  BY <1>9, CleanStep, NoneHollowClean
<1>10. CASE Return
  BY <1>10, ReturnStep, NoneHollowKept
<1>11. CASE UNCHANGED vars
  BY <1>11, UnchangedStep, NoneHollowKept
<1>12. CASE treeDestroy \/ InsertFails
  BY <1>12 DEF treeDestroy, InsertFails, ReturnWith
<1> QED
  BY <1>2, <1>3, <1>4, <1>5, <1>6, <1>7, <1>8, <1>9, <1>10, <1>11, <1>12 DEF Next

HistoryInv ==
    /\ failed \in BOOLEAN
    /\ \E L, O, T : Inv(L, O, T) /\ (~failed => NoneHollow(L))

LEMMA HistoryInvariance == HistorySpec => []HistoryInv
<1>1. HistoryInit => HistoryInv
  <2> SUFFICES ASSUME HistoryInit PROVE HistoryInv
    OBVIOUS
  <2>1. PICK L, O, T : Inv(L, O, T)
    BY InitInv DEF HistoryInit, IInv
  <2>2. NoneHollow(L)
    BY Constants DEF HistoryInit, Init, Zeroed, NoneHollow, HollowIn, Used
  <2> QED BY <2>1, <2>2 DEF HistoryInv, HistoryInit
<1>2. HistoryInv /\ [HistoryNext]_<<vars, failed>> => HistoryInv'
  <2> SUFFICES ASSUME HistoryInv, [HistoryNext]_<<vars, failed>> PROVE HistoryInv'
    OBVIOUS
  <2>1. PICK L, O, T : Inv(L, O, T) /\ (~failed => NoneHollow(L))
    BY DEF HistoryInv
  <2>2. [Next]_vars
    BY DEF HistoryNext
  <2>3. failed' \in BOOLEAN
    BY DEF HistoryInv, HistoryNext
  <2>4. PICK L1, O1, T1 : Inv(L1, O1, T1)'
    <3>1. IInv'
      BY <2>1, <2>2, NextInv DEF IInv
    <3> QED BY <3>1 DEF IInv
  <2>5. CASE numLevels' = 0
    <3>1. Used' = {Root}
      BY <2>4, <2>5 DEF Inv, Zeroed, Used
    <3>2. NoneHollow(L1)'
      BY <3>1 DEF NoneHollow, HollowIn
    <3> QED BY <2>3, <2>4, <3>2 DEF HistoryInv
  <2>6. CASE failed'
    BY <2>3, <2>4, <2>6 DEF HistoryInv
  <2>7. CASE UNCHANGED <<vars, failed>>
    <3>1. UNCHANGED vars
      BY <2>7
    <3>2. Inv(L, O, T)'
      BY <2>1, <3>1, UnchangedStep
    <3>3. ~failed' => NoneHollow(L)'
      BY <2>1, <2>7, <3>1, NoneHollowKept
    <3> QED BY <2>3, <3>2, <3>3 DEF HistoryInv
  <2>8. CASE HistoryNext /\ numLevels' # 0 /\ ~failed'
    <3>1. ~failed /\ answer' # Failed
      BY <2>8 DEF HistoryNext
    <3>2. PICK L2, O2, T2 : Inv(L2, O2, T2)' /\ NoneHollow(L2)'
      BY <2>1, <2>2, <2>8, <3>1, HollowStep
    <3> QED BY <2>3, <3>2 DEF HistoryInv
  <2> QED BY <2>5, <2>6, <2>7, <2>8
<1> QED BY <1>1, <1>2, PTL DEF HistorySpec

\* As long as every allocation has succeeded, treeRemove leaves nothing behind
\* below the root: between calls every array has a bit and every bit a value.
THEOREM NothingHollow == HistorySpec => []NothingHollowUnlessFailed
<1>1. HistoryInv => NothingHollowUnlessFailed
  <2> SUFFICES ASSUME HistoryInv, ~failed, pc = "idle",
                      NEW level \in 1..LastLevel, NEW n \in NodesAt[level]
               PROVE  /\ \A w \in Word : children[n][w] # NULL <=> InWord(bits[n], w) # {}
                      /\ \A c \in bits[n] : ~Hollow(level, n, c)
    BY DEF NothingHollowUnlessFailed, NothingHollowBelowRoot
  <2>1. PICK L, O, T : Inv(L, O, T) /\ NoneHollow(L)
    BY DEF HistoryInv
  <2>2. n \in Used /\ LevelOf(n, L) = level /\ level # 0
    <3>1. level \in 0..LastLevel
      BY Constants
    <3> QED BY <2>1, <3>1, NodesAtLevels DEF Inv
  <2>3. n # Root /\ n \in Node
    BY <2>1, <2>2, UsedNodes DEF Inv
  <2>4. bits[n] \subseteq Child
    BY <2>1, <2>3 DEF Inv, TypeOK
  <2>5. \A c \in bits[n] : ~Hollow(level, n, c)
    BY <2>1, <2>2, <2>3, <2>4 DEF NoneHollow, HollowIn, Exempt
  <2> QED BY <2>1, <2>2, <2>5 DEF Inv, BitsOK
<1> QED BY <1>1, HistoryInvariance, PTL

\* When nothing is hollow and there is no value, no node but the root has a bit.
LEMMA EmptyBelow ==
    ASSUME NEW L, NEW O, NEW T, Inv(L, O, T), NoneHollow(L), pc = "idle",
           \A k \in Key : treeFind(k) = 0
    PROVE  \A n \in Used : n # Root => bits[n] = {}
<1> DEFINE Bad == {d \in Nat : \E n \in Used : n # Root /\ bits[n] # {} /\ d = LastLevel - LevelOf(n, L)}
<1> SUFFICES ASSUME NEW m \in Used, m # Root, bits[m] # {} PROVE FALSE
  OBVIOUS
<1>1. \A n \in Used : LevelOf(n, L) \in 0..LastLevel /\ n \in Node
  <2>1. TypeOK /\ ArraysOK(L, O, T)
    BY DEF Inv
  <2>2. Used \subseteq Node
    BY <2>1, UsedNodes
  <2> QED BY <2>1, <2>2 DEF ArraysOK
<1>2. Bad # {}
  <2>1. LastLevel - LevelOf(m, L) \in Nat
    BY <1>1, Constants
  <2> QED BY <2>1
<1>3. PICK d \in Bad : \A e \in Bad : d <= e
  BY <1>2, LeastOfNaturals
<1>4. PICK n \in Used : n # Root /\ bits[n] # {} /\ d = LastLevel - LevelOf(n, L)
  OBVIOUS
<1>5. PICK c \in Child : c \in bits[n]
  BY <1>1, <1>4 DEF Inv, TypeOK
<1>6. ~Hollow(LevelOf(n, L), n, c)
  BY <1>4, <1>5 DEF NoneHollow, HollowIn, Exempt
<1>7. children[n][WordOf(c)] # NULL
  BY <1>5, WordAndSlot DEF Inv, BitsOK, InWord
<1>8. CASE LevelOf(n, L) = LastLevel
  <2>1. ValueAt(n, c) # 0
    BY <1>6, <1>8 DEF Hollow
  <2>2. PICK k \in KeysOf(n, L, T) : KeyLevelBits(k, LastLevel) = c
    BY <1>7, <1>8, <2>1 DEF Inv, BitsOK
  <2>3. k \in Key /\ IsLeafOf(k, n, L, T)
    BY <1>8, UsedNodes DEF Inv, IsLeafOf
  <2>4. treeFind(k) = Place(k, n)
    BY <2>3, Finds DEF FindsAsSpecified, FindSpec
  <2> QED BY <1>7, <2>1, <2>2, <2>3, <2>4 DEF Place
<1>9. CASE LevelOf(n, L) # LastLevel
  <2>1. PICK q : q = ChildNode(n, c)
    OBVIOUS
  <2>2. q \in Used /\ q # Root /\ LevelOf(q, L) = LevelOf(n, L) + 1
    BY <1>7, <1>9, <2>1, ParentOfKey DEF Inv
  <2>3. bits[q] # {}
    BY <1>6, <1>9, <2>1 DEF Hollow
  <2>4. LastLevel - LevelOf(q, L) \in Bad
    <3>1. LastLevel - LevelOf(q, L) \in Nat
      BY <1>1, <2>2, Constants
    <3> QED BY <2>2, <2>3, <3>1
  <2>5. ~(d <= LastLevel - LevelOf(q, L))
    BY <1>1, <1>4, <2>2, Constants
  <2> HIDE DEF Bad
  <2> QED BY <1>3, <2>4, <2>5
<1> QED BY <1>8, <1>9

\* As long as every allocation has succeeded, treeRemove of every key gives back
\* all but what the root's bits still hold.
THEOREM EmptiedIsSmall == HistorySpec => []SmallWhenEmptied
<1>1. HistoryInv => SmallWhenEmptied
  <2> SUFFICES ASSUME HistoryInv, ~failed, pc = "idle", \A k \in Key : treeFind(k) = 0
               PROVE  leafLive \union nonLeafLive = ArraysUnder({Root})
    BY DEF SmallWhenEmptied, EmptiedTreeIsSmall
  <2>1. PICK L, O, T : Inv(L, O, T) /\ NoneHollow(L)
    BY DEF HistoryInv
  <2>2. ASSUME NEW a \in leafLive \union nonLeafLive PROVE a \in ArraysUnder({Root})
    <3>1. a # NULL
      BY <2>1, Constants DEF Inv, TypeOK, NonLeafPool!TypeOK, LeafPool!TypeOK, Array
    <3>2. PICK n \in Used, w \in Word : children[n][w] = a
      BY <2>1 DEF Inv, ArraysOK
    <3>3. bits[n] # {}
      BY <2>1, <3>1, <3>2 DEF Inv, BitsOK, InWord
    <3>4. n = Root
      BY <2>1, <3>3, EmptyBelow
    <3> QED BY <3>1, <3>2, <3>4 DEF ArraysUnder
  <2>3. ASSUME NEW a \in ArraysUnder({Root}) PROVE a \in leafLive \union nonLeafLive
    <3>1. PICK w \in Word : a = children[Root][w] /\ a # NULL
      BY DEF ArraysUnder
    <3>2. Root \in Used
      BY DEF Used
    <3>3. a \in Live(LevelOf(Root, L))
      BY <2>1, <3>1, <3>2, Owned DEF Inv
    <3> QED BY <3>3 DEF Live
  <2> QED BY <2>2, <2>3
<1> QED BY <1>1, HistoryInvariance, PTL

-----------------------------------------------------------------------------
(* The search for the least key from one on.                                *)

\* Keys are ordered by the first part in which they differ.
LEMMA KeyOrder ==
    ASSUME KeysFit, NEW j \in Key, NEW k \in Key, NEW d \in 0..LastLevel,
           \A l \in 0..LastLevel : l < d => KeyLevelBits(j, l) = KeyLevelBits(k, l),
           KeyLevelBits(j, d) < KeyLevelBits(k, d)
    PROVE  j < k
<1>1. /\ j \in Nat /\ k \in Nat /\ NumLevels \in Nat /\ LastLevel \in Nat /\ LastLevel + 1 = NumLevels
      /\ Fanout \in Nat
  BY Constants, DataAssumption
<1>2. Prefix(j, d) = Prefix(k, d)
  <2>1. d \in 0..NumLevels
    BY <1>1
  <2> QED BY <2>1, PrefixSame
<1>3. PICK u \in Nat : u = Fanout ^ (NumLevels - (d + 1)) /\ u > 0
  <2>1. NumLevels - (d + 1) \in 0..NumLevels
    BY <1>1
  <2> QED BY <2>1, PowerAssumption
<1>4. PICK x \in Nat, y \in Nat :
          /\ x = Prefix(j, d + 1) /\ y = Prefix(k, d + 1)
          /\ u * x <= j /\ j < u * x + u /\ u * y <= k
  <2>1. Prefix(j, d + 1) = j \div u /\ Prefix(k, d + 1) = k \div u
    BY <1>3 DEF Prefix
  <2> QED BY <1>1, <1>3, <2>1, Quotient
<1>5. x < y
  <2>1. x = Fanout * Prefix(k, d) + KeyLevelBits(j, d) /\ y = Fanout * Prefix(k, d) + KeyLevelBits(k, d)
    BY <1>2, <1>4, PrefixStep
  <2>2. KeyLevelBits(j, d) \in Nat /\ KeyLevelBits(k, d) \in Nat
    BY <1>1, KeyPart DEF Child
  <2>3. Prefix(k, d) \in Nat
    <3>1. NumLevels - d \in 0..NumLevels
      BY <1>1
    <3>2. PICK v \in Nat : v = Fanout ^ (NumLevels - d) /\ v > 0
      BY <3>1, PowerAssumption
    <3> QED BY <1>1, <3>2, Quotient DEF Prefix
  <2>4. PICK p \in Nat : p = Fanout * Prefix(k, d)
    BY <1>1, <2>3
  <2> QED BY <2>1, <2>2, <2>4
<1>6. u * x + u <= u * y
  <2>1. PICK e \in Nat : y = x + 1 + e
    <3>1. y - x - 1 \in Nat /\ y = x + 1 + (y - x - 1)
      BY <1>5
    <3> QED BY <3>1
  <2>2. u * y = u * x + u + u * e /\ u * e \in Nat /\ u * x \in Nat
    BY <2>1
  <2> QED BY <2>2
<1>7. u * x \in Nat /\ u * y \in Nat
  OBVIOUS
<1> QED BY <1>1, <1>4, <1>6, <1>7

LEMMA FirstDifference ==
    ASSUME KeysFit, NEW j \in Key, NEW k \in Key, j # k
    PROVE  \E d \in 0..LastLevel :
              /\ KeyLevelBits(j, d) # KeyLevelBits(k, d)
              /\ \A l \in 0..LastLevel : l < d => KeyLevelBits(j, l) = KeyLevelBits(k, l)
<1> DEFINE Bad == {d \in 0..LastLevel : KeyLevelBits(j, d) # KeyLevelBits(k, d)}
<1>1. LastLevel \in Nat
  BY Constants
<1>2. Bad # {} /\ Bad \subseteq Nat
  BY <1>1, KeysApart
<1>3. PICK d \in Bad : \A e \in Bad : d <= e
  BY <1>2, LeastOfNaturals
<1>4. ASSUME NEW l \in 0..LastLevel, l < d PROVE KeyLevelBits(j, l) = KeyLevelBits(k, l)
  <2>1. ~(d <= l)
    BY <1>1, <1>4
  <2>2. l \notin Bad
    <3> HIDE DEF Bad
    <3> QED BY <1>3, <2>1
  <2> QED BY <2>2
<1> QED BY <1>4

\* FirstSetBit is the least set bit from a place on.
LEMMA FirstBit ==
    ASSUME NEW n, bits[n] \subseteq Child, NEW from \in Nat
    PROVE  /\ (\E c \in bits[n] : c >= from) =>
                 /\ FirstSetBit(n, from) \in bits[n] /\ FirstSetBit(n, from) >= from
                 /\ \A c \in bits[n] : c >= from => FirstSetBit(n, from) <= c
           /\ (\A c \in bits[n] : ~(c >= from)) => FirstSetBit(n, from) = Fanout
           /\ FirstSetBit(n, from) # Fanout => \E c \in bits[n] : c >= from
<1> DEFINE set == {c \in bits[n] : c >= from}
<1>1. set \subseteq Nat
  BY DEF Child
<1>2. FirstSetBit(n, from) = IF set = {} THEN Fanout ELSE CHOOSE c \in set : \A d \in set : c <= d
  BY DEF FirstSetBit
<1>3. ASSUME set # {}
      PROVE  FirstSetBit(n, from) \in set /\ \A d \in set : FirstSetBit(n, from) <= d
  <2>1. \E c \in set : \A d \in set : c <= d
    BY <1>1, <1>3, LeastOfNaturals
  <2> HIDE DEF set
  <2> QED BY <1>2, <1>3, <2>1
<1>4. set = {} => FirstSetBit(n, from) = Fanout
  BY <1>2
<1> QED BY <1>3, <1>4

\* A search that comes to a level has come through every level above it.
LEMMA SearchOnWay ==
    ASSUME NEW k, NEW level \in 0..LastLevel, NodesFor(k)[level] # NULL, NEW l \in 0..level
    PROVE  /\ NodesFor(k)[l] # NULL
           /\ l < level => HasChild(NodesFor(k)[l], KeyLevelBits(k, l))
<1>1. LastLevel \in Nat
  BY Constants
<1> DEFINE Bad == {e \in 0..level : NodesFor(k)[level - e] = NULL}
<1>2. Bad = {}
  <2> SUFFICES ASSUME Bad # {} PROVE FALSE
    OBVIOUS
  <2>1. PICK e \in Bad : \A f \in Bad : e <= f
    <3>1. Bad \subseteq Nat
      BY <1>1
    <3> QED BY <3>1, LeastOfNaturals
  <2>2. e \in 0..level /\ NodesFor(k)[level - e] = NULL
    OBVIOUS
  <2>3. e # 0
    BY <2>2
  <2>4. PICK i \in 1..LastLevel : i = level - e + 1 /\ i - 1 = level - e /\ e - 1 \in 0..level
                                 /\ level - (e - 1) = i /\ ~(e <= e - 1)
    BY <1>1, <2>2, <2>3
  <2>5. e - 1 \notin Bad
    <3> HIDE DEF Bad
    <3> QED BY <2>1, <2>4
  <2>6. NodesFor(k)[i] # NULL
    BY <2>4, <2>5
  <2>7. i \in 0..LastLevel /\ i # 0
    BY <1>1
  <2> QED BY <2>2, <2>4, <2>6, <2>7, SearchStep
<1>3. ASSUME NEW i \in 0..level PROVE NodesFor(k)[i] # NULL
  <2>1. level - i \in 0..level /\ level - (level - i) = i
    BY <1>1
  <2> QED BY <1>2, <2>1
<1>4. ASSUME l < level PROVE HasChild(NodesFor(k)[l], KeyLevelBits(k, l))
  <2>1. l + 1 \in 0..level /\ l + 1 \in 0..LastLevel /\ l + 1 # 0 /\ (l + 1) - 1 = l
    BY <1>1, <1>4
  <2> QED BY <1>3, <2>1, SearchStep
<1> QED BY <1>3, <1>4

LEMMA SearchStops ==
    ASSUME NEW k
    PROVE  /\ StopsAt(k) \in 0..LastLevel /\ NodesFor(k)[StopsAt(k)] # NULL
           /\ StopsAt(k) < LastLevel => NodesFor(k)[StopsAt(k) + 1] = NULL
<1>1. LastLevel \in Nat
  BY Constants
<1> DEFINE Bad == {e \in 0..LastLevel : NodesFor(k)[LastLevel - e] # NULL}
           Stop(level) == /\ NodesFor(k)[level] # NULL
                          /\ level < LastLevel => NodesFor(k)[level + 1] = NULL
<1>2. Bad # {}
  <2>1. NodesFor(k)[0] # NULL
    <3>1. 0 \in 0..LastLevel
      BY <1>1
    <3> QED BY <3>1, SearchStep, Constants
  <2>2. LastLevel \in 0..LastLevel /\ LastLevel - LastLevel = 0
    BY <1>1
  <2> QED BY <2>1, <2>2
<1>3. PICK e \in Bad : \A f \in Bad : e <= f
  <2>1. Bad \subseteq Nat
    BY <1>1
  <2> QED BY <1>2, <2>1, LeastOfNaturals
<1>4. e \in 0..LastLevel /\ NodesFor(k)[LastLevel - e] # NULL
  OBVIOUS
<1>5. LastLevel - e \in 0..LastLevel
  BY <1>1, <1>4
<1>6. ASSUME LastLevel - e < LastLevel PROVE NodesFor(k)[(LastLevel - e) + 1] = NULL
  <2>1. e - 1 \in 0..LastLevel /\ LastLevel - (e - 1) = (LastLevel - e) + 1 /\ ~(e <= e - 1)
    BY <1>1, <1>4, <1>6
  <2>2. e - 1 \notin Bad
    <3> HIDE DEF Bad
    <3> QED BY <1>3, <2>1
  <2> QED BY <2>1, <2>2
<1>7. \E level \in 0..LastLevel : Stop(level)
  BY <1>4, <1>5, <1>6
<1>8. StopsAt(k) = CHOOSE level \in 0..LastLevel : Stop(level)
  BY DEF StopsAt
<1> HIDE DEF Stop
<1>9. StopsAt(k) \in 0..LastLevel /\ Stop(StopsAt(k))
  BY <1>7, <1>8
<1> QED BY <1>9 DEF Stop

\* Searches for keys that agree so far go the same way.
LEMMA SameWay ==
    ASSUME NEW j, NEW k, NEW d \in 0..LastLevel,
           \A l \in 0..LastLevel : l < d => KeyLevelBits(j, l) = KeyLevelBits(k, l)
    PROVE  NodesFor(j)[d] = NodesFor(k)[d]
<1>1. LastLevel \in Nat
  BY Constants
<1> DEFINE Bad == {l \in 0..d : NodesFor(j)[l] # NodesFor(k)[l]}
<1>2. Bad = {}
  <2> SUFFICES ASSUME Bad # {} PROVE FALSE
    OBVIOUS
  <2>1. PICK e \in Bad : \A f \in Bad : e <= f
    <3>1. Bad \subseteq Nat
      BY <1>1
    <3> QED BY <3>1, LeastOfNaturals
  <2>2. e \in 0..d /\ e \in 0..LastLevel /\ NodesFor(j)[e] # NodesFor(k)[e]
    BY <1>1
  <2>3. e # 0
    BY <2>2, SearchStep
  <2>4. PICK l \in 0..LastLevel : l = e - 1 /\ l < d /\ l \in 0..d /\ ~(e <= l)
    <3>1. e - 1 \in 0..LastLevel /\ e - 1 < d /\ e - 1 \in 0..d /\ ~(e <= e - 1)
      BY <1>1, <2>2, <2>3
    <3> QED BY <3>1
  <2>5. l \notin Bad
    <3> HIDE DEF Bad
    <3> QED BY <2>1, <2>4
  <2>6. NodesFor(j)[l] = NodesFor(k)[l] /\ KeyLevelBits(j, l) = KeyLevelBits(k, l)
    BY <2>4, <2>5
  <2> QED BY <2>2, <2>3, <2>4, <2>6, SearchStep
<1>3. d \in 0..d
  BY <1>1
<1> QED BY <1>2, <1>3

\* A key with a value is found through a set bit at every level.
LEMMA PresentWay ==
    ASSUME NEW j \in Key, treeFind(j) # 0, NEW l \in 0..LastLevel
    PROVE  NodesFor(j)[l] # NULL /\ HasChild(NodesFor(j)[l], KeyLevelBits(j, l))
<1>1. LastLevel \in Nat /\ LastLevel \in 0..LastLevel
  BY Constants
<1>2. NodesFor(j)[LastLevel] # NULL /\ HasChild(NodesFor(j)[LastLevel], KeyLevelBits(j, LastLevel))
  BY DEF treeFind
<1>3. l = LastLevel \/ l < LastLevel
  BY <1>1
<1> QED BY <1>1, <1>2, <1>3, SearchOnWay

\* The way down of Leftmost: a function over the levels.
Downs(top, n, c, down) ==
    down = [level \in top..LastLevel |->
        IF level = top THEN Entry(n, c)
        ELSE IF down[level - 1] = Undefined THEN Undefined
        ELSE LET m == ChildNode(down[level - 1][1], down[level - 1][2])
             IN  Entry(m, FirstSetBit(m, 0))]

LEMMA LeftmostSteps ==
    ASSUME NEW top \in 0..LastLevel, NEW n, NEW c
    PROVE  \E down : /\ Downs(top, n, c, down)
                     /\ Leftmost(top, n, c) =
                           IF down[LastLevel] = Undefined THEN Undefined
                           ELSE ValueAt(down[LastLevel][1], down[LastLevel][2])
<1> DEFINE Go(e) == IF e = Undefined THEN Undefined
                    ELSE Entry(ChildNode(e[1], e[2]), FirstSetBit(ChildNode(e[1], e[2]), 0))
           Sol(d, f) == f = [level \in top..(top + d) |->
                                IF level = top THEN Entry(n, c) ELSE Go(f[level - 1])]
           Bad == {d \in Nat : \A f : ~Sol(d, f)}
<1> HIDE DEF Go
<1>0. LastLevel \in Nat /\ top \in Nat
  BY Constants
<1>1. Bad = {}
  <2> SUFFICES ASSUME Bad # {} PROVE FALSE
    OBVIOUS
  <2>1. PICK d \in Bad : \A e \in Bad : d <= e
    BY LeastOfNaturals
  <2>2. d # 0
    <3>1. Sol(0, [level \in top..(top + 0) |-> Entry(n, c)])
      BY <1>0
    <3> QED BY <2>1, <3>1
  <2>3. d - 1 \in Nat /\ d - 1 \notin Bad
    <3>1. d \in Nat /\ d - 1 \in Nat /\ ~(d <= d - 1)
      BY <2>2
    <3> HIDE DEF Bad
    <3> QED BY <2>1, <3>1
  <2>4. PICK f : Sol(d - 1, f)
    BY <2>3
  <2>5. PICK g : g = [level \in top..(top + d) |->
                         IF level = top + d THEN Go(f[(top + d) - 1]) ELSE f[level]]
    OBVIOUS
  <2>6. ASSUME NEW level \in top..(top + d)
        PROVE  g[level] = IF level = top THEN Entry(n, c) ELSE Go(g[level - 1])
    <3>1. CASE level = top + d
      <4>1. (top + d) - 1 \in top..(top + d) /\ (top + d) - 1 # top + d /\ top + d # top
        BY <1>0, <2>2, <2>3
      <4> QED BY <2>5, <3>1, <4>1
    <3>2. CASE level # top + d
      <4>1. level \in top..(top + (d - 1)) /\ g[level] = f[level]
        BY <1>0, <2>3, <2>5, <3>2
      <4>2. level # top => g[level - 1] = f[level - 1]
        <5>1. level # top => level - 1 \in top..(top + d) /\ level - 1 # top + d
          BY <1>0, <2>3, <4>1
        <5> QED BY <2>5, <5>1
      <4>3. f[level] = IF level = top THEN Entry(n, c) ELSE Go(f[level - 1])
        BY <2>4, <4>1
      <4> QED BY <4>1, <4>2, <4>3
    <3> QED BY <3>1, <3>2
  <2>7. g = [level \in top..(top + d) |-> g[level]]
    BY <2>5
  <2>8. Sol(d, g)
    BY <2>6, <2>7
  <2> QED BY <2>1, <2>8
<1>2. PICK f : Downs(top, n, c, f)
  <2>1. LastLevel - top \in Nat /\ top + (LastLevel - top) = LastLevel
    BY <1>0
  <2>2. PICK f : Sol(LastLevel - top, f)
    BY <1>1, <2>1
  <2>3. Downs(top, n, c, f)
    BY <2>1, <2>2 DEF Downs, Go
  <2> QED BY <2>3
<1>3. Leftmost(top, n, c) =
         LET down == CHOOSE g : Downs(top, n, c, g)
         IN  IF down[LastLevel] = Undefined THEN Undefined
             ELSE ValueAt(down[LastLevel][1], down[LastLevel][2])
  BY DEF Leftmost, Downs
<1>4. Downs(top, n, c, CHOOSE g : Downs(top, n, c, g))
  BY <1>2
<1> QED BY <1>3, <1>4

LEMMA DownStep ==
    ASSUME NEW top, NEW n, NEW c, NEW down, Downs(top, n, c, down), NEW level \in top..LastLevel
    PROVE  /\ level = top => down[level] = Entry(n, c)
           /\ level # top /\ down[level - 1] # Undefined =>
                 LET m == ChildNode(down[level - 1][1], down[level - 1][2])
                 IN  down[level] = Entry(m, FirstSetBit(m, 0))
  BY DEF Downs

\* A bit that leads to something, and the way down from it.
Leads(L, level, e) ==
    \E m \in Used, d \in Child :
        e = <<m, d>> /\ LevelOf(m, L) = level /\ d \in bits[m] /\ ~Hollow(level, m, d)

LEMMA LeadsEntry ==
    ASSUME NEW L, NEW O, NEW T, Inv(L, O, T), NEW m \in Used, NEW d \in Child, d \in bits[m]
    PROVE  /\ children[m][WordOf(d)] # NULL
           /\ Entry(m, d) = <<m, d>> /\ <<m, d>> # Undefined
<1>1. m \in Node /\ WordOf(d) \in Word
  BY UsedNodes, WordAndSlot DEF Inv
<1>2. children[m][WordOf(d)] # NULL
  BY <1>1 DEF Inv, BitsOK, InWord
<1>3. d # Fanout
  BY Constants DEF Child
<1>4. <<m, d>> # Undefined
  BY <1>1, NodeAssumption
<1> QED BY <1>2, <1>3, <1>4 DEF Entry

LEMMA LeadsDown ==
    ASSUME NEW L, NEW O, NEW T, Inv(L, O, T), NoneHollow(L), pc = "idle",
           NEW level \in 0..LastLevel, level # LastLevel, NEW e, Leads(L, level, e),
           NEW m, m = ChildNode(e[1], e[2]), NEW d, d = FirstSetBit(m, 0)
    PROVE  /\ m \in Used /\ d \in Child /\ Entry(m, d) = <<m, d>>
           /\ Leads(L, level + 1, <<m, d>>)
<1>1. PICK p \in Used, c \in Child :
          e = <<p, c>> /\ LevelOf(p, L) = level /\ c \in bits[p] /\ ~Hollow(level, p, c)
  BY DEF Leads
<1>2. m = ChildNode(p, c)
  BY <1>1
<1>3. children[p][WordOf(c)] # NULL
  BY <1>1, LeadsEntry
<1>4. m \in Used /\ m # Root /\ LevelOf(m, L) = level + 1
  BY <1>1, <1>2, <1>3, ParentOfKey DEF Inv
<1>5. m \in Node /\ bits[m] \subseteq Child
  <2>1. m \in Node
    BY <1>4, UsedNodes DEF Inv
  <2> QED BY <2>1 DEF Inv, TypeOK
<1>6. bits[m] # {}
  BY <1>1, <1>2 DEF Hollow
<1>7. d \in bits[m] /\ d \in Child
  <2>1. \A c2 \in bits[m] : c2 >= 0
    BY <1>5 DEF Child
  <2> QED BY <1>5, <1>6, <2>1, FirstBit
<1>8. ~Hollow(level + 1, m, d)
  BY <1>4, <1>7 DEF NoneHollow, HollowIn, Exempt
<1>9. Entry(m, d) = <<m, d>>
  BY <1>4, <1>7, LeadsEntry
<1> QED BY <1>4, <1>7, <1>8, <1>9 DEF Leads

LEMMA LeadsAll ==
    ASSUME NEW L, NEW O, NEW T, Inv(L, O, T), NoneHollow(L), pc = "idle",
           NEW top \in 0..LastLevel, NEW n \in Used, LevelOf(n, L) = top,
           NEW c \in Child, c \in bits[n], ~Hollow(top, n, c),
           NEW down, Downs(top, n, c, down), NEW level \in top..LastLevel
    PROVE  /\ Leads(L, level, down[level])
           /\ level = top => down[level] = <<n, c>>
           /\ level # top => /\ down[level][1] = ChildNode(down[level - 1][1], down[level - 1][2])
                             /\ down[level][2] = FirstSetBit(down[level][1], 0)
<1>1. LastLevel \in Nat /\ top \in Nat /\ top \in top..LastLevel
  BY Constants
<1>2. down[top] = <<n, c>> /\ Leads(L, top, down[top])
  <2>1. down[top] = Entry(n, c)
    BY <1>1, DownStep
  <2>2. down[top] = <<n, c>>
    BY <2>1, LeadsEntry
  <2> QED BY <2>2 DEF Leads
<1>3. ASSUME NEW l \in top..LastLevel, l # top, Leads(L, l - 1, down[l - 1])
      PROVE  /\ Leads(L, l, down[l])
             /\ down[l][1] = ChildNode(down[l - 1][1], down[l - 1][2])
             /\ down[l][2] = FirstSetBit(down[l][1], 0)
  <2>1. l - 1 \in 0..LastLevel /\ l - 1 # LastLevel /\ (l - 1) + 1 = l
    BY <1>1, <1>3
  <2>2. down[l - 1] # Undefined
    <3>1. PICK p \in Used, b \in Child : down[l - 1] = <<p, b>> /\ b \in bits[p]
      BY <1>3 DEF Leads
    <3> QED BY <3>1, LeadsEntry
  <2>3. PICK m, d : m = ChildNode(down[l - 1][1], down[l - 1][2]) /\ d = FirstSetBit(m, 0)
    OBVIOUS
  <2>4. down[l] = Entry(m, d)
    BY <1>3, <2>2, <2>3, DownStep
  <2>5. Entry(m, d) = <<m, d>> /\ Leads(L, l, <<m, d>>)
    BY <1>3, <2>1, <2>3, LeadsDown
  <2> QED BY <2>3, <2>4, <2>5
<1> DEFINE Bad == {l \in top..LastLevel : ~Leads(L, l, down[l])}
<1>4. Bad = {}
  <2> SUFFICES ASSUME Bad # {} PROVE FALSE
    OBVIOUS
  <2>1. PICK l \in Bad : \A f \in Bad : l <= f
    <3>1. Bad \subseteq Nat
      BY <1>1
    <3> QED BY <3>1, LeastOfNaturals
  <2>2. l \in top..LastLevel /\ ~Leads(L, l, down[l])
    OBVIOUS
  <2>3. l # top
    BY <1>2, <2>2
  <2>4. l - 1 \in top..LastLevel /\ ~(l <= l - 1)
    BY <1>1, <2>2, <2>3
  <2>5. l - 1 \notin Bad
    <3> HIDE DEF Bad
    <3> QED BY <2>1, <2>4
  <2> QED BY <1>3, <2>2, <2>3, <2>4, <2>5
<1>5. level # top => level - 1 \in top..LastLevel
  BY <1>1
<1> QED BY <1>2, <1>3, <1>4, <1>5

\* The way down ends at the value of a key, the one with the first bit of every
\* node on its way.
LEMMA LeftmostFinds ==
    ASSUME NEW L, NEW O, NEW T, Inv(L, O, T), NoneHollow(L), pc = "idle",
           NEW top \in 0..LastLevel, NEW n \in Used, LevelOf(n, L) = top,
           NEW c \in Child, c \in bits[n], ~Hollow(top, n, c)
    PROVE  \E g \in Key :
              /\ g \in KeysOf(n, L, T) /\ KeyLevelBits(g, top) = c
              /\ treeFind(g) # 0 /\ treeFind(g) = Leftmost(top, n, c)
              /\ \A l \in 0..LastLevel : l > top => KeyLevelBits(g, l) = FirstSetBit(NodesFor(g)[l], 0)
<1>1. LastLevel \in Nat /\ top \in Nat /\ LastLevel \in top..LastLevel /\ LastLevel \in 0..LastLevel
  BY Constants
<1>2. PICK down : /\ Downs(top, n, c, down)
                  /\ Leftmost(top, n, c) = IF down[LastLevel] = Undefined THEN Undefined
                                           ELSE ValueAt(down[LastLevel][1], down[LastLevel][2])
  BY LeftmostSteps
<1>3. ASSUME NEW l \in top..LastLevel
      PROVE  /\ Leads(L, l, down[l])
             /\ l = top => down[l] = <<n, c>>
             /\ l # top => /\ down[l][1] = ChildNode(down[l - 1][1], down[l - 1][2])
                           /\ down[l][2] = FirstSetBit(down[l][1], 0)
  BY <1>2, LeadsAll
<1>4. PICK m \in Used, d \in Child :
          /\ down[LastLevel] = <<m, d>> /\ LevelOf(m, L) = LastLevel
          /\ d \in bits[m] /\ ValueAt(m, d) # 0
  BY <1>1, <1>3 DEF Leads, Hollow
<1>5. <<m, d>> # Undefined /\ children[m][WordOf(d)] # NULL
  BY <1>4, LeadsEntry
<1>6. Leftmost(top, n, c) = ValueAt(m, d)
  BY <1>2, <1>4, <1>5
<1>7. PICK g \in KeysOf(m, L, T) : KeyLevelBits(g, LastLevel) = d
  BY <1>4, <1>5 DEF Inv, BitsOK
<1>8. g \in Key
  BY <1>4, UsedNodes DEF Inv
<1>9. treeFind(g) = ValueAt(m, d) /\ treeFind(g) # 0
  <2>1. treeFind(g) = Place(g, m)
    BY <1>4, <1>7, <1>8, Finds DEF FindsAsSpecified, FindSpec, IsLeafOf
  <2> QED BY <1>4, <1>5, <1>7, <2>1 DEF Place
<1> DEFINE Through(l) == g \in KeysOf(down[l][1], L, T) /\ KeyLevelBits(g, l) = down[l][2]
           Bad == {e \in 0..(LastLevel - top) : ~Through(LastLevel - e)}
<1>10. Bad = {}
  <2> SUFFICES ASSUME Bad # {} PROVE FALSE
    OBVIOUS
  <2>1. PICK e \in Bad : \A f \in Bad : e <= f
    <3>1. Bad \subseteq Nat
      BY <1>1
    <3> QED BY <3>1, LeastOfNaturals
  <2>2. e \in 0..(LastLevel - top) /\ ~Through(LastLevel - e)
    OBVIOUS
  <2>3. e # 0
    <3>1. LastLevel - 0 = LastLevel
      BY <1>1
    <3>2. Through(LastLevel)
      BY <1>4, <1>7
    <3> QED BY <2>2, <3>1, <3>2
  <2>4. PICK i \in top..LastLevel :
            /\ i = LastLevel - (e - 1) /\ i - 1 = LastLevel - e /\ i # top
            /\ i - 1 \in top..LastLevel /\ e - 1 \in 0..(LastLevel - top) /\ ~(e <= e - 1)
            /\ i - 1 # LastLevel
    <3>1. LastLevel - (e - 1) \in top..LastLevel /\ (LastLevel - (e - 1)) - 1 = LastLevel - e
      BY <1>1, <2>2, <2>3
    <3>2. /\ LastLevel - (e - 1) # top /\ LastLevel - e \in top..LastLevel
          /\ e - 1 \in 0..(LastLevel - top) /\ ~(e <= e - 1) /\ LastLevel - e # LastLevel
      BY <1>1, <2>2, <2>3
    <3> QED BY <3>1, <3>2
  <2>5. Through(i)
    <3>1. e - 1 \notin Bad
      <4> HIDE DEF Bad
      <4> QED BY <2>1, <2>4
    <3> QED BY <2>4, <3>1
  <2>6. PICK p \in Used, b \in Child :
            down[i - 1] = <<p, b>> /\ LevelOf(p, L) = i - 1 /\ b \in bits[p]
    BY <1>3, <2>4 DEF Leads
  <2>7. down[i][1] = ChildNode(p, b)
    BY <1>3, <2>4, <2>6
  <2>8. children[p][WordOf(b)] # NULL
    BY <2>6, LeadsEntry
  <2>9. LevelOf(p, L) # LastLevel
    BY <2>4, <2>6
  <2>10. g \in KeysOf(p, L, T) /\ KeyLevelBits(g, LevelOf(p, L)) = b
    BY <2>5, <2>6, <2>7, <2>8, <2>9, ParentOfKey DEF Inv
  <2>11. Through(i - 1)
    BY <2>6, <2>10
  <2> QED BY <2>2, <2>4, <2>11
<1>11. ASSUME NEW l \in top..LastLevel PROVE Through(l)
  <2>1. LastLevel - l \in 0..(LastLevel - top) /\ LastLevel - (LastLevel - l) = l
    BY <1>1
  <2> QED BY <1>10, <2>1
<1>12. g \in KeysOf(n, L, T) /\ KeyLevelBits(g, top) = c
  <2>1. top \in top..LastLevel
    BY <1>1
  <2> QED BY <1>3, <1>11, <2>1
<1>13. ASSUME NEW l \in 0..LastLevel, l > top
       PROVE  KeyLevelBits(g, l) = FirstSetBit(NodesFor(g)[l], 0)
  <2>1. l \in top..LastLevel /\ l # top
    BY <1>1, <1>13
  <2>2. PICK p \in Used, b \in Child : down[l] = <<p, b>> /\ LevelOf(p, L) = l
    BY <1>3, <2>1 DEF Leads
  <2>3. g \in KeysOf(p, L, T) /\ KeyLevelBits(g, l) = FirstSetBit(p, 0)
    BY <1>3, <1>11, <2>1, <2>2
  <2>4. NodesFor(g)[l] # NULL
    BY <1>8, <1>9, PresentWay
  <2>5. NodesFor(g)[l] \in Used /\ LevelOf(NodesFor(g)[l], L) = l /\ g \in KeysOf(NodesFor(g)[l], L, T)
    BY <1>8, <2>4, SearchKeeps DEF Inv
  <2>6. NodesFor(g)[l] = p
    BY <2>2, <2>3, <2>5 DEF Inv, ArraysOK
  <2> QED BY <2>3, <2>6
<1> QED BY <1>6, <1>8, <1>9, <1>12, <1>13

\* A present key from k on, other than k, leaves the way of k upwards, at a level
\* from which treeFindGEQ may go on.
LEMMA LaterKeyLeaves ==
    ASSUME KeysFit, NEW L, NEW O, NEW T, Inv(L, O, T), NEW k \in Key,
           NEW j \in Key, j > k, treeFind(j) # 0
    PROVE  \E d \in 0..StopsAt(k) :
              /\ \A l \in 0..LastLevel : l < d => KeyLevelBits(j, l) = KeyLevelBits(k, l)
              /\ KeyLevelBits(j, d) \in bits[NodesFor(k)[d]]
              /\ KeyLevelBits(j, d) > KeyLevelBits(k, d)
              /\ After(NodesFor(k)[d], KeyLevelBits(k, d)) # Fanout
<1>1. LastLevel \in Nat /\ j \in Nat /\ k \in Nat
  BY Constants, DataAssumption
<1>2. PICK d \in 0..LastLevel :
          /\ KeyLevelBits(j, d) # KeyLevelBits(k, d)
          /\ \A l \in 0..LastLevel : l < d => KeyLevelBits(j, l) = KeyLevelBits(k, l)
  BY <1>1, FirstDifference
<1>3. PICK x, c, e : x = NodesFor(k)[d] /\ c = KeyLevelBits(j, d) /\ e = KeyLevelBits(k, d)
  OBVIOUS
<1>4. c \in Nat /\ e \in Nat /\ c \in Child
  BY <1>3, KeyPart DEF Child
<1>5. c > e
  <2>1. c < e => j < k
    BY <1>2, <1>3, KeyOrder
  <2> QED BY <1>1, <1>2, <1>3, <1>4, <2>1
<1>6. x # NULL /\ c \in bits[x]
  <2>1. NodesFor(j)[d] = x
    BY <1>2, <1>3, SameWay
  <2> QED BY <1>3, <2>1, PresentWay DEF HasChild
<1>7. d \in 0..StopsAt(k)
  <2>1. PICK s \in 0..LastLevel : s = StopsAt(k) /\ (s < LastLevel => NodesFor(k)[s + 1] = NULL)
    BY SearchStops
  <2>2. ~(d > s)
    <3> SUFFICES ASSUME d > s PROVE FALSE
      OBVIOUS
    <3>1. s < LastLevel /\ s + 1 \in 0..d
      BY <1>1
    <3> QED BY <1>3, <1>6, <2>1, <3>1, SearchOnWay
  <2> QED BY <1>1, <2>1, <2>2
<1>8. After(x, e) # Fanout
  <2>1. bits[x] \subseteq Child
    <3>1. x \in Used
      BY <1>3, <1>6, SearchKeeps DEF Inv
    <3>2. x \in Node
      BY <3>1, UsedNodes DEF Inv
    <3> QED BY <3>2 DEF Inv, TypeOK
  <2>2. e + 1 \in Nat /\ c >= e + 1
    BY <1>4, <1>5
  <2>3. FirstSetBit(x, e + 1) \in Child
    BY <1>6, <2>1, <2>2, FirstBit
  <2> QED BY <2>3, Constants DEF After, Child
<1> QED BY <1>2, <1>3, <1>5, <1>6, <1>7, <1>8

\* A key found by its first bits is before every other present key with its
\* parts up to there.
LEMMA FirstOfBranch ==
    ASSUME KeysFit, NEW L, NEW O, NEW T, Inv(L, O, T), NEW top \in 0..LastLevel,
           NEW g \in Key, treeFind(g) # 0,
           \A l \in 0..LastLevel : l > top => KeyLevelBits(g, l) = FirstSetBit(NodesFor(g)[l], 0),
           NEW j \in Key, treeFind(j) # 0, j # g,
           \A l \in 0..LastLevel : l <= top => KeyLevelBits(j, l) = KeyLevelBits(g, l)
    PROVE  g < j
<1>1. LastLevel \in Nat
  BY Constants
<1>2. PICK e \in 0..LastLevel :
          /\ KeyLevelBits(j, e) # KeyLevelBits(g, e)
          /\ \A l \in 0..LastLevel : l < e => KeyLevelBits(j, l) = KeyLevelBits(g, l)
  BY FirstDifference
<1>3. e > top
  BY <1>1, <1>2
<1>4. PICK x : x = NodesFor(g)[e]
  OBVIOUS
<1>5. x = NodesFor(j)[e]
  BY <1>2, <1>4, SameWay
<1>6. x # NULL /\ KeyLevelBits(j, e) \in bits[x]
  BY <1>5, PresentWay DEF HasChild
<1>7. bits[x] \subseteq Child
  <2>1. x \in Used
    BY <1>4, <1>6, SearchKeeps DEF Inv
  <2>2. x \in Node
    BY <2>1, UsedNodes DEF Inv
  <2> QED BY <2>2 DEF Inv, TypeOK
<1>8. KeyLevelBits(g, e) <= KeyLevelBits(j, e)
  <2>1. KeyLevelBits(j, e) >= 0
    BY <1>6, <1>7 DEF Child
  <2>2. FirstSetBit(x, 0) <= KeyLevelBits(j, e)
    BY <1>6, <1>7, <2>1, FirstBit
  <2> QED BY <1>3, <1>4, <2>2
<1>9. KeyLevelBits(g, e) < KeyLevelBits(j, e)
  <2>1. KeyLevelBits(g, e) \in Nat /\ KeyLevelBits(j, e) \in Nat
    BY KeyPart DEF Child
  <2> QED BY <1>2, <1>8, <2>1
<1> QED BY <1>2, <1>9, KeyOrder

\* The value of the least present key from k on.
LEMMA LeastPresent ==
    ASSUME NEW d, d = [j \in Key |-> treeFind(j)], NEW k \in Key,
           NEW g \in Key, g >= k, treeFind(g) # 0,
           \A j \in Key : j >= k /\ treeFind(j) # 0 => g <= j
    PROVE  Map!ValueAtOrAfter(d, k) = treeFind(g)
<1> DEFINE present == {j \in Key : j >= k /\ d[j] # 0}
<1>1. present = {j \in Key : j >= k /\ treeFind(j) # 0}
  OBVIOUS
<1>2. Key \subseteq Nat
  BY DataAssumption
<1>3. g \in present /\ \A j \in present : g <= j
  BY <1>1
<1>4. Map!ValueAtOrAfter(d, k) =
         IF present = {} THEN 0 ELSE d[CHOOSE j \in present : \A i \in present : j <= i]
  BY DEF Map!ValueAtOrAfter, Map!NoValue
<1>5. present \subseteq Nat
  BY <1>2
<1> HIDE DEF present
<1>6. (CHOOSE j \in present : \A i \in present : j <= i) = g
  <2>1. \A j \in present : (\A i \in present : j <= i) => j = g
    BY <1>3, <1>5
  <2> QED BY <1>3, <2>1
<1>7. d[g] = treeFind(g)
  OBVIOUS
<1> QED BY <1>3, <1>4, <1>6, <1>7

\* Root bits after the key's part lead to something.
Solid(k) == \A c \in bits[Root] : c > KeyLevelBits(k, 0) => ~Hollow(0, Root, c)

\* The first half of treeFindGEQ, where the key is not found: from the last level
\* on the key's way that has a bit after the key's.
LEMMA TurnFinds ==
    ASSUME KeysFit, NEW L, NEW O, NEW T, Inv(L, O, T), NoneHollow(L), pc = "idle",
           NEW k \in Key, Solid(k), treeFind(k) = 0,
           NEW turn \in 0..StopsAt(k),
           After(NodesFor(k)[turn], KeyLevelBits(k, turn)) # Fanout,
           \A l \in 0..StopsAt(k) :
              After(NodesFor(k)[l], KeyLevelBits(k, l)) # Fanout => l <= turn
    PROVE  Leftmost(turn, NodesFor(k)[turn], After(NodesFor(k)[turn], KeyLevelBits(k, turn)))
               = Map!ValueAtOrAfter([j \in Key |-> treeFind(j)], k)
<1>1. LastLevel \in Nat /\ turn \in 0..LastLevel /\ StopsAt(k) \in 0..LastLevel
  BY Constants, SearchStops
<1>2. PICK x, e, c : x = NodesFor(k)[turn] /\ e = KeyLevelBits(k, turn) /\ c = After(x, e)
  OBVIOUS
<1>3. x # NULL
  BY <1>1, <1>2, SearchStops, SearchOnWay
<1>4. x \in Used /\ LevelOf(x, L) = turn /\ k \in KeysOf(x, L, T)
  BY <1>1, <1>2, <1>3, SearchKeeps DEF Inv
<1>5. bits[x] \subseteq Child
  <2>1. x \in Node
    BY <1>4, UsedNodes DEF Inv
  <2> QED BY <2>1 DEF Inv, TypeOK
<1>6. e \in Nat /\ e + 1 \in Nat
  BY <1>1, <1>2, KeyPart DEF Child
<1>7. /\ c \in bits[x] /\ c \in Child /\ c > e
      /\ \A b \in bits[x] : b > e => c <= b
  <2>1. c = FirstSetBit(x, e + 1) /\ c # Fanout
    BY <1>2 DEF After
  <2>2. \E b \in bits[x] : b >= e + 1
    BY <1>5, <1>6, <2>1, FirstBit
  <2>3. c \in bits[x] /\ c >= e + 1 /\ \A b \in bits[x] : b >= e + 1 => c <= b
    BY <1>5, <1>6, <2>1, <2>2, FirstBit
  <2>4. \A b \in Child : b > e => b >= e + 1
    BY <1>6 DEF Child
  <2>5. c \in Child /\ c \in Nat
    BY <1>5, <2>3 DEF Child
  <2>6. \A b \in bits[x] : b > e => c <= b
    BY <1>5, <2>3, <2>4
  <2>7. c > e
    BY <1>6, <2>3, <2>5
  <2> QED BY <2>3, <2>5, <2>6, <2>7
<1>8. ~Hollow(turn, x, c)
  <2>1. CASE x = Root
    <3>1. turn = 0
      BY <1>4, <2>1 DEF LevelOf
    <3> QED BY <1>2, <1>7, <2>1, <3>1 DEF Solid
  <2>2. CASE x # Root
    BY <1>4, <1>7, <2>2 DEF NoneHollow, HollowIn, Exempt
  <2> QED BY <2>1, <2>2
<1>9. PICK g \in Key :
          /\ g \in KeysOf(x, L, T) /\ KeyLevelBits(g, turn) = c
          /\ treeFind(g) # 0 /\ treeFind(g) = Leftmost(turn, x, c)
          /\ \A l \in 0..LastLevel : l > turn => KeyLevelBits(g, l) = FirstSetBit(NodesFor(g)[l], 0)
  BY <1>1, <1>4, <1>7, <1>8, LeftmostFinds
<1>10. \A l \in 0..LastLevel : l < turn => KeyLevelBits(g, l) = KeyLevelBits(k, l)
  <2>1. TypeOK /\ ArraysOK(L, O, T)
    BY DEF Inv
  <2> QED BY <1>1, <1>4, <1>9, <2>1, SameAbove
<1>11. g > k
  <2>1. KeyLevelBits(k, turn) < KeyLevelBits(g, turn)
    BY <1>2, <1>6, <1>7, <1>9 DEF Child
  <2>2. k < g
    BY <1>1, <1>10, <2>1, KeyOrder
  <2> QED BY <2>2, DataAssumption
<1>12. ASSUME NEW j \in Key, j >= k, treeFind(j) # 0 PROVE g <= j
  <2>0. j \in Nat /\ g \in Nat /\ k \in Nat
    BY DataAssumption
  <2>1. j > k
    BY <1>12, <2>0
  <2>2. PICK d \in 0..StopsAt(k) :
            /\ \A l \in 0..LastLevel : l < d => KeyLevelBits(j, l) = KeyLevelBits(k, l)
            /\ KeyLevelBits(j, d) \in bits[NodesFor(k)[d]]
            /\ KeyLevelBits(j, d) > KeyLevelBits(k, d)
            /\ After(NodesFor(k)[d], KeyLevelBits(k, d)) # Fanout
    BY <1>12, <2>1, LaterKeyLeaves
  <2>3. d <= turn /\ d \in 0..LastLevel
    BY <1>1, <2>2
  <2>4. KeyLevelBits(j, d) \in Nat /\ KeyLevelBits(k, d) \in Nat /\ KeyLevelBits(g, d) \in Nat
    BY <2>3, KeyPart DEF Child
  <2>5. CASE d < turn
    <3>1. KeyLevelBits(g, d) = KeyLevelBits(k, d)
      BY <1>10, <2>3, <2>5
    <3>2. \A l \in 0..LastLevel : l < d => KeyLevelBits(g, l) = KeyLevelBits(j, l)
      BY <1>1, <1>10, <2>2, <2>5
    <3>3. KeyLevelBits(g, d) < KeyLevelBits(j, d)
      BY <2>2, <2>4, <3>1
    <3>4. g < j
      BY <2>3, <3>2, <3>3, KeyOrder
    <3> QED BY <2>0, <3>4
  <2>6. CASE d = turn
    <3>1. c <= KeyLevelBits(j, turn)
      BY <1>2, <1>7, <2>2, <2>6
    <3>2. \A l \in 0..LastLevel : l < turn => KeyLevelBits(g, l) = KeyLevelBits(j, l)
      BY <1>10, <2>2, <2>6
    <3>3. CASE c = KeyLevelBits(j, turn)
      <4>1. \A l \in 0..LastLevel : l <= turn => KeyLevelBits(j, l) = KeyLevelBits(g, l)
        BY <1>1, <1>9, <3>2, <3>3
      <4>2. j # g => g < j
        BY <1>1, <1>9, <1>12, <4>1, FirstOfBranch
      <4> QED BY <2>0, <4>2
    <3>4. CASE c # KeyLevelBits(j, turn)
      <4>1. KeyLevelBits(g, turn) < KeyLevelBits(j, turn)
        BY <1>9, <2>4, <2>6, <3>1, <3>4
      <4>2. g < j
        BY <1>1, <3>2, <4>1, KeyOrder
      <4> QED BY <2>0, <4>2
    <3> QED BY <3>3, <3>4
  <2> QED BY <1>1, <2>3, <2>5, <2>6
<1>13. g >= k
  BY <1>11, DataAssumption
<1> QED BY <1>2, <1>9, <1>12, <1>13, LeastPresent

\* treeFindGEQ finds the least key.
LEMMA GEQFinds ==
    ASSUME KeysFit, LastLevel > 0, NEW L, NEW O, NEW T, Inv(L, O, T), NoneHollow(L), pc = "idle",
           NEW k \in Key, Solid(k)
    PROVE  treeFindGEQ(k) = Map!ValueAtOrAfter([j \in Key |-> treeFind(j)], k)
<1>1. LastLevel \in Nat /\ k \in Nat
  BY Constants, DataAssumption
<1>2. PICK s \in 0..LastLevel :
          s = StopsAt(k) /\ NodesFor(k)[s] # NULL /\ (s < LastLevel => NodesFor(k)[s + 1] = NULL)
  BY SearchStops
<1>3. PICK x, e : x = NodesFor(k)[s] /\ e = KeyLevelBits(k, s)
  OBVIOUS
<1>4. x \in Used /\ LevelOf(x, L) = s /\ k \in KeysOf(x, L, T) /\ e \in Child
  BY <1>2, <1>3, SearchKeeps, KeyPart DEF Inv
<1> DEFINE next(level) == After(NodesFor(k)[level], KeyLevelBits(k, level))
           up == {level \in 0..s : next(level) # Fanout}
           turn == CHOOSE level \in up : \A l \in up : l <= level
<1>5. treeFindGEQ(k) = IF numLevels = 0 THEN 0
                       ELSE IF e \in bits[x] THEN treeFind(k)
                       ELSE IF up = {} THEN 0
                       ELSE Leftmost(turn, NodesFor(k)[turn], next(turn))
  BY <1>2, <1>3 DEF treeFindGEQ
<1>6. ASSUME \A j \in Key : j >= k => treeFind(j) = 0
      PROVE  Map!ValueAtOrAfter([j \in Key |-> treeFind(j)], k) = 0
  <2>1. {j \in Key : j >= k /\ [i \in Key |-> treeFind(i)][j] # 0} = {}
    BY <1>6
  <2> QED BY <2>1 DEF Map!ValueAtOrAfter, Map!NoValue
<1>7. CASE numLevels = 0
  <2>1. \A j \in Key : treeFind(j) = 0
    BY <1>7 DEF treeFind
  <2> QED BY <1>5, <1>6, <1>7, <2>1
<1>8. CASE numLevels # 0 /\ e \in bits[x]
  <2>1. children[x][WordOf(e)] # NULL
    BY <1>4, <1>8, LeadsEntry
  <2>2. s = LastLevel
    <3> SUFFICES ASSUME s # LastLevel PROVE FALSE
      OBVIOUS
    <3>1. NodesFor(k)[s + 1] = NULL /\ s + 1 \in 0..LastLevel /\ s + 1 # 0 /\ (s + 1) - 1 = s
      BY <1>1, <1>2
    <3>2. NodesFor(k)[s + 1] = ChildNode(x, e)
      BY <1>2, <1>3, <1>8, <2>1, <3>1, SearchStep DEF HasChild
    <3>3. ChildNode(x, e) \in Used
      BY <1>4, <2>1, ParentOfKey DEF Inv
    <3>4. ChildNode(x, e) \in Node
      BY <3>3, UsedNodes DEF Inv
    <3> QED BY <3>1, <3>2, <3>4, Constants
  <2>3. x # Root
    BY <1>4, <2>2 DEF LevelOf
  <2>4. ValueAt(x, e) # 0
    BY <1>4, <1>8, <2>2, <2>3 DEF NoneHollow, HollowIn, Exempt, Hollow
  <2>5. treeFind(k) = Place(k, x)
    BY <1>4, <2>2, Finds DEF FindsAsSpecified, FindSpec, IsLeafOf
  <2>6. treeFind(k) # 0
    BY <1>3, <2>1, <2>2, <2>4, <2>5 DEF Place
  <2>7. Map!ValueAtOrAfter([j \in Key |-> treeFind(j)], k) = treeFind(k)
    <3>1. k >= k /\ \A j \in Key : j >= k /\ treeFind(j) # 0 => k <= j
      BY <1>1, DataAssumption
    <3> QED BY <2>6, <3>1, LeastPresent
  <2> QED BY <1>5, <1>8, <2>7
<1>9. CASE numLevels # 0 /\ e \notin bits[x]
  <2>1. treeFind(k) = 0
    <3> SUFFICES ASSUME treeFind(k) # 0 PROVE FALSE
      OBVIOUS
    <3>1. HasChild(x, e)
      BY <1>2, <1>3, PresentWay
    <3> QED BY <1>9, <3>1 DEF HasChild
  <2>2. CASE up = {}
    <3>1. ASSUME NEW j \in Key, j >= k PROVE treeFind(j) = 0
      <4> SUFFICES ASSUME treeFind(j) # 0 PROVE FALSE
        OBVIOUS
      <4>1. j > k
        BY <1>1, <2>1, <3>1, DataAssumption
      <4>2. PICK d \in 0..s : next(d) # Fanout
        BY <1>2, <4>1, LaterKeyLeaves
      <4> QED BY <2>2, <4>2
    <3> QED BY <1>5, <1>6, <1>9, <2>2, <3>1
  <2>3. CASE up # {}
    <3>1. \E t \in up : \A l \in up : l <= t
      <4> DEFINE Dist == {d \in 0..s : s - d \in up}
      <4>1. Dist # {}
        <5>1. PICK l \in 0..s : l \in up
          BY <2>3
        <5>2. s - l \in 0..s /\ s - (s - l) = l
          BY <1>1
        <5> QED BY <5>1, <5>2
      <4>2. Dist \subseteq Nat
        BY <1>1
      <4>3. PICK d \in Dist : \A f \in Dist : d <= f
        <5> HIDE DEF Dist
        <5> QED BY <4>1, <4>2, LeastOfNaturals
      <4>4. d \in 0..s /\ s - d \in up
        OBVIOUS
      <4>5. ASSUME NEW l \in up PROVE l <= s - d
        <5>1. l \in 0..s /\ s - l \in 0..s /\ s - (s - l) = l
          BY <1>1
        <5>2. s - l \in Dist
          BY <5>1
        <5>3. d <= s - l
          <6> HIDE DEF Dist
          <6> QED BY <4>3, <5>2
        <5> QED BY <1>1, <4>4, <5>1, <5>3
      <4> QED BY <4>4, <4>5
    <3>2. turn \in up /\ \A l \in up : l <= turn
      <4> HIDE DEF up
      <4> QED BY <3>1
    <3>3. /\ turn \in 0..StopsAt(k) /\ next(turn) # Fanout
          /\ \A l \in 0..StopsAt(k) : next(l) # Fanout => l <= turn
      <4> HIDE DEF turn, next
      <4> QED BY <1>2, <3>2
    <3>4. Leftmost(turn, NodesFor(k)[turn], next(turn)) = Map!ValueAtOrAfter([j \in Key |-> treeFind(j)], k)
      <4> HIDE DEF turn
      <4> QED BY <2>1, <3>3, TurnFinds
    <3> HIDE DEF turn, up, next
    <3> QED BY <1>5, <1>9, <2>3, <3>4
  <2> QED BY <2>2, <2>3
<1> QED BY <1>7, <1>8, <1>9

\* As long as every allocation has succeeded, treeFindGEQ returns the value of the
\* least key from the one asked for on, if no root bit after that one's is
\* hollow.  With one level the root is a leaf node as well, and its own bit may
\* be hollow: the theorem is about trees of two levels and more.
THEOREM GEQIsExact == KeysFit /\ LastLevel > 0 => (HistorySpec => []GEQExactUnlessFailed)
<1> SUFFICES ASSUME KeysFit, LastLevel > 0 PROVE HistorySpec => []GEQExactUnlessFailed
  OBVIOUS
<1>1. HistoryInv => GEQExactUnlessFailed
  <2> SUFFICES ASSUME HistoryInv, ~failed, pc = "idle", NEW k \in Key,
                      \A c \in bits[Root] : c > KeyLevelBits(k, 0) => ~Hollow(0, Root, c)
               PROVE  treeFindGEQ(k) = Map!ValueAtOrAfter([j \in Key |-> treeFind(j)], k)
    BY DEF GEQExactUnlessFailed, GEQExactUnlessHollow
  <2>1. PICK L, O, T : Inv(L, O, T) /\ NoneHollow(L)
    BY DEF HistoryInv
  <2> QED BY <2>1, GEQFinds DEF Solid
<1> QED BY <1>1, HistoryInvariance, PTL
=============================================================================
