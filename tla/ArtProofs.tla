------------------------------- MODULE ArtProofs -------------------------------
(***************************************************************************)
(* Proofs about Art and ArtOrder, for all sizes of the layouts, keys and   *)
(* values.                                                                 *)
(*                                                                         *)
(* A tree is a set of subtrees, each with its place, which is the bytes    *)
(* that its keys begin with, the places of all below it, and its entries;  *)
(* each is a leaf, or has children at places behind its own.  The          *)
(* invariant is that the root is such a tree, with as many entries as the  *)
(* size counts and as many places as blocks are allocated.  It follows,    *)
(* one way down after the other, where a call ends and what it makes of    *)
(* the tree there, and that destroy_node comes to each place once.         *)
(*                                                                         *)
(* Last the order.  As long as no inserted key has had a high byte, every  *)
(* node has its keys in rising order, whatever has grown, shrunk, split or *)
(* merged; then the places are visited in their order, and the ways to the *)
(* first and the last leaf end at the least key and the greatest.          *)
(***************************************************************************)
EXTENDS ArtOrder, ArtNodeProofs, SequenceTheorems

-----------------------------------------------------------------------------
(* Sequences of bytes.                                                      *)

\* The lesser of two numbers.
LEMMA MinOf ==
    ASSUME NEW a \in Nat, NEW b \in Nat
    PROVE  /\ min(a, b) \in Nat /\ min(a, b) <= a /\ min(a, b) <= b
           /\ min(a, b) = a \/ min(a, b) = b
  BY DEF min

\* The part of a sequence from one place to another.
LEMMA PartOf ==
    ASSUME NEW s \in Seq(Byte), NEW i \in Nat, NEW j \in Nat, j <= Len(s)
    PROVE  /\ SubSeq(s, i + 1, j) \in Seq(Byte)
           /\ Len(SubSeq(s, i + 1, j)) = IF i <= j THEN j - i ELSE 0
           /\ \A x \in 1..(j - i) : SubSeq(s, i + 1, j)[x] = s[i + x]
<1>1. i + 1 \in Nat \ {0}
  OBVIOUS
<1>2. SubSeq(s, i + 1, j) = [x \in 1..(j - (i + 1) + 1) |-> s[(i + 1) + x - 1]]
  OBVIOUS
<1>3. j - (i + 1) + 1 = j - i
  OBVIOUS
<1>4. CASE i <= j
  BY <1>2, <1>3, <1>4
<1>5. CASE ~(i <= j)
  BY <1>2, <1>3, <1>5
<1> QED BY <1>4, <1>5

\* Sequences of bytes are the same when they have the same bytes.
LEMMA SameSeq ==
    ASSUME NEW s \in Seq(Byte), NEW t \in Seq(Byte), Len(s) = Len(t),
           \A i \in 1..Len(s) : s[i] = t[i]
    PROVE  s = t
  OBVIOUS

\* The beginning of a sequence, byte by byte.
LEMMA BeginsIf ==
    ASSUME NEW s \in Seq(Byte), NEW t \in Seq(Byte)
    PROVE  Begins(s, t) <=> Len(t) <= Len(s) /\ \A i \in 1..Len(t) : s[i] = t[i]
<1> DEFINE u == SubSeq(s, 1, Len(t))
<1>1. ASSUME Len(t) <= Len(s)
      PROVE  u \in Seq(Byte) /\ Len(u) = Len(t) /\ \A i \in 1..Len(t) : u[i] = s[i]
  <2>1. Len(t) \in Nat /\ Len(t) - 0 = Len(t) /\ 0 + 1 = 1
    OBVIOUS
  <2>2. \A x \in 1..Len(t) : 0 + x = x
    OBVIOUS
  <2> QED BY <1>1, <2>1, <2>2, PartOf
<1> HIDE DEF u
<1>2. ASSUME Len(t) <= Len(s), \A i \in 1..Len(t) : s[i] = t[i]
      PROVE  u = t
  BY <1>1, <1>2, SameSeq
<1> QED BY <1>1, <1>2 DEF Begins, u

\* A sequence begins with itself, and with nothing.
LEMMA BeginsSelf ==
    ASSUME NEW s \in Seq(Byte)
    PROVE  Begins(s, s) /\ Begins(s, <<>>)
<1>0. <<>> \in Seq(Byte)
  OBVIOUS
<1>a. Len(<<>>) = 0
  OBVIOUS
<1>1. PICK e \in Seq(Byte) : e = <<>> /\ Len(e) = 0
  BY <1>0, <1>a, Zenon
<1>2. Begins(s, e)
  <2>1. Len(e) <= Len(s) /\ \A i \in 1..Len(e) : s[i] = e[i]
    BY <1>1
  <2> QED BY <2>1, BeginsIf
<1>3. Begins(s, s)
  <2>1. Len(s) <= Len(s)
    OBVIOUS
  <2> QED BY <2>1, BeginsIf
<1> QED BY <1>1, <1>2, <1>3

\* What a sequence begins with begins with what that begins with.
LEMMA BeginsOn ==
    ASSUME NEW s \in Seq(Byte), NEW t \in Seq(Byte), NEW u \in Seq(Byte),
           Begins(s, t), Begins(t, u)
    PROVE  Begins(s, u)
<1>1. /\ Len(t) <= Len(s) /\ \A i \in 1..Len(t) : s[i] = t[i]
      /\ Len(u) <= Len(t) /\ \A i \in 1..Len(u) : t[i] = u[i]
  BY BeginsIf
<1>2. Len(u) <= Len(s) /\ \A i \in 1..Len(u) : s[i] = u[i]
  BY <1>1
<1> QED BY <1>2, BeginsIf

\* Of two beginnings of a sequence the longer one begins with the shorter.
LEMMA BeginsBoth ==
    ASSUME NEW s \in Seq(Byte), NEW t \in Seq(Byte), NEW u \in Seq(Byte),
           Begins(s, t), Begins(s, u), Len(t) <= Len(u)
    PROVE  Begins(u, t)
<1>1. /\ \A i \in 1..Len(t) : s[i] = t[i]
      /\ \A i \in 1..Len(u) : s[i] = u[i]
  BY BeginsIf
<1>2. \A i \in 1..Len(t) : u[i] = t[i]
  BY <1>1
<1> QED BY <1>2, BeginsIf

\* A sequence with a byte behind it.
LEMMA Appended ==
    ASSUME NEW t \in Seq(Byte), NEW b \in Byte
    PROVE  /\ Append(t, b) \in Seq(Byte) /\ Len(Append(t, b)) = Len(t) + 1
           /\ \A i \in 1..Len(t) : Append(t, b)[i] = t[i]
           /\ Append(t, b)[Len(t) + 1] = b
           /\ Len(t) \in Nat
  OBVIOUS

\* A sequence begins with another and a byte behind it.
LEMMA BeginsMore ==
    ASSUME NEW s \in Seq(Byte), NEW t \in Seq(Byte), NEW b \in Byte
    PROVE  Begins(s, Append(t, b)) <=> Begins(s, t) /\ Len(t) < Len(s) /\ s[Len(t) + 1] = b
<1> DEFINE u == Append(t, b)
<1>1. /\ u \in Seq(Byte) /\ Len(u) = Len(t) + 1
      /\ \A i \in 1..Len(t) : u[i] = t[i] /\ u[Len(t) + 1] = b
      /\ u[Len(t) + 1] = b /\ Len(t) \in Nat /\ Len(s) \in Nat
  BY Appended
<1> HIDE DEF u
<1>2. Begins(s, u) <=> Len(u) <= Len(s) /\ \A i \in 1..Len(u) : s[i] = u[i]
  BY <1>1, BeginsIf
<1>3. Begins(s, t) <=> Len(t) <= Len(s) /\ \A i \in 1..Len(t) : s[i] = t[i]
  BY BeginsIf
<1>4. ASSUME Begins(s, u) PROVE Begins(s, t) /\ Len(t) < Len(s) /\ s[Len(t) + 1] = b
  <2>1. Len(t) + 1 \in 1..Len(u)
    BY <1>1
  <2>2. \A i \in 1..Len(t) : i \in 1..Len(u)
    BY <1>1
  <2> QED BY <1>1, <1>2, <1>3, <1>4, <2>1, <2>2
<1>5. ASSUME Begins(s, t), Len(t) < Len(s), s[Len(t) + 1] = b PROVE Begins(s, u)
  <2>1. \A i \in 1..Len(u) : i \in 1..Len(t) \/ i = Len(t) + 1
    BY <1>1
  <2> QED BY <1>1, <1>2, <1>3, <1>5, <2>1
<1> QED BY <1>4, <1>5 DEF u

\* The bytes from a depth on.
LEMMA FromIf ==
    ASSUME NEW s \in Seq(Byte), NEW d \in Nat
    PROVE  /\ From(s, d) \in Seq(Byte)
           /\ d <= Len(s) => /\ Len(From(s, d)) = Len(s) - d
                             /\ \A i \in 1..(Len(s) - d) : From(s, d)[i] = s[d + i]
           /\ d > Len(s) => Len(From(s, d)) = 0
<1>1. Len(s) \in Nat /\ Len(s) <= Len(s)
  OBVIOUS
<1> QED BY <1>1, PartOf DEF From

\* The bytes of a sequence behind a beginning of it.
LEMMA FromBack ==
    ASSUME NEW s \in Seq(Byte), NEW d \in Nat, d <= Len(s)
    PROVE  \E q \in Seq(Byte) : /\ q = From(s, d) /\ Len(q) = Len(s) - d /\ Len(q) \in Nat
                                /\ \A i \in 1..Len(q) : q[i] = s[d + i]
<1> DEFINE q == From(s, d)
<1>1. q \in Seq(Byte) /\ Len(q) = Len(s) - d /\ \A i \in 1..(Len(s) - d) : q[i] = s[d + i]
  BY FromIf
<1> HIDE DEF q
<1>2. Len(q) \in Nat
  BY <1>1
<1> QED BY <1>1, <1>2 DEF q

\* How many bytes two sequences share.
LEMMA AgreeIf ==
    ASSUME NEW s \in Seq(Byte), NEW t \in Seq(Byte)
    PROVE  /\ Agree(s, t) \in Nat /\ Agree(s, t) <= Len(s) /\ Agree(s, t) <= Len(t)
           /\ \A i \in 1..Agree(s, t) : s[i] = t[i]
           /\ Agree(s, t) < Len(s) /\ Agree(s, t) < Len(t) =>
                  s[Agree(s, t) + 1] # t[Agree(s, t) + 1]
<1> DEFINE m == min(Len(s), Len(t))
           differ == {i \in 1..m : s[i] # t[i]}
<1>1. m \in Nat /\ m <= Len(s) /\ m <= Len(t) /\ (m = Len(s) \/ m = Len(t))
  <2>1. Len(s) \in Nat /\ Len(t) \in Nat
    OBVIOUS
  <2> HIDE DEF m
  <2> QED BY <2>1, MinOf DEF m
<1> HIDE DEF m
<1>2. Agree(s, t) = IF differ = {} THEN m ELSE Least(differ) - 1
  BY DEF Agree, m
<1>3. CASE differ = {}
  BY <1>1, <1>2, <1>3
<1>4. CASE differ # {}
  <2>1. differ \in SUBSET Nat
    BY <1>1
  <2>2. Least(differ) \in differ /\ \A y \in differ : Least(differ) <= y
    <3> HIDE DEF differ
    <3> QED BY <1>4, <2>1, LeastIn
  <2>3. PICK x \in 1..m : x = Least(differ)
    BY <2>2
  <2>4. s[x] # t[x] /\ \A i \in 1..m : s[i] # t[i] => x <= i
    BY <2>2, <2>3
  <2>5. Agree(s, t) = x - 1
    BY <1>2, <1>4, <2>3
  <2> QED BY <1>1, <2>4, <2>5
<1> QED BY <1>3, <1>4

\* The stored bytes of a prefix.
LEMMA StoredIf ==
    ASSUME NEW q \in Seq(Byte)
    PROVE  /\ Stored(q) \in Seq(Byte) /\ Len(Stored(q)) = min(MAX_PREFIX_LEN, Len(q))
           /\ \A i \in 1..Len(Stored(q)) : Stored(q)[i] = q[i]
           /\ Len(q) <= MAX_PREFIX_LEN => Stored(q) = q
<1>1. MAX_PREFIX_LEN \in Nat /\ Len(q) \in Nat
  BY KeysAssumption
<1> DEFINE m == min(MAX_PREFIX_LEN, Len(q))
<1>2. m \in Nat /\ m <= Len(q) /\ (Len(q) <= MAX_PREFIX_LEN => m = Len(q))
  BY <1>1 DEF min
<1> HIDE DEF m
<1>3. Stored(q) = SubSeq(q, 0 + 1, m)
  BY DEF Stored, m
<1>4. /\ Stored(q) \in Seq(Byte) /\ Len(Stored(q)) = m
      /\ \A i \in 1..m : Stored(q)[i] = q[i]
  <2>1. m - 0 = m /\ \A x \in 1..m : 0 + x = x
    BY <1>2
  <2> QED BY <1>2, <1>3, <2>1, PartOf
<1>5. Len(q) <= MAX_PREFIX_LEN => Stored(q) = q
  BY <1>2, <1>4, SameSeq
<1> QED BY <1>4, <1>5 DEF m

-----------------------------------------------------------------------------
(* Subtrees.  A subtree hangs at a place: the bytes on the way to it.  It   *)
(* has the places of its nodes and the entries of its leaves.               *)

\* A key with its value, and a subtree as a record.
EntryOf(k, v) == [key |-> k, value |-> v]

Sub(node, place, places, entries) ==
    [node |-> node, place |-> place, places |-> places, entries |-> entries]

\* Every place has an entry of its own: a leaf its own one, an inner node one that none
\* below it has.  One is left over.
Pairing(d, e, h) ==
    /\ e \in d.entries
    /\ h \in [d.places -> d.entries \X {0, 1}]
    /\ \A p, q \in d.places : h[p] = h[q] => p = q
    /\ \A p \in d.places : h[p] # <<e, 1>>

\* The places and the keys begin with the place of the subtree, and no key is twice.
Sound(d) ==
    /\ d.place \in d.places /\ d.place \in Seq(Byte)
    /\ \A p \in d.places : p \in Seq(Byte) /\ Begins(p, d.place)
    /\ \A e \in d.entries : /\ e.key \in Key /\ e.value \in ValuesOf[e.key]
                            /\ e = EntryOf(e.key, e.value) /\ Begins(e.key, d.place)
    /\ \A e, f \in d.entries : e.key = f.key => e = f
    /\ \E e, h : Pairing(d, e, h)

\* A leaf.
LeafSub(d, k, v) ==
    /\ k \in Key /\ v \in ValuesOf[k]
    /\ d.node = make_leaf(k, v) /\ Begins(k, d.place)
    /\ d.places = {d.place} /\ d.entries = {EntryOf(k, v)}

\* The stem is the place and the prefix behind it, and the child of a byte hangs at the
\* stem with the byte.
InnerSub(d, stem, child) ==
    /\ Fits(d.node)
    /\ stem \in Seq(Byte) /\ Begins(stem, d.place)
    /\ d.node.partial_len = Len(stem) - Len(d.place)
    /\ d.node.partial = Stored(From(stem, Len(d.place)))
    /\ \A b \in Present(d.node) : /\ child[b].node = find_child(d.node, b)
                                  /\ child[b].place = Append(stem, b)
    /\ d.places = {d.place} \union UNION {child[b].places : b \in Present(d.node)}
    /\ d.entries = UNION {child[b].entries : b \in Present(d.node)}

\* A set of subtrees with those below them.
Whole(D) ==
    \A d \in D :
        /\ Sound(d)
        /\ \/ \E k, v : LeafSub(d, k, v)
           \/ \E stem, child : /\ InnerSub(d, stem, child)
                               /\ \A b \in Present(d.node) : child[b] \in D

\* A subtree, with all below it.
Tree(d) == \E D : d \in D /\ Whole(D)

\* The children of a subtree.
Children(d, stem, child) == InnerSub(d, stem, child) /\ \A b \in Present(d.node) : Tree(child[b])

\* What is assumed of the keys and values.
LEMMA KeysAre ==
    /\ Key \subseteq Seq(Byte) /\ Prefix \subseteq Seq(Byte) /\ IsFiniteSet(Key)
    /\ \A j, k \in Key : Begins(k, j) => j = k
    /\ Behind \subseteq Byte /\ NoValue \notin Value /\ MAX_PREFIX_LEN \in Nat
    /\ \A k \in Key : ValuesOf[k] \subseteq Value
  BY KeysAssumption

\* A subtree is a leaf or has subtrees as children.
LEMMA TreeIs ==
    ASSUME NEW d, Tree(d)
    PROVE  /\ Sound(d)
           /\ \/ \E k, v : LeafSub(d, k, v)
              \/ \E stem, child : Children(d, stem, child)
<1>1. PICK D : d \in D /\ Whole(D)
  BY DEF Tree
<1>2. \A x \in D : Tree(x)
  BY <1>1 DEF Tree
<1>3. /\ Sound(d)
      /\ \/ \E k, v : LeafSub(d, k, v)
         \/ \E stem, child : /\ InnerSub(d, stem, child)
                             /\ \A b \in Present(d.node) : child[b] \in D
  BY <1>1 DEF Whole
<1> QED BY <1>2, <1>3 DEF Children

\* What is sound and a leaf, or has subtrees as children, is a subtree.
LEMMA TreeIf ==
    ASSUME NEW d, Sound(d),
           \/ \E k, v : LeafSub(d, k, v)
           \/ \E stem, child : Children(d, stem, child)
    PROVE  Tree(d)
<1>1. CASE \E k, v : LeafSub(d, k, v)
  <2>1. Whole({d})
    BY <1>1 DEF Whole
  <2> QED BY <2>1 DEF Tree
<1>2. CASE \E stem, child : Children(d, stem, child)
  <2>1. PICK stem, child : Children(d, stem, child)
    BY <1>2
  <2> DEFINE Of(b) == CHOOSE D : child[b] \in D /\ Whole(D)
             All == {d} \union UNION {Of(b) : b \in Present(d.node)}
  <2>2. \A b \in Present(d.node) : child[b] \in Of(b) /\ Whole(Of(b))
    BY <2>1 DEF Tree, Children
  <2> HIDE DEF Of
  <2>3. Whole(All)
    <3> SUFFICES ASSUME NEW x \in All
                 PROVE  /\ Sound(x)
                        /\ \/ \E k, v : LeafSub(x, k, v)
                           \/ \E st, ch : /\ InnerSub(x, st, ch)
                                          /\ \A b \in Present(x.node) : ch[b] \in All
      BY DEF Whole
    <3>1. CASE x = d
      <4>1. \A b \in Present(d.node) : child[b] \in All
        BY <2>2
      <4>2. InnerSub(d, stem, child)
        BY <2>1 DEF Children
      <4> HIDE DEF All
      <4> QED BY <3>1, <4>1, <4>2
    <3>2. CASE \E b \in Present(d.node) : x \in Of(b)
      <4>1. PICK b \in Present(d.node) : x \in Of(b)
        BY <3>2
      <4>2. Of(b) \subseteq All
        OBVIOUS
      <4>3. /\ Sound(x)
            /\ \/ \E k, v : LeafSub(x, k, v)
               \/ \E st, ch : /\ InnerSub(x, st, ch)
                              /\ \A a \in Present(x.node) : ch[a] \in Of(b)
        BY <2>2, <4>1 DEF Whole
      <4> HIDE DEF All
      <4> QED BY <4>2, <4>3
    <3> QED BY <3>1, <3>2
  <2>4. d \in All
    OBVIOUS
  <2> HIDE DEF All
  <2> QED BY <2>3, <2>4 DEF Tree
<1> QED BY <1>1, <1>2

\* A leaf at a place that its key begins with.
LEMMA LeafTree ==
    ASSUME NEW k \in Key, NEW v \in ValuesOf[k], NEW p \in Seq(Byte), Begins(k, p)
    PROVE  Tree(Sub(make_leaf(k, v), p, {p}, {EntryOf(k, v)}))
<1> DEFINE d == Sub(make_leaf(k, v), p, {p}, {EntryOf(k, v)})
           e == EntryOf(k, v)
           h == [q \in {p} |-> <<e, 0>>]
<1>1. d.node = make_leaf(k, v) /\ d.place = p /\ d.places = {p} /\ d.entries = {e}
  BY DEF Sub
<1>2. e.key = k /\ e.value = v
  BY DEF EntryOf
<1> HIDE DEF d
<1>3. Pairing(d, e, h)
  <2> HIDE DEF e
  <2> QED BY <1>1 DEF Pairing
<1>4. Sound(d)
  <2>1. Begins(p, p)
    BY BeginsSelf
  <2>2. \E x, y : Pairing(d, x, y)
    BY <1>3
  <2> QED BY <1>1, <1>2, <2>1, <2>2 DEF Sound
<1>5. LeafSub(d, k, v)
  BY <1>1 DEF LeafSub
<1> QED BY <1>4, <1>5, TreeIf DEF d

\* What hangs at a child begins with the stem and the byte of the child, so that
\* children have neither places nor keys in common.
Apart(d, stem, child) ==
    /\ \A b \in Present(d.node) :
           /\ \A p \in child[b].places :
                  /\ p \in Seq(Byte) /\ Begins(p, Append(stem, b)) /\ Begins(p, stem)
                  /\ Begins(p, d.place) /\ p # d.place
           /\ \A e \in child[b].entries :
                  /\ e.key \in Key /\ Begins(e.key, Append(stem, b)) /\ Begins(e.key, stem)
                  /\ Begins(e.key, d.place)
    /\ \A a, b \in Present(d.node) :
           /\ \A p : p \in child[a].places /\ p \in child[b].places => a = b
           /\ \A e \in child[a].entries, g \in child[b].entries : e.key = g.key => a = b

\* The children of a node hang apart.
LEMMA ChildrenApart ==
    ASSUME NEW d, d.place \in Seq(Byte), NEW stem, NEW child, Children(d, stem, child)
    PROVE  Apart(d, stem, child) /\ Present(d.node) \subseteq Byte /\ stem \in Seq(Byte)
<1>1. /\ Present(d.node) \subseteq Byte /\ stem \in Seq(Byte) /\ Begins(stem, d.place)
      /\ \A b \in Present(d.node) : Sound(child[b]) /\ child[b].place = Append(stem, b)
  <2>1. \A b \in Present(d.node) : Sound(child[b])
    BY TreeIs DEF Children
  <2> QED BY <2>1 DEF Children, InnerSub, Present
<1>2. ASSUME NEW b \in Present(d.node), NEW p \in Seq(Byte), Begins(p, Append(stem, b))
      PROVE  /\ Begins(p, stem) /\ Begins(p, d.place) /\ p # d.place
             /\ p[Len(stem) + 1] = b
  <2>1. Begins(p, stem) /\ Len(stem) < Len(p) /\ p[Len(stem) + 1] = b
    BY <1>1, <1>2, BeginsMore
  <2>2. Begins(p, d.place)
    BY <1>1, <2>1, BeginsOn
  <2>3. Len(d.place) <= Len(stem)
    BY <1>1 DEF Begins
  <2>4. p # d.place
    BY <1>1, <2>1, <2>3
  <2> QED BY <2>1, <2>2, <2>4
<1>3. ASSUME NEW b \in Present(d.node), NEW p \in child[b].places
      PROVE  p \in Seq(Byte) /\ Begins(p, Append(stem, b))
  BY <1>1 DEF Sound
<1>4. ASSUME NEW b \in Present(d.node), NEW e \in child[b].entries
      PROVE  e.key \in Key /\ e.key \in Seq(Byte) /\ Begins(e.key, Append(stem, b))
  <2>1. Sound(child[b]) /\ child[b].place = Append(stem, b)
    BY <1>1
  <2>2. e.key \in Key /\ Begins(e.key, Append(stem, b))
    BY <2>1 DEF Sound
  <2>3. Key \subseteq Seq(Byte)
    BY KeysAre
  <2> QED BY <2>2, <2>3
<1>5. ASSUME NEW b \in Present(d.node), NEW p \in child[b].places
      PROVE  /\ p \in Seq(Byte) /\ Begins(p, Append(stem, b)) /\ Begins(p, stem)
             /\ Begins(p, d.place) /\ p # d.place /\ p[Len(stem) + 1] = b
  BY <1>2, <1>3
<1>6. ASSUME NEW b \in Present(d.node), NEW e \in child[b].entries
      PROVE  /\ e.key \in Key /\ Begins(e.key, Append(stem, b)) /\ Begins(e.key, stem)
             /\ Begins(e.key, d.place) /\ e.key[Len(stem) + 1] = b
  BY <1>2, <1>4
<1>7. ASSUME NEW a \in Present(d.node), NEW b \in Present(d.node), NEW p,
             p \in child[a].places /\ p \in child[b].places
      PROVE  a = b
  <2>1. p[Len(stem) + 1] = a
    BY ONLY <1>5, <1>7, a \in Present(d.node)
  <2>2. p[Len(stem) + 1] = b
    BY ONLY <1>5, <1>7, b \in Present(d.node)
  <2> QED BY <2>1, <2>2
<1>8. ASSUME NEW a \in Present(d.node), NEW b \in Present(d.node),
             NEW e \in child[a].entries, NEW g \in child[b].entries, e.key = g.key
      PROVE  a = b
  <2>1. e.key[Len(stem) + 1] = a
    BY ONLY <1>6, a \in Present(d.node), e \in child[a].entries
  <2>2. g.key[Len(stem) + 1] = b
    BY ONLY <1>6, b \in Present(d.node), g \in child[b].entries
  <2> QED BY <1>8, <2>1, <2>2
<1> QED BY ONLY <1>1, <1>5, <1>6, <1>7, <1>8 DEF Apart

\* In the tree, a node has a byte with a child and another.
LEMMA TwoPresent ==
    ASSUME NEW n, Fits(n)
    PROVE  /\ \E a, b \in Present(n) : a # b
           /\ \A b \in Byte : b \in Present(n) <=> find_child(n, b) # NULL
           /\ n.type \in Layouts /\ ~AtEnd(n)
<1>1. PICK C : NULL \notin C /\ WellFormed(n, C)
  BY DEF Fits
<1>2. n.type \in Layouts
  BY <1>1 DEF WellFormed, Layouts
<1>3. Cardinality(Present(n)) >= 2 /\ Cardinality(Present(n)) \in Nat
  <2>1. Cardinality(Present(n)) \in 0..ByteCount
    BY <1>1, PresentCounted
  <2> QED BY <1>2, <2>1, SizesOrdered DEF Fits, Room, Layouts
<1>4. \E a, b \in Present(n) : a # b
  <2>1. Present(n) # {}
    BY <1>3, FS_EmptySet
  <2>2. PICK a \in Present(n) : TRUE
    BY <2>1
  <2>3. Present(n) # {a}
    BY <1>3, FS_Singleton
  <2> QED BY <2>2, <2>3
<1>5. ~AtEnd(n)
  <2>1. NULL.type = "NULL"
    BY DEF NULL
  <2> QED BY <1>2, <2>1 DEF AtEnd, IS_LEAF, Layouts
<1> QED BY <1>1, <1>2, <1>4, <1>5, PresentFound

\* An inner node whose children hang at its stem is a subtree.
LEMMA InnerTree ==
    ASSUME NEW d, d.place \in Seq(Byte), NEW stem, NEW child, Children(d, stem, child)
    PROVE  Tree(d)
<1> DEFINE Has == Present(d.node)
<1>1. /\ \A b \in Has : Sound(child[b]) /\ child[b].place = Append(stem, b)
      /\ Fits(d.node)
      /\ d.places = {d.place} \union UNION {child[b].places : b \in Has}
      /\ d.entries = UNION {child[b].entries : b \in Has}
      /\ Begins(stem, d.place)
  <2>1. \A b \in Has : Sound(child[b])
    BY TreeIs DEF Children
  <2> QED BY <2>1 DEF Children, InnerSub
<1>2. Apart(d, stem, child) /\ Has \subseteq Byte /\ stem \in Seq(Byte)
  BY ChildrenApart
<1> HIDE DEF Has
<1>3. /\ \A p \in d.places : p = d.place \/ \E b \in Has : p \in child[b].places
      /\ \A e \in d.entries : \E b \in Has : e \in child[b].entries
      /\ \A b \in Has : child[b].places \subseteq d.places /\ child[b].entries \subseteq d.entries
      /\ d.place \in d.places
  BY <1>1
<1>4. /\ \A b \in Has : \A p \in child[b].places :
             p \in Seq(Byte) /\ Begins(p, d.place) /\ p # d.place
      /\ \A b \in Has : \A e \in child[b].entries : Begins(e.key, d.place)
      /\ \A a, b \in Has :
             /\ \A p : p \in child[a].places /\ p \in child[b].places => a = b
             /\ \A e \in child[a].entries, g \in child[b].entries : e.key = g.key => a = b
  BY <1>2 DEF Apart, Has
<1>5. \A p \in d.places : p \in Seq(Byte) /\ Begins(p, d.place)
  BY <1>3, <1>4, BeginsSelf
<1>6. \A e \in d.entries : /\ e.key \in Key /\ e.value \in ValuesOf[e.key]
                           /\ e = EntryOf(e.key, e.value) /\ Begins(e.key, d.place)
  BY <1>1, <1>3, <1>4 DEF Sound
<1>7. \A e, g \in d.entries : e.key = g.key => e = g
  <2> SUFFICES ASSUME NEW e \in d.entries, NEW g \in d.entries, e.key = g.key
               PROVE  e = g
    OBVIOUS
  <2>1. PICK a \in Has : e \in child[a].entries
    BY <1>3
  <2>2. PICK b \in Has : g \in child[b].entries
    BY <1>3
  <2>3. a = b
    BY <1>4, <2>1, <2>2
  <2> QED BY <1>1, <2>1, <2>2, <2>3 DEF Sound
<1>8. \E e, h : Pairing(d, e, h)
  <2> DEFINE Rest(b) == CHOOSE e : \E h : Pairing(child[b], e, h)
             Own(b) == CHOOSE h : Pairing(child[b], Rest(b), h)
             Way(p) == CHOOSE b \in Has : p \in child[b].places
  <2>1. \A b \in Has : \E h : Pairing(child[b], Rest(b), h)
    BY <1>1 DEF Sound
  <2>2. \A b \in Has : Pairing(child[b], Rest(b), Own(b))
    BY <2>1
  <2>3. PICK first \in Has, second \in Has : first # second
    BY <1>1, TwoPresent DEF Has
  <2>4. \A p \in d.places : p # d.place => Way(p) \in Has /\ p \in child[Way(p)].places
    BY <1>3
  <2> HIDE DEF Rest, Own, Way
  <2> DEFINE Pair(p) == IF p = d.place THEN <<Rest(second), 1>> ELSE Own(Way(p))[p]
             h == [p \in d.places |-> Pair(p)]
  <2>5. /\ \A b \in Has : Rest(b) \in child[b].entries
        /\ \A b \in Has : \A p \in child[b].places :
               /\ Own(b)[p] \in child[b].entries \X {0, 1} /\ Own(b)[p] # <<Rest(b), 1>>
               /\ Own(b)[p][1] \in child[b].entries
    BY <2>2 DEF Pairing
  <2>6. \A b \in Has : \A p, q \in child[b].places : Own(b)[p] = Own(b)[q] => p = q
    BY <2>2 DEF Pairing
  <2>7. \A a, b \in Has : \A e : e \in child[a].entries /\ e \in child[b].entries => a = b
    BY <1>4
  <2>8. \A p \in d.places : p # d.place =>
            /\ Pair(p) # <<Rest(second), 1>> /\ Pair(p) # <<Rest(first), 1>>
            /\ Pair(p) \in d.entries \X {0, 1}
    <3> SUFFICES ASSUME NEW p \in d.places, p # d.place,
                        NEW x, x \in {first, second}, Own(Way(p))[p] = <<Rest(x), 1>>
                 PROVE  FALSE
      BY <1>3, <2>4, <2>5
    <3>1. PICK b \in Has : b = Way(p) /\ p \in child[b].places
      BY <2>4
    <3>2. Own(b)[p] = <<Rest(x), 1>> /\ x \in Has
      BY <2>3, <3>1
    <3>3. Own(b)[p][1] = Rest(x)
      BY <3>2
    <3>4. Rest(x) \in child[b].entries /\ Rest(x) \in child[x].entries
      BY <2>5, <3>1, <3>2, <3>3
    <3>5. b = x
      BY <2>7, <3>2, <3>4
    <3> QED BY <2>5, <3>1, <3>2, <3>5
  <2>9. h \in [d.places -> d.entries \X {0, 1}]
    <3>1. <<Rest(second), 1>> \in d.entries \X {0, 1}
      BY <1>3, <2>3, <2>5
    <3>2. \A p \in d.places : Pair(p) \in d.entries \X {0, 1}
      BY <2>8, <3>1
    <3> HIDE DEF Pair
    <3> QED BY <3>2
  <2>10. ASSUME NEW p \in d.places, NEW q \in d.places, Pair(p) = Pair(q)
         PROVE  p = q
    <3>1. CASE p = d.place \/ q = d.place
      BY <2>8, <2>10, <3>1
    <3>2. CASE p # d.place /\ q # d.place
      <4>1. PICK a \in Has : a = Way(p) /\ p \in child[a].places
        BY <2>4, <3>2
      <4>2. PICK b \in Has : b = Way(q) /\ q \in child[b].places
        BY <2>4, <3>2
      <4>3. Own(a)[p] = Own(b)[q]
        BY <2>10, <3>2, <4>1, <4>2
      <4>4. a = b
        BY <2>5, <2>7, <4>1, <4>2, <4>3
      <4> QED BY <2>6, <4>1, <4>2, <4>3, <4>4
    <3> QED BY <3>1, <3>2
  <2>11. Rest(first) # Rest(second)
    BY <2>3, <2>5, <2>7
  <2>12. \A p \in d.places : Pair(p) # <<Rest(first), 1>>
    <3>1. <<Rest(second), 1>> # <<Rest(first), 1>>
      BY <2>11
    <3> QED BY <2>8, <3>1
  <2>13. Rest(first) \in d.entries
    BY <1>3, <2>3, <2>5
  <2> HIDE DEF Pair
  <2>14. Pairing(d, Rest(first), h)
    BY <2>9, <2>10, <2>12, <2>13 DEF Pairing
  <2> HIDE DEF h
  <2> QED BY <2>14
<1>9. Sound(d)
  BY <1>3, <1>5, <1>6, <1>7, <1>8 DEF Sound
<1> QED BY <1>9, TreeIf

\* The node of a subtree is one.
LEMMA NodeThere ==
    ASSUME NEW d, Tree(d)
    PROVE  d.node # NULL /\ d.place \in Seq(Byte)
<1>1. ASSUME NEW k, NEW v, LeafSub(d, k, v) PROVE d.node # NULL
  BY <1>1 DEF LeafSub, make_leaf, NULL
<1>2. ASSUME NEW stem, NEW child, Children(d, stem, child) PROVE d.node # NULL
  BY <1>2, TwoPresent DEF Children, InnerSub, AtEnd
<1> QED BY <1>1, <1>2, TreeIs DEF Sound

-----------------------------------------------------------------------------
(* What changes of a node make of its subtree.                              *)

\* Subtrees hang as the children of a node at a stem, with such places and entries.
Hung(n, stem, child, place, places, entries) ==
    /\ \A b \in Present(n) : /\ Tree(child[b]) /\ child[b].node = find_child(n, b)
                             /\ child[b].place = Append(stem, b)
    /\ places = {place} \union UNION {child[b].places : b \in Present(n)}
    /\ entries = UNION {child[b].entries : b \in Present(n)}

\* The same header above other children.
LEMMA OtherChildren ==
    ASSUME NEW d, d.place \in Seq(Byte), NEW stem, NEW child, Children(d, stem, child),
           NEW n, Fits(n), SameHeader(d.node, n), NEW other, NEW P, NEW E,
           Hung(n, stem, other, d.place, P, E)
    PROVE  Tree(Sub(n, d.place, P, E))
<1> DEFINE d2 == Sub(n, d.place, P, E)
<1>1. d2.node = n /\ d2.place = d.place /\ d2.places = P /\ d2.entries = E
  BY DEF Sub
<1> HIDE DEF d2
<1>2. InnerSub(d2, stem, other)
  <2>1. /\ stem \in Seq(Byte) /\ Begins(stem, d.place)
        /\ n.partial_len = Len(stem) - Len(d.place)
        /\ n.partial = Stored(From(stem, Len(d.place)))
    BY DEF Children, InnerSub, SameHeader
  <2> QED BY <1>1, <2>1 DEF InnerSub, Hung
<1>3. Children(d2, stem, other)
  BY <1>1, <1>2 DEF Children, Hung
<1>4. Tree(d2)
  BY <1>1, <1>3, InnerTree
<1> QED BY <1>4 DEF d2

\* A child becomes another at the same place.
LEMMA ChildReplaced ==
    ASSUME NEW d, d.place \in Seq(Byte), NEW stem, NEW child, Children(d, stem, child),
           NEW c \in Present(d.node), NEW d2, Tree(d2), d2.place = Append(stem, c)
    PROVE  Tree(Sub(SetChild(d.node, c, d2.node), d.place,
                    (d.places \ child[c].places) \union d2.places,
                    (d.entries \ child[c].entries) \union d2.entries))
<1> DEFINE n == SetChild(d.node, c, d2.node)
           other == [b \in Present(d.node) |-> IF b = c THEN d2 ELSE child[b]]
           P == {d.place} \union UNION {other[b].places : b \in Present(n)}
           E == UNION {other[b].entries : b \in Present(n)}
<1>1. Apart(d, stem, child) /\ Present(d.node) \subseteq Byte
  BY ChildrenApart
<1>2. /\ Fits(n) /\ SameHeader(d.node, n) /\ FindsAlso(d.node, n, c, d2.node)
      /\ Present(n) = Present(d.node)
  <2>1. Fits(d.node) /\ c \in Byte /\ find_child(d.node, c) # NULL /\ d2.node # NULL
    BY <1>1, TwoPresent, NodeThere DEF Children, InnerSub
  <2> QED BY <2>1, SetChildFits
<1> HIDE DEF n
<1>3. /\ other[c] = d2 /\ \A b \in Present(d.node) : b # c => other[b] = child[b]
  OBVIOUS
<1> HIDE DEF other
<1>4. \A b \in Present(n) : /\ Tree(other[b]) /\ other[b].node = find_child(n, b)
                            /\ other[b].place = Append(stem, b)
  <2> SUFFICES ASSUME NEW b \in Present(d.node)
               PROVE  /\ Tree(other[b]) /\ other[b].node = find_child(n, b)
                      /\ other[b].place = Append(stem, b)
    BY <1>2
  <2>1. CASE b = c
    <3>1. find_child(n, b) = d2.node
      BY <1>1, <1>2, <2>1 DEF FindsAlso
    <3> QED BY <1>3, <2>1, <3>1
  <2>2. CASE b # c
    <3>1. find_child(n, b) = find_child(d.node, b)
      BY <1>1, <1>2, <2>2 DEF FindsAlso
    <3>2. Tree(child[b]) /\ child[b].node = find_child(d.node, b) /\ child[b].place = Append(stem, b)
      BY DEF Children, InnerSub
    <3> QED BY <1>3, <2>2, <3>1, <3>2
  <2> QED BY <2>1, <2>2
<1>5. Tree(Sub(n, d.place, P, E))
  <2>1. Hung(n, stem, other, d.place, P, E)
    BY <1>2, <1>4 DEF Hung
  <2> HIDE DEF P, E
  <2> QED BY ONLY <1>2, <2>1, d.place \in Seq(Byte), Children(d, stem, child), OtherChildren
<1>6. /\ d.places = {d.place} \union UNION {child[b].places : b \in Present(d.node)}
      /\ d.entries = UNION {child[b].entries : b \in Present(d.node)}
  BY DEF Children, InnerSub
<1>7. /\ d.place \notin child[c].places
      /\ \A b \in Present(d.node) : b # c => /\ \A p \in child[b].places : p \notin child[c].places
                                             /\ \A e \in child[b].entries : e \notin child[c].entries
  BY <1>1 DEF Apart
<1>8. P = (d.places \ child[c].places) \union d2.places
  <2>1. \A p : p \in P <=> p = d.place \/ \E b \in Present(d.node) : p \in other[b].places
    BY <1>2
  <2>2. \A p : p \in d.places <=> p = d.place \/ \E b \in Present(d.node) : p \in child[b].places
    BY <1>6
  <2> HIDE DEF P
  <2>3. \A p : p \in P <=> p \in (d.places \ child[c].places) \union d2.places
    BY <1>3, <1>7, <2>1, <2>2
  <2> QED BY <2>3
<1>9. E = (d.entries \ child[c].entries) \union d2.entries
  <2>1. \A e : e \in E <=> \E b \in Present(d.node) : e \in other[b].entries
    BY <1>2
  <2>2. \A e : e \in d.entries <=> \E b \in Present(d.node) : e \in child[b].entries
    BY <1>6
  <2> HIDE DEF E
  <2>3. \A e : e \in E <=> e \in (d.entries \ child[c].entries) \union d2.entries
    BY <1>3, <1>7, <2>1, <2>2
  <2> QED BY <2>3
<1> QED BY <1>5, <1>8, <1>9 DEF n

\* A node gets a child more.
LEMMA ChildAdded ==
    ASSUME NEW d, d.place \in Seq(Byte), NEW stem, NEW child, Children(d, stem, child),
           NEW c \in Byte, find_child(d.node, c) = NULL, NEW d2, Tree(d2), d2.place = Append(stem, c)
    PROVE  Tree(Sub(add_child(d.node, c, d2.node), d.place, d.places \union d2.places,
                    d.entries \union d2.entries))
<1> DEFINE n == add_child(d.node, c, d2.node)
           other == [b \in Byte |-> IF b = c THEN d2 ELSE child[b]]
           P == {d.place} \union UNION {other[b].places : b \in Present(n)}
           E == UNION {other[b].entries : b \in Present(n)}
<1>1. Present(d.node) \subseteq Byte /\ Fits(d.node)
  BY DEF Children, InnerSub, Present
<1>2. /\ Fits(n) /\ SameHeader(d.node, n) /\ FindsAlso(d.node, n, c, d2.node)
      /\ Present(n) = Present(d.node) \union {c}
  <2>1. d2.node # NULL
    BY NodeThere
  <2> QED BY <1>1, <2>1, AddFits
<1>3. c \notin Present(d.node)
  BY <1>1, TwoPresent
<1> HIDE DEF n
<1>4. /\ other[c] = d2 /\ \A b \in Present(d.node) : other[b] = child[b]
  BY <1>1, <1>3
<1> HIDE DEF other
<1>5. \A b \in Present(n) : /\ Tree(other[b]) /\ other[b].node = find_child(n, b)
                            /\ other[b].place = Append(stem, b)
  <2> SUFFICES ASSUME NEW b \in Present(d.node) \union {c}
               PROVE  /\ Tree(other[b]) /\ other[b].node = find_child(n, b)
                      /\ other[b].place = Append(stem, b)
    BY <1>2
  <2>1. CASE b = c
    <3>1. find_child(n, b) = d2.node
      BY <1>1, <1>2, <2>1 DEF FindsAlso
    <3> QED BY <1>4, <2>1, <3>1
  <2>2. CASE b \in Present(d.node) /\ b # c
    <3>1. find_child(n, b) = find_child(d.node, b)
      BY <1>1, <1>2, <2>2 DEF FindsAlso
    <3>2. Tree(child[b]) /\ child[b].node = find_child(d.node, b) /\ child[b].place = Append(stem, b)
      BY <2>2 DEF Children, InnerSub
    <3> QED BY <1>4, <2>2, <3>1, <3>2
  <2> QED BY <2>1, <2>2
<1>6. Tree(Sub(n, d.place, P, E))
  <2>1. Hung(n, stem, other, d.place, P, E)
    BY <1>2, <1>5 DEF Hung
  <2> HIDE DEF P, E
  <2> QED BY ONLY <1>2, <2>1, d.place \in Seq(Byte), Children(d, stem, child), OtherChildren
<1>7. /\ d.places = {d.place} \union UNION {child[b].places : b \in Present(d.node)}
      /\ d.entries = UNION {child[b].entries : b \in Present(d.node)}
  BY DEF Children, InnerSub
<1>8. P = d.places \union d2.places
  <2>1. \A p : p \in P <=> p = d.place \/ \E b \in Present(d.node) \union {c} : p \in other[b].places
    BY <1>2
  <2>2. \A p : p \in d.places <=> p = d.place \/ \E b \in Present(d.node) : p \in child[b].places
    BY <1>7
  <2> HIDE DEF P
  <2>3. \A p : p \in P <=> p \in d.places \union d2.places
    BY <1>4, <2>1, <2>2
  <2> QED BY <2>3
<1>9. E = d.entries \union d2.entries
  <2>1. \A e : e \in E <=> \E b \in Present(d.node) \union {c} : e \in other[b].entries
    BY <1>2
  <2>2. \A e : e \in d.entries <=> \E b \in Present(d.node) : e \in child[b].entries
    BY <1>7
  <2> HIDE DEF E
  <2>3. \A e : e \in E <=> e \in d.entries \union d2.entries
    BY <1>4, <2>1, <2>2
  <2> QED BY <2>3
<1> QED BY <1>6, <1>8, <1>9 DEF n

\* A node loses a child and keeps two or more.
LEMMA ChildRemoved ==
    ASSUME NEW d, d.place \in Seq(Byte), NEW stem, NEW child, Children(d, stem, child),
           NEW c \in Present(d.node), Cardinality(Present(d.node)) # 2
    PROVE  Tree(Sub(remove_child(d.node, c), d.place, d.places \ child[c].places,
                    d.entries \ child[c].entries))
<1> DEFINE n == remove_child(d.node, c)
           P == {d.place} \union UNION {child[b].places : b \in Present(n)}
           E == UNION {child[b].entries : b \in Present(n)}
<1>1. Apart(d, stem, child) /\ Present(d.node) \subseteq Byte
  BY ChildrenApart
<1>2. /\ Fits(n) /\ SameHeader(d.node, n) /\ FindsAlso(d.node, n, c, NULL)
      /\ Present(n) = Present(d.node) \ {c}
  <2>1. Fits(d.node) /\ c \in Byte /\ find_child(d.node, c) # NULL
    BY <1>1, TwoPresent DEF Children, InnerSub
  <2> QED BY <2>1, RemoveFits
<1> HIDE DEF n
<1>3. \A b \in Present(n) : /\ Tree(child[b]) /\ child[b].node = find_child(n, b)
                            /\ child[b].place = Append(stem, b)
  <2> SUFFICES ASSUME NEW b \in Present(d.node), b # c
               PROVE  /\ Tree(child[b]) /\ child[b].node = find_child(n, b)
                      /\ child[b].place = Append(stem, b)
    BY <1>2
  <2>1. find_child(n, b) = find_child(d.node, b)
    BY <1>1, <1>2 DEF FindsAlso
  <2> QED BY <2>1 DEF Children, InnerSub
<1>4. Tree(Sub(n, d.place, P, E))
  <2>1. Hung(n, stem, child, d.place, P, E)
    BY <1>2, <1>3 DEF Hung
  <2> HIDE DEF P, E
  <2> QED BY ONLY <1>2, <2>1, d.place \in Seq(Byte), Children(d, stem, child), OtherChildren
<1>5. /\ d.places = {d.place} \union UNION {child[b].places : b \in Present(d.node)}
      /\ d.entries = UNION {child[b].entries : b \in Present(d.node)}
  BY DEF Children, InnerSub
<1>6. /\ d.place \notin child[c].places
      /\ \A b \in Present(d.node) : b # c => /\ \A p \in child[b].places : p \notin child[c].places
                                             /\ \A e \in child[b].entries : e \notin child[c].entries
  BY <1>1 DEF Apart
<1>7. P = d.places \ child[c].places
  <2>1. \A p : p \in P <=> p = d.place \/ \E b \in Present(d.node) \ {c} : p \in child[b].places
    BY <1>2
  <2>2. \A p : p \in d.places <=> p = d.place \/ \E b \in Present(d.node) : p \in child[b].places
    BY <1>5
  <2> HIDE DEF P
  <2>3. \A p : p \in P <=> p \in d.places \ child[c].places
    BY <1>6, <2>1, <2>2
  <2> QED BY <2>3
<1>8. E = d.entries \ child[c].entries
  <2>1. \A e : e \in E <=> \E b \in Present(d.node) \ {c} : e \in child[b].entries
    BY <1>2
  <2>2. \A e : e \in d.entries <=> \E b \in Present(d.node) : e \in child[b].entries
    BY <1>5
  <2> HIDE DEF E
  <2>3. \A e : e \in E <=> e \in d.entries \ child[c].entries
    BY <1>6, <2>1, <2>2
  <2> QED BY <2>3
<1> QED BY <1>4, <1>7, <1>8 DEF n

\* Another prefix leaves a node's children.
Headed(n, len, partial) == [n EXCEPT !.partial_len = len, !.partial = partial]

\* A node with another prefix finds the same children.
LEMMA OtherHeader ==
    ASSUME NEW n, Fits(n), NEW len, NEW partial
    PROVE  /\ Fits(Headed(n, len, partial))
           /\ Headed(n, len, partial).partial_len = len
           /\ Headed(n, len, partial).partial = partial
           /\ Present(Headed(n, len, partial)) = Present(n)
           /\ \A b \in Byte : find_child(Headed(n, len, partial), b) = find_child(n, b)
<1> DEFINE n2 == Headed(n, len, partial)
<1>1. PICK C : NULL \notin C /\ WellFormed(n, C)
  BY DEF Fits
<1>2. Header(n)
  BY <1>1 DEF WellFormed
<1>3. /\ DOMAIN n2 = DOMAIN n /\ n2.type = n.type /\ n2.num_children = n.num_children
      /\ n2.keys = n.keys /\ n2.children = n.children
      /\ n2.partial_len = len /\ n2.partial = partial
  BY <1>2 DEF Header, Headed
<1> HIDE DEF n2
<1>4. WellFormed(n2, C)
  <2>1. Header(n2)
    BY <1>2, <1>3 DEF Header
  <2>2. \A max : Lists(n, max, C) => Lists(n2, max, C)
    BY <1>3 DEF Lists
  <2>3. Indexes(n, C) => Indexes(n2, C)
    BY <1>3 DEF Indexes
  <2>4. Direct(n, C) => Direct(n2, C)
    BY <1>3 DEF Direct
  <2> QED BY <1>1, <1>3, <2>1, <2>2, <2>3, <2>4 DEF WellFormed
<1>5. \A b \in Byte : SlotsOf(n2, b) = SlotsOf(n, b)
  <2> SUFFICES ASSUME NEW b \in Byte PROVE SlotsOf(n2, b) = SlotsOf(n, b)
    OBVIOUS
  <2>1. n.type \in Layouts
    BY <1>1 DEF WellFormed, Layouts
  <2>2. CASE n.type \in {"NODE4", "NODE16"}
    BY <1>3, <2>2 DEF SlotsOf, Listed
  <2>3. CASE n.type = "NODE48"
    BY <1>3, <2>3 DEF SlotsOf, Listed
  <2>4. CASE n.type = "NODE256"
    BY <1>3, <2>4 DEF SlotsOf, Listed
  <2> QED BY <2>1, <2>2, <2>3, <2>4 DEF Layouts
<1>6. Present(n2) = Present(n) /\ \A b \in Byte : find_child(n2, b) = find_child(n, b)
  BY <1>3, <1>5 DEF Present, find_child
<1>7. Fits(n2)
  BY <1>1, <1>3, <1>4, <1>6 DEF Fits, Room
<1> QED BY <1>3, <1>6, <1>7 DEF n2

\* The bytes of two prefixes with one between them.
LEMMA Joined ==
    ASSUME NEW s \in Seq(Byte), NEW b \in Byte, NEW t \in Seq(Byte)
    PROVE  LET u == s \o <<b>> \o t
           IN  /\ u \in Seq(Byte) /\ Len(u) = Len(s) + 1 + Len(t)
               /\ \A i \in 1..Len(s) : u[i] = s[i]
               /\ u[Len(s) + 1] = b
               /\ \A i \in 1..Len(t) : u[Len(s) + 1 + i] = t[i]
<1>5. Len(s) \in Nat /\ Len(t) \in Nat
  OBVIOUS
<1>1. PICK a \in Seq(Byte) :
          /\ a = s \o <<b>> /\ Len(a) = Len(s) + 1
          /\ \A i \in 1..(Len(s) + 1) : a[i] = IF i <= Len(s) THEN s[i] ELSE <<b>>[i - Len(s)]
  <2>1. <<b>> \in Seq(Byte) /\ Len(<<b>>) = 1
    OBVIOUS
  <2>2. /\ s \o <<b>> \in Seq(Byte) /\ Len(s \o <<b>>) = Len(s) + 1
        /\ \A i \in 1..(Len(s) + 1) :
               (s \o <<b>>)[i] = IF i <= Len(s) THEN s[i] ELSE <<b>>[i - Len(s)]
    BY <2>1, ConcatProperties
  <2> QED BY <2>2
<1>2. /\ Len(a) = Len(s) + 1 /\ a[Len(s) + 1] = b
      /\ \A i \in 1..Len(s) : a[i] = s[i]
  BY <1>1, <1>5
<1>3. PICK u \in Seq(Byte) :
          /\ u = a \o t /\ Len(u) = Len(a) + Len(t)
          /\ \A i \in 1..(Len(a) + Len(t)) : u[i] = IF i <= Len(a) THEN a[i] ELSE t[i - Len(a)]
  <2>1. /\ a \o t \in Seq(Byte) /\ Len(a \o t) = Len(a) + Len(t)
        /\ \A i \in 1..(Len(a) + Len(t)) :
               (a \o t)[i] = IF i <= Len(a) THEN a[i] ELSE t[i - Len(a)]
    BY ConcatProperties
  <2> QED BY <2>1
<1>4. /\ Len(u) = Len(a) + Len(t) /\ \A i \in 1..Len(a) : u[i] = a[i]
      /\ \A i \in 1..Len(t) : u[Len(a) + i] = t[i]
  <2>1. Len(a) \in Nat /\ Len(t) \in Nat
    OBVIOUS
  <2>2. \A i \in 1..Len(t) : /\ Len(a) + i \in 1..(Len(a) + Len(t)) /\ ~(Len(a) + i <= Len(a))
                             /\ (Len(a) + i) - Len(a) = i
    BY <2>1
  <2>3. \A i \in 1..Len(t) : u[Len(a) + i] = t[i]
    BY <1>3, <2>2
  <2>4. \A i \in 1..Len(a) : u[i] = a[i]
    BY <1>3, <2>1
  <2> QED BY <1>3, <2>3, <2>4
<1>6. \A i \in 1..Len(s) : i \in 1..Len(a)
  BY <1>2, <1>5
<1>7. Len(s) + 1 \in 1..Len(a)
  BY <1>2, <1>5
<1> QED BY <1>1, <1>2, <1>3, <1>4, <1>5, <1>6, <1>7

\* Of a prefix, a byte and another prefix, the stored bytes are known from those stored
\* of the two.
Joins(w, q, b, t) ==
    /\ Len(w) = Len(q) + 1 + Len(t)
    /\ \A i \in 1..Len(q) : w[i] = q[i]
    /\ w[Len(q) + 1] = b
    /\ \A i \in 1..Len(t) : w[Len(q) + 1 + i] = t[i]

\* What MergePrefix stores of two stored prefixes with a byte between them.
MergedOf(len, s, b, t) == IF len < MAX_PREFIX_LEN THEN Stored(s \o <<b>> \o t) ELSE s

\* What MergePrefix stores is what is stored of the joined prefix.
LEMMA MergedStored ==
    ASSUME NEW q \in Seq(Byte), NEW b \in Byte, NEW t \in Seq(Byte), NEW w \in Seq(Byte),
           Joins(w, q, b, t)
    PROVE  MergedOf(Len(q), Stored(q), b, Stored(t)) = Stored(w)
<1> USE DEF Joins
<1>1. MAX_PREFIX_LEN \in Nat /\ Len(q) \in Nat /\ Len(t) \in Nat
  BY KeysAre
<1>2. PICK sw \in Seq(Byte) : /\ sw = Stored(w) /\ Len(sw) = min(MAX_PREFIX_LEN, Len(w))
                              /\ \A i \in 1..Len(sw) : sw[i] = w[i]
  BY StoredIf
<1>3. CASE ~(Len(q) < MAX_PREFIX_LEN)
  <2>1. PICK sq \in Seq(Byte) : /\ sq = Stored(q) /\ Len(sq) = min(MAX_PREFIX_LEN, Len(q))
                                /\ \A i \in 1..Len(sq) : sq[i] = q[i]
    BY StoredIf
  <2>2. Len(sq) = MAX_PREFIX_LEN /\ Len(sw) = MAX_PREFIX_LEN
    BY <1>1, <1>2, <1>3, <2>1 DEF min
  <2>3. \A i \in 1..MAX_PREFIX_LEN : i \in 1..Len(q)
    BY <1>1, <1>3
  <2>4. \A i \in 1..Len(sq) : sq[i] = sw[i]
    BY <1>2, <2>1, <2>2, <2>3
  <2>5. sq = sw
    BY <2>2, <2>4, SameSeq
  <2> QED BY <1>2, <1>3, <2>1, <2>5 DEF MergedOf
<1>4. CASE Len(q) < MAX_PREFIX_LEN
  <2>1. Stored(q) = q
    BY <1>1, <1>4, StoredIf
  <2>2. PICK st \in Seq(Byte) : /\ st = Stored(t) /\ Len(st) = min(MAX_PREFIX_LEN, Len(t))
                                /\ \A i \in 1..Len(st) : st[i] = t[i]
    BY StoredIf
  <2>3. PICK u \in Seq(Byte) :
            /\ u = q \o <<b>> \o st /\ Len(u) = Len(q) + 1 + Len(st)
            /\ \A i \in 1..Len(q) : u[i] = q[i]
            /\ u[Len(q) + 1] = b
            /\ \A i \in 1..Len(st) : u[Len(q) + 1 + i] = st[i]
    <3>1. LET u == q \o <<b>> \o st
          IN  /\ u \in Seq(Byte) /\ Len(u) = Len(q) + 1 + Len(st)
              /\ \A i \in 1..Len(q) : u[i] = q[i]
              /\ u[Len(q) + 1] = b
              /\ \A i \in 1..Len(st) : u[Len(q) + 1 + i] = st[i]
      BY Joined
    <3> QED BY <3>1
  <2>4. PICK su \in Seq(Byte) : /\ su = Stored(u) /\ Len(su) = min(MAX_PREFIX_LEN, Len(u))
                                /\ \A i \in 1..Len(su) : su[i] = u[i]
    BY StoredIf
  <2>5. Len(su) = Len(sw) /\ Len(su) <= Len(u) /\ Len(u) <= Len(w) /\ Len(st) <= Len(t)
    <3>1. /\ Len(st) = min(MAX_PREFIX_LEN, Len(t)) /\ Len(su) = min(MAX_PREFIX_LEN, Len(u))
          /\ Len(sw) = min(MAX_PREFIX_LEN, Len(w)) /\ Len(u) = Len(q) + 1 + Len(st)
          /\ Len(w) = Len(q) + 1 + Len(t)
      BY <1>2, <2>2, <2>3, <2>4
    <3>2. ASSUME NEW m \in Nat, NEW a \in Nat, NEW x \in Nat
          PROVE  /\ min(m, a + 1 + min(m, x)) = min(m, a + 1 + x)
                 /\ min(m, a + 1 + min(m, x)) <= a + 1 + min(m, x)
                 /\ a + 1 + min(m, x) <= a + 1 + x /\ min(m, x) <= x
      BY DEF min
    <3> QED BY ONLY <1>1, <3>1, <3>2
  <2>6. \A i \in 1..Len(u) : u[i] = w[i]
    <3> SUFFICES ASSUME NEW i \in 1..Len(u) PROVE u[i] = w[i]
      OBVIOUS
    <3>0. Len(st) \in Nat /\ i \in Nat /\ 1 <= i /\ i <= Len(q) + 1 + Len(st)
      BY <2>3
    <3>1. CASE i \in 1..Len(q)
      BY <2>3, <3>1
    <3>2. CASE i = Len(q) + 1
      BY <2>3, <3>2
    <3>3. CASE i > Len(q) + 1
      <4>1. PICK j \in 1..Len(st) : i = Len(q) + 1 + j
        <5>1. i - (Len(q) + 1) \in 1..Len(st)
          BY <1>1, <3>0, <3>3
        <5>2. i = Len(q) + 1 + (i - (Len(q) + 1))
          BY ONLY <1>1, <3>0
        <5> QED BY ONLY <5>1, <5>2
      <4>2. j \in 1..Len(t)
        BY <1>1, <2>5, <4>1
      <4> QED BY <2>2, <2>3, <4>1, <4>2
    <3>4. i \in 1..Len(q) \/ i = Len(q) + 1 \/ i > Len(q) + 1
      BY ONLY <1>1, <3>0
    <3> QED BY ONLY <3>1, <3>2, <3>3, <3>4
  <2>7. \A i \in 1..Len(su) : su[i] = sw[i]
    <3>1. Len(su) \in Nat /\ Len(u) \in Nat
      OBVIOUS
    <3>2. \A i \in 1..Len(su) : i \in 1..Len(u) /\ i \in 1..Len(sw)
      BY <2>5, <3>1
    <3> QED BY <1>2, <2>4, <2>6, <3>2
  <2>8. su = sw
    BY <2>5, <2>7, SameSeq
  <2>9. su = Stored(Stored(q) \o <<b>> \o Stored(t))
    BY <2>1, <2>2, <2>3, <2>4
  <2> QED BY <1>2, <1>4, <2>8, <2>9 DEF MergedOf
<1> QED BY <1>3, <1>4

\* The last child of a node, with the node's prefix and its byte in front of its own:
\* a subtree at the place of the node.
LEMMA ChildLifted ==
    ASSUME NEW d, d.place \in Seq(Byte), NEW stem, NEW child, Children(d, stem, child),
           NEW b \in Present(d.node)
    PROVE  LET c == child[b]
               n == IF IS_LEAF(c.node) THEN c.node ELSE MergePrefix(d.node, b, c.node)
           IN  Tree(Sub(n, d.place, {d.place} \union (c.places \ {c.place}), c.entries))
<1> DEFINE c == child[b]
           n == MergePrefix(d.node, b, c.node)
<1>1. /\ Tree(c) /\ c.place = Append(stem, b) /\ b \in Byte /\ stem \in Seq(Byte)
      /\ Begins(stem, d.place) /\ Fits(d.node)
      /\ d.node.partial_len = Len(stem) - Len(d.place)
      /\ d.node.partial = Stored(From(stem, Len(d.place)))
  BY DEF Children, InnerSub, Present
<1>2. /\ c.place \in Seq(Byte) /\ Len(c.place) = Len(stem) + 1 /\ Begins(c.place, stem)
      /\ Begins(c.place, d.place) /\ Len(stem) \in Nat /\ Len(d.place) \in Nat
      /\ Len(d.place) <= Len(stem)
      /\ \A i \in 1..Len(stem) : c.place[i] = stem[i]
      /\ c.place[Len(stem) + 1] = b
  <2>1. /\ c.place \in Seq(Byte) /\ Len(c.place) = Len(stem) + 1 /\ Len(stem) \in Nat
        /\ \A i \in 1..Len(stem) : c.place[i] = stem[i]
        /\ c.place[Len(stem) + 1] = b
    <3> HIDE DEF c
    <3> QED BY <1>1, Appended
  <2>2. Begins(c.place, stem)
    <3>1. Len(stem) <= Len(c.place)
      BY <2>1
    <3>2. stem \in Seq(Byte)
      BY <1>1
    <3> HIDE DEF c
    <3> QED BY ONLY <2>1, <3>1, <3>2, BeginsIf
  <2>3. Begins(c.place, d.place)
    <3> HIDE DEF c
    <3> QED BY <1>1, <2>1, <2>2, BeginsOn
  <2>4. Len(d.place) \in Nat /\ Len(d.place) <= Len(stem)
    BY <1>1 DEF Begins
  <2> QED BY <2>1, <2>2, <2>3, <2>4
<1> DEFINE P == {d.place} \union (c.places \ {c.place})
<1>3. ASSUME NEW k, NEW v, LeafSub(c, k, v)
      PROVE  IS_LEAF(c.node) /\ Tree(Sub(c.node, d.place, P, c.entries))
  <2>1. /\ k \in Key /\ v \in ValuesOf[k] /\ c.node = make_leaf(k, v)
        /\ c.entries = {EntryOf(k, v)} /\ P = {d.place} /\ Begins(k, c.place) /\ k \in Seq(Byte)
    BY <1>3, KeysAre DEF LeafSub
  <2>2. Begins(k, d.place)
    BY <1>2, <2>1, BeginsOn
  <2>3. Tree(Sub(make_leaf(k, v), d.place, {d.place}, {EntryOf(k, v)}))
    BY <2>1, <2>2, LeafTree
  <2>4. IS_LEAF(c.node)
    BY <2>1 DEF IS_LEAF, make_leaf
  <2> HIDE DEF P, c
  <2> QED BY <2>1, <2>3, <2>4
<1>4. ASSUME NEW far, NEW below, Children(c, far, below)
      PROVE  ~IS_LEAF(c.node) /\ Tree(Sub(n, d.place, P, c.entries))
  <2> HIDE DEF c
  <2>1. /\ Fits(c.node) /\ far \in Seq(Byte) /\ Begins(far, c.place)
        /\ c.node.partial_len = Len(far) - Len(c.place)
        /\ c.node.partial = Stored(From(far, Len(c.place)))
    BY <1>4 DEF Children, InnerSub
  <2>2. ~IS_LEAF(c.node)
    BY <2>1, TwoPresent DEF AtEnd
  <2>3. /\ Begins(far, d.place) /\ Begins(far, stem) /\ Len(c.place) <= Len(far)
        /\ Len(far) \in Nat
        /\ \A i \in 1..Len(c.place) : far[i] = c.place[i]
    <3>1. Begins(far, d.place) /\ Begins(far, stem)
      BY <1>1, <1>2, <2>1, BeginsOn
    <3> QED BY <1>2, <2>1, <3>1, BeginsIf
  <2> DEFINE len == c.node.partial_len + d.node.partial_len + 1
             partial == IF d.node.partial_len < MAX_PREFIX_LEN
                        THEN Stored(d.node.partial \o <<b>> \o c.node.partial)
                        ELSE d.node.partial
  <2>4. n = Headed(c.node, len, partial)
    BY DEF MergePrefix, Headed
  <2>5. len = Len(far) - Len(d.place)
    BY <1>1, <1>2, <2>1, <2>3
  <2>6. partial = Stored(From(far, Len(d.place)))
    <3>1. PICK q \in Seq(Byte) : /\ q = From(stem, Len(d.place))
                                 /\ Len(q) = Len(stem) - Len(d.place)
                                 /\ \A i \in 1..Len(q) : q[i] = stem[Len(d.place) + i]
      BY ONLY <1>1, <1>2, FromBack
    <3>2. PICK t \in Seq(Byte) : /\ t = From(far, Len(c.place))
                                 /\ Len(t) = Len(far) - Len(c.place)
                                 /\ \A i \in 1..Len(t) : t[i] = far[Len(c.place) + i]
      <4>1. far \in Seq(Byte) /\ Len(c.place) \in Nat /\ Len(c.place) <= Len(far)
        BY <1>2, <2>1, <2>3
      <4> QED BY ONLY <4>1, FromBack
    <3>3. PICK w \in Seq(Byte) : /\ w = From(far, Len(d.place))
                                 /\ Len(w) = Len(far) - Len(d.place)
                                 /\ \A i \in 1..Len(w) : w[i] = far[Len(d.place) + i]
      <4>1. far \in Seq(Byte) /\ Len(d.place) \in Nat /\ Len(d.place) <= Len(far)
        BY <1>2, <2>1, <2>3
      <4> QED BY ONLY <4>1, FromBack
    <3>4. Len(w) = Len(q) + 1 + Len(t) /\ Len(q) \in Nat /\ Len(t) \in Nat
      BY <1>2, <2>3, <3>1, <3>2, <3>3
    <3>5. \A i \in 1..Len(q) : w[i] = q[i]
      <4> SUFFICES ASSUME NEW i \in 1..Len(q) PROVE w[i] = q[i]
        OBVIOUS
      <4>1. i \in 1..Len(w) /\ Len(d.place) + i \in 1..Len(stem) /\ Len(d.place) + i \in 1..Len(c.place)
        BY <1>2, <3>1, <3>4
      <4>2. far[Len(d.place) + i] = stem[Len(d.place) + i]
        BY <1>2, <2>3, <4>1
      <4> QED BY <3>1, <3>3, <4>1, <4>2
    <3>6. w[Len(q) + 1] = b
      <4>1. /\ Len(q) + 1 \in 1..Len(w) /\ Len(d.place) + (Len(q) + 1) = Len(stem) + 1
            /\ Len(stem) + 1 \in 1..Len(c.place)
        BY <1>2, <3>1, <3>4
      <4>2. far[Len(stem) + 1] = b
        BY <1>2, <2>3, <4>1
      <4> QED BY <3>3, <4>1, <4>2
    <3>7. \A i \in 1..Len(t) : w[Len(q) + 1 + i] = t[i]
      <4> SUFFICES ASSUME NEW i \in 1..Len(t) PROVE w[Len(q) + 1 + i] = t[i]
        OBVIOUS
      <4>1. /\ Len(q) + 1 + i \in 1..Len(w)
            /\ Len(d.place) + (Len(q) + 1 + i) = Len(c.place) + i
        BY <1>2, <3>1, <3>4
      <4> QED BY <3>2, <3>3, <4>1
    <3>8. MergedOf(Len(q), Stored(q), b, Stored(t)) = Stored(w)
      <4>1. b \in Byte
        BY <1>1
      <4>2. Joins(w, q, b, t)
        BY <3>4, <3>5, <3>6, <3>7 DEF Joins
      <4> QED BY ONLY <4>1, <4>2, q \in Seq(Byte), t \in Seq(Byte), w \in Seq(Byte), MergedStored
    <3>9. partial = MergedOf(Len(q), Stored(q), b, Stored(t))
      BY <1>1, <2>1, <3>1, <3>2 DEF MergedOf
    <3> QED BY <3>3, <3>8, <3>9
  <2> HIDE DEF len, partial
  <2>7. /\ Fits(n) /\ n.partial_len = len /\ n.partial = partial
        /\ Present(n) = Present(c.node)
        /\ \A a \in Byte : find_child(n, a) = find_child(c.node, a)
    <3>1. Fits(c.node)
      BY <2>1
    <3> HIDE DEF n
    <3> QED BY ONLY <2>4, <3>1, OtherHeader
  <2> HIDE DEF n
  <2> DEFINE d2 == Sub(n, d.place, P, c.entries)
  <2>8. d2.node = n /\ d2.place = d.place /\ d2.places = P /\ d2.entries = c.entries
    BY DEF Sub
  <2> HIDE DEF d2
  <2>9. P = {d.place} \union UNION {below[a].places : a \in Present(n)}
    <3>1. c.places = {c.place} \union UNION {below[a].places : a \in Present(c.node)}
      BY <1>4 DEF Children, InnerSub
    <3>2. c.place \notin UNION {below[a].places : a \in Present(c.node)}
      <4>1. Apart(c, far, below)
        BY <1>2, <1>4, ChildrenApart
      <4> QED BY <4>1 DEF Apart
    <3> QED BY <2>7, <3>1, <3>2
  <2>10. c.entries = UNION {below[a].entries : a \in Present(n)}
    BY <1>4, <2>7 DEF Children, InnerSub
  <2>11. \A a \in Present(n) : /\ Tree(below[a]) /\ below[a].node = find_child(n, a)
                               /\ below[a].place = Append(far, a)
    <3>1. Present(n) \subseteq Byte
      BY DEF Present
    <3> QED BY <1>4, <2>7, <3>1 DEF Children, InnerSub
  <2> HIDE DEF P
  <2>12. InnerSub(d2, far, below)
    BY <2>1, <2>3, <2>5, <2>6, <2>7, <2>8, <2>9, <2>10, <2>11 DEF InnerSub
  <2>13. Children(d2, far, below)
    BY <2>8, <2>11, <2>12 DEF Children
  <2>14. Tree(d2)
    BY <2>8, <2>13, InnerTree
  <2> QED BY <2>2, <2>14 DEF d2
<1>5. (\E k, v : LeafSub(c, k, v)) \/ \E far, below : Children(c, far, below)
  BY <1>1, TreeIs
<1> HIDE DEF c, n, P
<1>6. Tree(Sub(IF IS_LEAF(c.node) THEN c.node ELSE n, d.place, P, c.entries))
  BY <1>3, <1>4, <1>5
<1> QED BY <1>6 DEF c, n, P

-----------------------------------------------------------------------------
(* How deep a tree is.                                                      *)

\* A set that has 0 and with a number below n the next one has all up to n.
LEMMA Upward ==
    ASSUME NEW S, 0 \in S, NEW n \in Nat, \A i \in Nat : i < n /\ i \in S => i + 1 \in S
    PROVE  \A i \in 0..n : i \in S
<1> DEFINE Bad == {i \in 0..n : i \notin S}
<1>1. SUFFICES ASSUME Bad # {} PROVE FALSE
  OBVIOUS
<1>2. Bad \in SUBSET Nat
  OBVIOUS
<1>3. PICK m \in Bad : \A y \in Bad : m <= y
  BY <1>1, <1>2, LeastOfNaturals
<1>4. m \in Nat /\ m # 0 /\ m <= n /\ m \notin S
  BY <1>3
<1>5. m - 1 \in 0..n /\ m - 1 \in Nat /\ m - 1 < n /\ ~(m <= m - 1) /\ (m - 1) + 1 = m
  BY <1>4
<1>6. m - 1 \in S
  BY <1>3, <1>5
<1> QED BY <1>4, <1>5, <1>6

\* Longest is as long as every key.
LEMMA LongestIs ==
    /\ Longest \in Nat
    /\ \A k \in Key : Len(k) \in Nat /\ Len(k) <= Longest
<1>1. IsFiniteSet(Key) /\ Key \subseteq Seq(Byte)
  BY KeysAre
<1>a. PICK n \in Nat : ExistsBijection(1..n, Key)
  BY <1>1, FS_NatBijection
<1>2. PICK f \in [1..n -> Key] : \A k \in Key : \E i \in 1..n : f[i] = k
  BY <1>a DEF ExistsBijection, Bijection, Surjection, Injection
<1> DEFINE All == {Len(k) : k \in Key}
           S == {i \in 0..n : \E m \in {0} \union All : \A j \in 1..i : Len(f[j]) <= m}
<1>3. \A k \in Key : Len(k) \in Nat
  BY <1>1
<1>4. 0 \in S
  OBVIOUS
<1>5. ASSUME NEW i \in Nat, i < n /\ i \in S PROVE i + 1 \in S
  <2>1. PICK m \in {0} \union All : \A j \in 1..i : Len(f[j]) <= m
    BY <1>5
  <2>2. i + 1 \in 0..n /\ i + 1 \in 1..n /\ f[i + 1] \in Key
    BY <1>5
  <2>3. m \in Nat /\ Len(f[i + 1]) \in Nat /\ Len(f[i + 1]) \in All
    BY <1>3, <2>2
  <2>4. CASE Len(f[i + 1]) <= m
    <3>1. \A j \in 1..(i + 1) : Len(f[j]) <= m
      BY <2>1, <2>4
    <3> QED BY <2>2, <3>1
  <2>5. CASE ~(Len(f[i + 1]) <= m)
    <3>1. \A j \in 1..(i + 1) : Len(f[j]) <= Len(f[i + 1])
      <4> SUFFICES ASSUME NEW j \in 1..(i + 1) PROVE Len(f[j]) <= Len(f[i + 1])
        OBVIOUS
      <4>1. Len(f[j]) \in Nat
        <5>1. j \in 1..n
          BY ONLY <2>2, i \in Nat, n \in Nat, j \in 1..(i + 1)
        <5>2. f[j] \in Key
          BY <5>1
        <5> QED BY <1>3, <5>2
      <4>2. j = i + 1 \/ j \in 1..i
        OBVIOUS
      <4> QED BY <2>1, <2>3, <2>5, <4>1, <4>2
    <3> QED BY <2>2, <2>3, <3>1
  <2> QED BY <2>4, <2>5
<1>6. n \in S
  <2>1. n \in Nat /\ n \in 0..n
    OBVIOUS
  <2> HIDE DEF S
  <2> QED BY ONLY <1>4, <1>5, <2>1, Upward
<1>7. PICK m \in {0} \union All : \A j \in 1..n : Len(f[j]) <= m
  BY <1>6
<1>8. \A k \in Key : Len(k) <= m
  BY <1>2, <1>7
<1>9. Longest \in {0} \union All /\ \A k \in Key : Len(k) <= Longest
  BY <1>8, Zenon DEF Longest
<1> QED BY <1>3, <1>9

\* Inner nodes of a subtree lie less deep than its keys are long.
LEMMA Depth ==
    ASSUME NEW d, Tree(d)
    PROVE  /\ Len(d.place) \in Nat
           /\ \E x \in d.entries : TRUE
           /\ \A stem, child : Children(d, stem, child) => Len(d.place) < Longest
<1>1. Sound(d)
  BY TreeIs
<1>2. PICK x \in d.entries : TRUE
  BY <1>1 DEF Sound, Pairing
<1>3. d.place \in Seq(Byte)
  BY <1>1 DEF Sound
<1>4. ASSUME NEW stem, NEW child, Children(d, stem, child) PROVE Len(d.place) < Longest
  <2>1. PICK b \in Present(d.node) : x \in child[b].entries
    BY <1>2, <1>4 DEF Children, InnerSub
  <2>2. b \in Byte /\ stem \in Seq(Byte) /\ Begins(stem, d.place)
    BY <1>4 DEF Children, InnerSub, Present
  <2>3. Begins(x.key, Append(stem, b)) /\ x.key \in Key
    BY <1>3, <1>4, <2>1, ChildrenApart DEF Apart
  <2>4. x.key \in Seq(Byte) /\ Len(x.key) <= Longest /\ Len(x.key) \in Nat /\ Longest \in Nat
    BY <2>3, KeysAre, LongestIs
  <2>5. Len(stem) < Len(x.key)
    BY <2>2, <2>3, <2>4, BeginsMore
  <2>6. Len(d.place) <= Len(stem) /\ Len(d.place) \in Nat /\ Len(stem) \in Nat
    BY <1>3, <2>2 DEF Begins
  <2> QED BY <2>4, <2>5, <2>6
<1> QED BY <1>2, <1>3, <1>4

-----------------------------------------------------------------------------
(* The order of sequences.                                                  *)

\* A sequence starts with another.
Starts(s, t) == Len(t) <= Len(s) /\ \A i \in 1..Len(t) : s[i] = t[i]

\* Where two sequences differ, and are the same before.
Differ(s, t, i) ==
    i \in Nat /\ 1 <= i /\ i <= Len(s) /\ i <= Len(t) /\ \A h \in 1..(i - 1) : s[h] = t[h]

\* One sequence is before another where it is less at the first difference.
LEMMA BeforeIs ==
    ASSUME NEW s \in Seq(Nat), NEW t \in Seq(Nat)
    PROVE  /\ Before(s, t) <=> \E i : Differ(s, t, i) /\ s[i] < t[i]
           /\ Len(s) \in Nat /\ Len(t) \in Nat
<1>1. Len(s) \in Nat /\ Len(t) \in Nat
  OBVIOUS
<1>2. min(Len(s), Len(t)) \in Nat /\ \A i \in Nat : i <= min(Len(s), Len(t)) <=> i <= Len(s) /\ i <= Len(t)
  BY <1>1 DEF min
<1>3. \A i : i \in 1..min(Len(s), Len(t)) <=> i \in Nat /\ 1 <= i /\ i <= Len(s) /\ i <= Len(t)
  BY <1>2
<1> QED BY <1>1, <1>3 DEF Before, Differ

\* What goes on from two sequences is in their order.
LEMMA BeforeMore ==
    ASSUME NEW s \in Seq(Nat), NEW t \in Seq(Nat), Before(s, t),
           NEW u \in Seq(Nat), NEW w \in Seq(Nat), Starts(u, s), Starts(w, t)
    PROVE  Before(u, w)
<1>1. /\ Len(s) \in Nat /\ Len(t) \in Nat /\ Len(u) \in Nat /\ Len(w) \in Nat
      /\ Len(s) <= Len(u) /\ Len(t) <= Len(w)
  BY DEF Starts
<1>2. PICK i : Differ(s, t, i) /\ s[i] < t[i]
  BY BeforeIs
<1>3. \A h \in 1..i : h \in 1..Len(s) /\ h \in 1..Len(t) /\ u[h] = s[h] /\ w[h] = t[h]
  <2>1. i \in Nat /\ i <= Len(s) /\ i <= Len(t)
    BY <1>2 DEF Differ
  <2>2. \A h \in 1..i : h \in 1..Len(s) /\ h \in 1..Len(t)
    BY <1>1, <2>1
  <2> QED BY <2>2 DEF Starts
<1>4. i \in 1..i /\ \A h \in 1..(i - 1) : h \in 1..i
  BY <1>2 DEF Differ
<1>5. Differ(u, w, i) /\ u[i] < w[i]
  <2>1. i \in Nat /\ 1 <= i /\ i <= Len(s) /\ i <= Len(t) /\ \A h \in 1..(i - 1) : s[h] = t[h]
    BY <1>2 DEF Differ
  <2>2. i <= Len(u) /\ i <= Len(w)
    BY <1>1, <2>1
  <2>3. \A h \in 1..(i - 1) : u[h] = w[h]
    BY <1>3, <1>4, <2>1
  <2> QED BY <1>2, <1>3, <1>4, <2>1, <2>2, <2>3 DEF Differ
<1> QED BY <1>5, BeforeIs

\* Of two sequences one is before the other or one starts with the other; and not both.
LEMMA BeforeOr ==
    ASSUME NEW s \in Seq(Nat), NEW t \in Seq(Nat)
    PROVE  /\ Before(s, t) \/ Before(t, s) \/ Starts(s, t) \/ Starts(t, s)
           /\ ~(Before(s, t) /\ Before(t, s)) /\ ~(Before(s, t) /\ Starts(s, t))
           /\ ~(Before(s, t) /\ Starts(t, s))
<1>1. Len(s) \in Nat /\ Len(t) \in Nat
  OBVIOUS
<1> DEFINE D == {i \in Nat : 1 <= i /\ i <= Len(s) /\ i <= Len(t) /\ s[i] # t[i]}
<1>2. ASSUME D = {} PROVE Starts(s, t) \/ Starts(t, s)
  <2>1. \A i \in Nat : 1 <= i /\ i <= Len(s) /\ i <= Len(t) => s[i] = t[i]
    BY <1>2
  <2> HIDE DEF D
  <2>2. CASE Len(s) <= Len(t)
    <3>1. \A i \in 1..Len(s) : t[i] = s[i]
      BY <1>1, <2>1, <2>2
    <3> QED BY <2>2, <3>1 DEF Starts
  <2>3. CASE Len(t) <= Len(s)
    <3>1. \A i \in 1..Len(t) : s[i] = t[i]
      BY <1>1, <2>1, <2>3
    <3> QED BY <2>3, <3>1 DEF Starts
  <2> QED BY <1>1, <2>2, <2>3
<1>3. ASSUME D # {} PROVE Before(s, t) \/ Before(t, s)
  <2>1. PICK i \in D : \A h \in D : i <= h
    BY <1>3, LeastOfNaturals
  <2>2. i \in Nat /\ 1 <= i /\ i <= Len(s) /\ i <= Len(t) /\ s[i] # t[i]
    OBVIOUS
  <2>3. \A h \in 1..(i - 1) : s[h] = t[h]
    <3> SUFFICES ASSUME NEW h \in 1..(i - 1) PROVE s[h] = t[h]
      OBVIOUS
    <3>1. h \in Nat /\ 1 <= h /\ h <= Len(s) /\ h <= Len(t) /\ ~(i <= h)
      BY <1>1, <2>2
    <3> QED BY <2>1, <3>1
  <2> HIDE DEF D
  <2>4. Differ(s, t, i) /\ Differ(t, s, i)
    BY <2>2, <2>3 DEF Differ
  <2>5. s[i] \in Nat /\ t[i] \in Nat
    BY <1>1, <2>2
  <2>6. s[i] < t[i] \/ t[i] < s[i]
    BY <2>2, <2>5
  <2> QED BY <2>4, <2>6, BeforeIs
<1>4. ASSUME Before(s, t) PROVE ~Before(t, s) /\ ~Starts(s, t) /\ ~Starts(t, s)
  <2>1. PICK i : Differ(s, t, i) /\ s[i] < t[i]
    BY <1>4, BeforeIs
  <2>2. i \in 1..Len(s) /\ i \in 1..Len(t) /\ s[i] \in Nat /\ t[i] \in Nat
    BY <1>1, <2>1 DEF Differ
  <2>3. ASSUME NEW j, Differ(t, s, j), t[j] < s[j] PROVE FALSE
    <3>1. j \in 1..Len(s) /\ s[j] \in Nat /\ t[j] \in Nat /\ j \in Nat /\ i \in Nat
      BY <1>1, <2>1, <2>3 DEF Differ
    <3>2. CASE i < j
      <4>1. i \in 1..(j - 1)
        BY <2>2, <3>1, <3>2
      <4> QED BY <2>1, <2>2, <2>3, <4>1 DEF Differ
    <3>3. CASE j < i
      <4>1. j \in 1..(i - 1)
        BY <3>1, <3>3
      <4> QED BY <2>1, <2>3, <3>1, <4>1 DEF Differ
    <3>4. CASE i = j
      BY <2>1, <2>2, <2>3, <3>4
    <3> QED BY <3>1, <3>2, <3>3, <3>4
  <2> QED BY <2>1, <2>2, <2>3, BeforeIs DEF Starts
<1> QED BY <1>2, <1>3, <1>4

\* A sequence starts with itself and with what those start with that it starts with.
LEMMA StartsOn ==
    ASSUME NEW s \in Seq(Nat), NEW t \in Seq(Nat), NEW u \in Seq(Nat)
    PROVE  Starts(s, s) /\ (Starts(s, t) /\ Starts(t, u) => Starts(s, u))
<1>1. Len(s) \in Nat /\ Len(t) \in Nat /\ Len(u) \in Nat
  OBVIOUS
<1>2. Starts(s, s)
  BY <1>1 DEF Starts
<1>3. ASSUME Starts(s, t), Starts(t, u) PROVE Starts(s, u)
  <2>1. Len(u) <= Len(t) /\ Len(t) <= Len(s) /\ \A i \in 1..Len(u) : i \in 1..Len(t)
    BY <1>1, <1>3 DEF Starts
  <2>2. Len(u) <= Len(s)
    BY <1>1, <2>1
  <2> QED BY <1>3, <2>1, <2>2 DEF Starts
<1> QED BY <1>2, <1>3

\* The order with a number behind.
LEMMA BeforeLast ==
    ASSUME NEW s \in Seq(Nat), NEW t \in Seq(Nat), NEW p \in Nat, NEW q \in Nat
    PROVE  /\ Starts(Append(s, p), s) /\ Append(s, p) \in Seq(Nat)
           /\ Len(Append(s, p)) = Len(s) + 1
           /\ p < q => Before(Append(s, p), Append(s, q))
           /\ Len(t) <= Len(s) =>
                 /\ Before(Append(s, p), t) => Before(s, t)
                 /\ Before(t, Append(s, p)) => Before(t, s)
                 /\ Starts(Append(s, p), t) => Starts(s, t)
           /\ Len(s) = Len(t) =>
                 /\ Before(Append(s, p), Append(t, q)) => Before(s, t) \/ (s = t /\ p < q)
                 /\ Starts(Append(s, p), Append(t, q)) => s = t /\ p = q
<1>1. Len(s) \in Nat /\ Len(t) \in Nat
  OBVIOUS
<1> DEFINE u == Append(s, p)
           w == Append(t, q)
           x == Append(s, q)
<1>2. /\ u \in Seq(Nat) /\ Len(u) = Len(s) + 1 /\ \A i \in 1..Len(s) : u[i] = s[i]
      /\ u[Len(s) + 1] = p
  OBVIOUS
<1>3. /\ w \in Seq(Nat) /\ Len(w) = Len(t) + 1 /\ \A i \in 1..Len(t) : w[i] = t[i]
      /\ w[Len(t) + 1] = q
  OBVIOUS
<1>4. /\ x \in Seq(Nat) /\ Len(x) = Len(s) + 1 /\ \A i \in 1..Len(s) : x[i] = s[i]
      /\ x[Len(s) + 1] = q
  OBVIOUS
<1> HIDE DEF u, w, x
<1>5. Starts(u, s)
  BY <1>1, <1>2 DEF Starts
<1>6. ASSUME p < q PROVE Before(u, x)
  <2>1. Differ(u, x, Len(s) + 1) /\ u[Len(s) + 1] < x[Len(s) + 1]
    <3>1. (Len(s) + 1) - 1 = Len(s)
      BY <1>1
    <3> QED BY <1>1, <1>2, <1>4, <1>6, <3>1 DEF Differ
  <2> QED BY <1>2, <1>4, <2>1, BeforeIs
<1>7. ASSUME Len(t) <= Len(s)
      PROVE  /\ Before(u, t) => Before(s, t)
             /\ Before(t, u) => Before(t, s)
             /\ Starts(u, t) => Starts(s, t)
  <2>1. ASSUME NEW i, Differ(u, t, i) \/ Differ(t, u, i)
        PROVE  u[i] = s[i] /\ (Differ(u, t, i) => Differ(s, t, i)) /\ (Differ(t, u, i) => Differ(t, s, i))
    <3>1. i \in 1..Len(s) /\ \A h \in 1..(i - 1) : h \in 1..Len(s)
      BY <1>1, <1>2, <1>7, <2>1 DEF Differ
    <3>2. i <= Len(s)
      BY <3>1
    <3> QED BY <1>2, <2>1, <3>1, <3>2 DEF Differ
  <2>2. ASSUME Starts(u, t) PROVE Starts(s, t)
    <3>1. \A i \in 1..Len(t) : i \in 1..Len(s)
      BY <1>1, <1>7
    <3> QED BY <1>2, <1>7, <2>2, <3>1 DEF Starts
  <2> QED BY <1>2, <2>1, <2>2, BeforeIs
<1>8. ASSUME Len(s) = Len(t)
      PROVE  /\ Before(u, w) => Before(s, t) \/ (s = t /\ p < q)
             /\ Starts(u, w) => s = t /\ p = q
  <2>0. (\A i \in 1..Len(s) : s[i] = t[i]) => s = t
    BY <1>8
  <2>1. ASSUME Before(u, w) PROVE Before(s, t) \/ (s = t /\ p < q)
    <3>1. PICK i : Differ(u, w, i) /\ u[i] < w[i]
      BY <1>2, <1>3, <2>1, BeforeIs
    <3>2. i \in Nat /\ 1 <= i /\ i <= Len(s) + 1 /\ \A h \in 1..(i - 1) : u[h] = w[h]
      BY <1>2, <1>8, <3>1 DEF Differ
    <3>3. CASE i <= Len(s)
      <4>1. i \in 1..Len(s) /\ \A h \in 1..(i - 1) : h \in 1..Len(s)
        BY <1>1, <3>2, <3>3
      <4>2. u[i] = s[i] /\ w[i] = t[i] /\ \A h \in 1..(i - 1) : u[h] = s[h] /\ w[h] = t[h]
        BY <1>2, <1>3, <1>8, <4>1
      <4>3. Differ(s, t, i) /\ s[i] < t[i]
        BY <1>8, <3>1, <3>2, <3>3, <4>2 DEF Differ
      <4> QED BY <4>3, BeforeIs
    <3>4. CASE i = Len(s) + 1
      <4>1. i - 1 = Len(s)
        BY <1>1, <3>4
      <4>2. \A h \in 1..Len(s) : s[h] = t[h]
        BY <1>2, <1>3, <1>8, <3>2, <4>1
      <4>3. u[i] = p /\ w[i] = q
        BY <1>2, <1>3, <1>8, <3>4
      <4> QED BY <2>0, <3>1, <4>2, <4>3
    <3> QED BY <1>1, <3>2, <3>3, <3>4
  <2>2. ASSUME Starts(u, w) PROVE s = t /\ p = q
    <3>1. \A i \in 1..(Len(s) + 1) : u[i] = w[i]
      BY <1>3, <1>8, <2>2 DEF Starts
    <3>2. Len(s) + 1 \in 1..(Len(s) + 1) /\ \A i \in 1..Len(s) : i \in 1..(Len(s) + 1)
      BY <1>1
    <3>3. \A i \in 1..Len(s) : s[i] = t[i]
      BY <1>2, <1>3, <1>8, <3>1, <3>2
    <3> QED BY <1>2, <1>3, <1>8, <2>0, <3>1, <3>2, <3>3
  <2> QED BY <2>1, <2>2
<1> QED BY <1>2, <1>5, <1>6, <1>7, <1>8 DEF u, w, x

\* A place or key begins with another just if it starts with it.
LEMMA BytesStart ==
    ASSUME NEW s \in Seq(Byte), NEW t \in Seq(Byte)
    PROVE  s \in Seq(Nat) /\ t \in Seq(Nat) /\ (Begins(s, t) <=> Starts(s, t))
<1>1. Byte \subseteq Nat
  BY SizesOrdered DEF Byte
<1>2. s \in Seq(Nat) /\ t \in Seq(Nat)
  BY <1>1, SeqMonotonic
<1> QED BY <1>2, BeginsIf DEF Starts

-----------------------------------------------------------------------------
(* Nodes in order.                                                          *)

\* The keys of a list, in rising order.
Rising(n) == Listed(n) => \A i, j \in 1..n.num_children : i < j => n.keys[i] < n.keys[j]

\* A node that has its keys in order, as all below it have.
Ordered(n) ==
    \E S : /\ n \in S
           /\ \A m \in S : AtEnd(m) \/ (Rising(m) /\ \A b \in Present(m) : find_child(m, b) \in S)

\* What is in order: a leaf, and a node with its keys in order and children in order.
LEMMA OrderedIs ==
    ASSUME NEW n
    PROVE  Ordered(n) <=> AtEnd(n) \/ (Rising(n) /\ \A b \in Present(n) : Ordered(find_child(n, b)))
<1> DEFINE In(S, m) == AtEnd(m) \/ (Rising(m) /\ \A b \in Present(m) : find_child(m, b) \in S)
<1>1. ASSUME Ordered(n), ~AtEnd(n)
      PROVE  Rising(n) /\ \A b \in Present(n) : Ordered(find_child(n, b))
  <2>1. PICK S : n \in S /\ \A m \in S : In(S, m)
    BY <1>1 DEF Ordered
  <2>2. \A m \in S : Ordered(m)
    BY <2>1 DEF Ordered
  <2> QED BY <1>1, <2>1, <2>2
<1>2. ASSUME AtEnd(n) PROVE Ordered(n)
  <2>1. n \in {n} /\ \A m \in {n} : In({n}, m)
    BY <1>2
  <2> QED BY <2>1 DEF Ordered
<1>3. ASSUME Rising(n), \A b \in Present(n) : Ordered(find_child(n, b)) PROVE Ordered(n)
  <2> DEFINE Of(b) == CHOOSE S : find_child(n, b) \in S /\ \A m \in S : In(S, m)
             T == {n} \union UNION {Of(b) : b \in Present(n)}
  <2>1. ASSUME NEW b \in Present(n)
        PROVE  find_child(n, b) \in Of(b) /\ \A m \in Of(b) : In(Of(b), m)
    <3>1. \E S : find_child(n, b) \in S /\ \A m \in S : In(S, m)
      BY <1>3 DEF Ordered
    <3> HIDE DEF In
    <3> QED BY <3>1
  <2> HIDE DEF Of
  <2>2. \A b \in Present(n) : Of(b) \subseteq T
    OBVIOUS
  <2>3. n \in T /\ \A m \in T : m = n \/ \E b \in Present(n) : m \in Of(b)
    OBVIOUS
  <2> HIDE DEF T
  <2>4. ASSUME NEW m \in T PROVE In(T, m)
    <3>1. CASE m = n
      BY <1>3, <2>1, <2>2, <3>1
    <3>2. ASSUME NEW b \in Present(n), m \in Of(b) PROVE In(T, m)
      BY <2>1, <2>2, <3>2
    <3> QED BY <2>3, <3>1, <3>2
  <2> QED BY <2>3, <2>4 DEF Ordered
<1> QED BY <1>1, <1>2, <1>3

-----------------------------------------------------------------------------
(* The first and the last leaf.                                             *)

\* The child that the way down to the first leaf goes on to, or to the last.
SideChild(side, n) == IF side = "first" THEN LeastChild(n) ELSE GreatestChild(n)

\* The ways down from a node as far as their a-th step.
SideStep(side, m) == IF AtEnd(m) THEN m ELSE SideChild(side, m)

Downs(side, n, a, f) ==
    /\ f = [i \in 0..a |-> f[i]]
    /\ \A i \in 0..a : f[i] = IF i = 0 THEN {n} ELSE {SideStep(side, m) : m \in f[i - 1]}

\* The ways down that minimum and maximum are defined with exist.
LEMMA DownsExist ==
    ASSUME NEW n
    PROVE  /\ \E f : Downs("first", n, Longest, f) /\ minimum(n) = CHOOSE m \in f[Longest] : TRUE
           /\ \E f : Downs("last", n, Longest, f) /\ maximum(n) = CHOOSE m \in f[Longest] : TRUE
<1>1. ASSUME NEW side PROVE \E f : Downs(side, n, Longest, f)
  <2> DEFINE S == {a \in Nat : \E f : Downs(side, n, a, f)}
  <2>1. 0 \in S
    <3> DEFINE f == [i \in 0..0 |-> {n}]
    <3>1. f[0] = {n} /\ \A i \in 0..0 : i = 0
      OBVIOUS
    <3> QED BY <3>1 DEF Downs
  <2>2. ASSUME NEW a \in Nat, a \in S PROVE a + 1 \in S
    <3>1. PICK f : Downs(side, n, a, f)
      BY <2>2
    <3>2. PICK last : last = {SideStep(side, m) : m \in f[a]}
      BY Zenon
    <3>3. PICK g : g = [i \in 0..(a + 1) |-> IF i = a + 1 THEN last ELSE f[i]]
      BY Zenon
    <3>4. ASSUME NEW i \in 0..(a + 1)
          PROVE  g[i] = IF i = 0 THEN {n} ELSE {SideStep(side, m) : m \in g[i - 1]}
      <4>1. CASE i = a + 1
        <5>1. /\ a \in 0..(a + 1) /\ a + 1 \in 0..(a + 1) /\ a # a + 1 /\ i # 0 /\ i - 1 = a
          BY <4>1
        <5>2. g[i] = last /\ g[i - 1] = f[a]
          BY <3>3, <4>1, <5>1
        <5> QED BY <3>2, <5>1, <5>2
      <4>2. CASE i # a + 1
        <5>1. i \in 0..a
          BY <4>2
        <5>2. f[i] = IF i = 0 THEN {n} ELSE {SideStep(side, m) : m \in f[i - 1]}
          BY <3>1, <5>1, Zenon DEF Downs
        <5>3. i # 0 => i - 1 \in 0..(a + 1) /\ i - 1 # a + 1
          BY <5>1
        <5>4. i # 0 => g[i - 1] = f[i - 1]
          BY <3>3, <5>3
        <5> QED BY <3>3, <4>2, <5>2, <5>4, Zenon
      <4> QED BY <4>1, <4>2
    <3>5. g = [i \in 0..(a + 1) |-> g[i]]
      BY <3>3
    <3>6. Downs(side, n, a + 1, g)
      BY <3>4, <3>5, Zenon DEF Downs
    <3> QED BY <3>6
  <2>3. Longest \in S
    <3>1. Longest \in Nat
      BY LongestIs
    <3> HIDE DEF S
    <3> QED BY <2>1, <2>2, <3>1, Upward
  <2> QED BY <2>3
<1>2. \E f : Downs("first", n, Longest, f) /\ minimum(n) = CHOOSE m \in f[Longest] : TRUE
  <2> DEFINE A == CHOOSE at :
                     at = [i \in 0..Longest |->
                             IF i = 0 THEN {n}
                             ELSE {IF AtEnd(m) THEN m ELSE LeastChild(m) : m \in at[i - 1]}]
  <2>1. minimum(n) = CHOOSE m \in A[Longest] : TRUE
    BY DEF minimum
  <2>2. \A m : SideStep("first", m) = IF AtEnd(m) THEN m ELSE LeastChild(m)
    BY DEF SideStep, SideChild
  <2>3. \A X : {SideStep("first", m) : m \in X} = {IF AtEnd(m) THEN m ELSE LeastChild(m) : m \in X}
    BY <2>2
  <2>4. PICK f : Downs("first", n, Longest, f)
    BY <1>1
  <2>5. f = [i \in 0..Longest |->
                IF i = 0 THEN {n}
                ELSE {IF AtEnd(m) THEN m ELSE LeastChild(m) : m \in f[i - 1]}]
    BY <2>3, <2>4, Zenon DEF Downs
  <2>6. A = [i \in 0..Longest |->
                IF i = 0 THEN {n}
                ELSE {IF AtEnd(m) THEN m ELSE LeastChild(m) : m \in A[i - 1]}]
    BY <2>5, Zenon
  <2> HIDE DEF A
  <2>7. Downs("first", n, Longest, A)
    BY <2>3, <2>6, Zenon DEF Downs
  <2> QED BY <2>1, <2>7
<1>3. \E f : Downs("last", n, Longest, f) /\ maximum(n) = CHOOSE m \in f[Longest] : TRUE
  <2> DEFINE A == CHOOSE at :
                     at = [i \in 0..Longest |->
                             IF i = 0 THEN {n}
                             ELSE {IF AtEnd(m) THEN m ELSE GreatestChild(m) : m \in at[i - 1]}]
  <2>1. maximum(n) = CHOOSE m \in A[Longest] : TRUE
    BY DEF maximum
  <2>2. \A m : SideStep("last", m) = IF AtEnd(m) THEN m ELSE GreatestChild(m)
    BY DEF SideStep, SideChild
  <2>3. \A X : {SideStep("last", m) : m \in X} = {IF AtEnd(m) THEN m ELSE GreatestChild(m) : m \in X}
    BY <2>2
  <2>4. PICK f : Downs("last", n, Longest, f)
    BY <1>1
  <2>5. f = [i \in 0..Longest |->
                IF i = 0 THEN {n}
                ELSE {IF AtEnd(m) THEN m ELSE GreatestChild(m) : m \in f[i - 1]}]
    BY <2>3, <2>4, Zenon DEF Downs
  <2>6. A = [i \in 0..Longest |->
                IF i = 0 THEN {n}
                ELSE {IF AtEnd(m) THEN m ELSE GreatestChild(m) : m \in A[i - 1]}]
    BY <2>5, Zenon
  <2> HIDE DEF A
  <2>7. Downs("last", n, Longest, A)
    BY <2>3, <2>6, Zenon DEF Downs
  <2> QED BY <2>1, <2>7
<1> QED BY <1>2, <1>3

\* A set of numbers up to one has a greatest.
LEMMA GreatestIn ==
    ASSUME NEW N \in Nat, NEW S, S \subseteq 0..N, S # {}
    PROVE  Greatest(S) \in S /\ \A y \in S : y <= Greatest(S)
<1> DEFINE T == {z \in Nat : \E x \in S : z = N - x}
<1>1. \A x \in S : x \in Nat /\ x <= N /\ N - x \in Nat
  OBVIOUS
<1>2. T \in SUBSET Nat /\ T # {}
  BY <1>1
<1>3. PICK m \in T : \A z \in T : m <= z
  BY <1>2, LeastOfNaturals
<1>4. PICK x \in S : m = N - x
  OBVIOUS
<1>5. \A y \in S : y <= x
  <2> SUFFICES ASSUME NEW y \in S PROVE y <= x
    OBVIOUS
  <2>1. N - y \in T
    BY <1>1
  <2>2. N - x <= N - y
    BY <1>3, <1>4, <2>1
  <2> QED BY <1>1, <2>2
<1> HIDE DEF T
<1> QED BY <1>5 DEF Greatest

\* A key or a byte is next to the first or the last of others on their side.
Outer(side, s, t) == IF side = "first" THEN Before(s, t) ELSE Before(t, s)

\* The child on the way down is one of the node, in order the outermost one.
LEMMA SideChildIs ==
    ASSUME NEW d, NEW stem, NEW child, Children(d, stem, child), NEW side \in {"first", "last"}
    PROVE  \E b \in Present(d.node) :
               /\ SideChild(side, d.node) = child[b].node
               /\ Rising(d.node) => \A a \in Present(d.node) :
                                        a = b \/ IF side = "first" THEN b < a ELSE a < b
<1> DEFINE n == d.node
<1>1. /\ Fits(n) /\ \A b \in Present(n) : child[b].node = find_child(n, b)
      /\ Present(n) \subseteq Byte /\ Byte \subseteq Nat
  BY DEF Children, InnerSub, Present, Byte
<1>2. Present(n) # {}
  BY <1>1, TwoPresent
<1> HIDE DEF n
<1> DEFINE Side(b) == Rising(n) => \A a \in Present(n) :
                                       a = b \/ IF side = "first" THEN b < a ELSE a < b
<1> SUFFICES \E b \in Present(n) : SideChild(side, n) = find_child(n, b) /\ Side(b)
  BY <1>1 DEF n
<1>3. CASE Listed(n)
  <2>1. PICK C : NULL \notin C /\ WellFormed(n, C)
    BY <1>1 DEF Fits
  <2>2. n.num_children \in Nat /\ ListsPresent(n)
    BY <1>3, <2>1, ListedPresent DEF Listed
  <2>3. 1 \in 1..n.num_children /\ n.num_children \in 1..n.num_children
    <3>1. PICK i \in 1..n.num_children : TRUE
      BY <1>2, <2>2 DEF ListsPresent
    <3> QED BY <2>2, <3>1
  <2> DEFINE p == IF side = "first" THEN 1 ELSE n.num_children
             b == n.keys[p]
  <2>4. p \in 1..n.num_children
    BY <2>3
  <2>5. SideChild(side, n) = n.children[p]
    BY <1>3 DEF SideChild, LeastChild, GreatestChild
  <2>6. b \in Present(n) /\ n.children[p] = find_child(n, b)
    <3> HIDE DEF p
    <3> QED BY <2>2, <2>4 DEF ListsPresent
  <2>7. ASSUME Rising(n), NEW a \in Present(n) PROVE a = b \/ IF side = "first" THEN b < a ELSE a < b
    <3>1. PICK i \in 1..n.num_children : n.keys[i] = a
      BY <2>2 DEF ListsPresent
    <3>2. \A j, h \in 1..n.num_children : j < h => n.keys[j] < n.keys[h]
      BY <1>3, <2>7 DEF Rising
    <3>3. CASE side = "first"
      BY <2>3, <3>1, <3>2, <3>3
    <3>4. CASE side # "first"
      BY <2>2, <2>3, <3>1, <3>2, <3>4
    <3> QED BY <3>3, <3>4
  <2> HIDE DEF b, p
  <2> QED BY <2>5, <2>6, <2>7
<1>4. CASE ~Listed(n)
  <2>1. Least(Present(n)) \in Present(n) /\ \A a \in Present(n) : Least(Present(n)) <= a
    BY <1>1, <1>2, LeastIn
  <2>2. Greatest(Present(n)) \in Present(n) /\ \A a \in Present(n) : a <= Greatest(Present(n))
    <3>1. ByteCount - 1 \in Nat /\ Present(n) \subseteq 0..(ByteCount - 1)
      BY <1>1, <1>2, SizesOrdered DEF Byte
    <3> QED BY <1>2, <3>1, GreatestIn
  <2> DEFINE b == IF side = "first" THEN Least(Present(n)) ELSE Greatest(Present(n))
  <2>3. b \in Present(n) /\ SideChild(side, n) = find_child(n, b)
    BY <1>4, <2>1, <2>2 DEF SideChild, LeastChild, GreatestChild
  <2>4. \A a \in Present(n) : a = b \/ IF side = "first" THEN b < a ELSE a < b
    <3>1. \A a \in Present(n) : a \in Nat
      BY <1>1
    <3> QED BY <2>1, <2>2, <3>1
  <2> HIDE DEF b
  <2> QED BY <2>3, <2>4
<1> QED BY <1>3, <1>4

\* The keys below the children of a subtree are in the order of the bytes.
LEMMA ChildrenBefore ==
    ASSUME NEW d, Tree(d), NEW stem, NEW child, Children(d, stem, child),
           NEW a \in Present(d.node), NEW b \in Present(d.node), a < b,
           NEW x \in child[a].entries, NEW y \in child[b].entries
    PROVE  Before(x.key, y.key)
<1>1. Apart(d, stem, child) /\ Present(d.node) \subseteq Byte /\ stem \in Seq(Byte)
  BY NodeThere, ChildrenApart
<1>2. /\ x.key \in Seq(Byte) /\ Begins(x.key, Append(stem, a))
      /\ y.key \in Seq(Byte) /\ Begins(y.key, Append(stem, b))
  BY <1>1, KeysAre DEF Apart
<1>3. a \in Byte /\ b \in Byte /\ a \in Nat /\ b \in Nat
  BY <1>1, SizesOrdered DEF Byte
<1>4. Append(stem, a) \in Seq(Byte) /\ Append(stem, b) \in Seq(Byte)
  BY <1>1, <1>3, Appended
<1>5. /\ Starts(x.key, Append(stem, a)) /\ Starts(y.key, Append(stem, b))
      /\ x.key \in Seq(Nat) /\ y.key \in Seq(Nat) /\ stem \in Seq(Nat)
      /\ Append(stem, a) \in Seq(Nat) /\ Append(stem, b) \in Seq(Nat)
  BY <1>1, <1>2, <1>4, BytesStart
<1>6. Before(Append(stem, a), Append(stem, b))
  BY <1>3, <1>5, BeforeLast
<1> QED BY <1>5, <1>6, BeforeMore

\* The way down ends at an entry of the subtree, in order the outermost one.
LEMMA SideEnd ==
    ASSUME NEW d, Tree(d), NEW side \in {"first", "last"},
           NEW f, Downs(side, d.node, Longest, f)
    PROVE  \E x \in d.entries :
               /\ f[Longest] = {make_leaf(x.key, x.value)}
               /\ Ordered(d.node) => \A y \in d.entries : y = x \/ Outer(side, x.key, y.key)
<1> DEFINE Outermost(c) ==
               Ordered(d.node) => /\ Ordered(c.node)
                                  /\ \A x \in c.entries, y \in d.entries :
                                         y \in c.entries \/ Outer(side, x.key, y.key)
           Reached(i, m) == \E c : /\ Tree(c) /\ c.node = m /\ c.entries \subseteq d.entries
                                   /\ AtEnd(m) \/ Len(c.place) >= i
                                   /\ Outermost(c)
           S == {i \in Nat : i <= Longest => \E m : f[i] = {m} /\ Reached(i, m)}
<1>1. 0 \in S
  <2>1. f[0] = {d.node}
    BY LongestIs DEF Downs
  <2>2. Len(d.place) >= 0
    BY Depth
  <2>3. Outermost(d)
    OBVIOUS
  <2> HIDE DEF Outermost
  <2>4. Reached(0, d.node)
    BY <2>2, <2>3
  <2> HIDE DEF Reached
  <2> QED BY <2>1, <2>4
<1>2. ASSUME NEW i \in Nat, i < Longest, i \in S PROVE i + 1 \in S
  <2>1. PICK m : f[i] = {m} /\ Reached(i, m)
    <3> HIDE DEF Reached
    <3> QED BY <1>2, LongestIs
  <2>2. f[i + 1] = {SideStep(side, m)}
    <3>1. i + 1 \in 0..Longest /\ i + 1 # 0 /\ (i + 1) - 1 = i
      BY <1>2, LongestIs
    <3>2. f[i + 1] = {SideStep(side, x) : x \in f[i]}
      BY <3>1 DEF Downs
    <3> QED BY <2>1, <3>2
  <2>3. PICK c : /\ Tree(c) /\ c.node = m /\ c.entries \subseteq d.entries
                 /\ AtEnd(m) \/ Len(c.place) >= i
                 /\ Outermost(c)
    BY <2>1
  <2>4. CASE AtEnd(m)
    <3> HIDE DEF Outermost
    <3>1. Reached(i + 1, m)
      BY <2>3, <2>4
    <3> HIDE DEF Reached
    <3> QED BY <2>2, <2>4, <3>1 DEF SideStep
  <2>5. CASE ~AtEnd(m)
    <3>1. PICK stem, child : Children(c, stem, child)
      <4>1. ~ \E k, v : LeafSub(c, k, v)
        BY <2>3, <2>5 DEF LeafSub, AtEnd, IS_LEAF, make_leaf
      <4> QED BY <2>3, <4>1, TreeIs
    <3>2. PICK b \in Present(c.node) :
              /\ SideChild(side, c.node) = child[b].node
              /\ Rising(c.node) => \A a \in Present(c.node) :
                                       a = b \/ IF side = "first" THEN b < a ELSE a < b
      BY <3>1, SideChildIs
    <3>3. /\ Tree(child[b]) /\ child[b].entries \subseteq c.entries
          /\ child[b].place = Append(stem, b) /\ b \in Byte
          /\ stem \in Seq(Byte) /\ Begins(stem, c.place)
          /\ child[b].node = find_child(c.node, b)
          /\ c.entries = UNION {child[a].entries : a \in Present(c.node)}
      BY <3>1 DEF Children, InnerSub, Present
    <3>4. Len(child[b].place) >= i + 1
      <4>1. Len(child[b].place) = Len(stem) + 1 /\ Len(stem) \in Nat
        BY <3>3, Appended
      <4>2. Len(c.place) <= Len(stem)
        BY <3>3 DEF Begins
      <4>3. Len(c.place) \in Nat
        BY <2>3, Depth
      <4> QED BY <2>3, <2>5, <4>1, <4>2, <4>3
    <3>5. ASSUME Ordered(d.node)
          PROVE  /\ Ordered(child[b].node)
                 /\ \A x \in child[b].entries, y \in d.entries :
                        y \in child[b].entries \/ Outer(side, x.key, y.key)
      <4>1. Ordered(c.node)
        BY <2>3, <3>5
      <4>2. Rising(c.node) /\ Ordered(child[b].node)
        BY <2>3, <2>5, <3>3, <4>1, OrderedIs
      <4>3. ASSUME NEW x \in child[b].entries, NEW y \in d.entries, y \notin child[b].entries
            PROVE  Outer(side, x.key, y.key)
        <5>1. CASE y \notin c.entries
          BY <2>3, <3>3, <3>5, <4>3, <5>1
        <5>2. CASE y \in c.entries
          <6>1. PICK a \in Present(c.node) : y \in child[a].entries
            BY <3>3, <5>2
          <6>2. IF side = "first" THEN b < a ELSE a < b
            BY <3>2, <4>2, <4>3, <6>1
          <6> QED BY <2>3, <3>1, <4>3, <6>1, <6>2, ChildrenBefore DEF Outer
        <5> QED BY <5>1, <5>2
      <4> QED BY <4>2, <4>3
    <3>6. Outermost(child[b])
      BY <3>5
    <3>7. child[b].entries \subseteq d.entries
      BY <2>3, <3>3
    <3> HIDE DEF Outermost
    <3>8. Reached(i + 1, SideChild(side, m))
      BY <2>3, <3>2, <3>3, <3>4, <3>6, <3>7
    <3> HIDE DEF Reached
    <3> QED BY <2>2, <2>5, <3>8 DEF SideStep
  <2> QED BY <2>4, <2>5
<1>3. Longest \in S
  <2>1. Longest \in Nat
    BY LongestIs
  <2> HIDE DEF S
  <2> QED BY <1>1, <1>2, <2>1, Upward
<1>4. PICK m : f[Longest] = {m} /\ Reached(Longest, m)
  BY <1>3, LongestIs
<1>5. PICK c : /\ Tree(c) /\ c.node = m /\ c.entries \subseteq d.entries
               /\ AtEnd(m) \/ Len(c.place) >= Longest
               /\ Outermost(c)
  BY <1>4
<1>6. PICK k, v : LeafSub(c, k, v)
  <2>1. ASSUME NEW stem, NEW child, Children(c, stem, child) PROVE FALSE
    <3>1. ~AtEnd(m)
      BY <1>5, <2>1, TwoPresent DEF Children, InnerSub
    <3>2. Len(c.place) < Longest /\ Len(c.place) \in Nat /\ Longest \in Nat
      BY <1>5, <2>1, Depth, LongestIs
    <3> QED BY <1>5, <3>1, <3>2
  <2> QED BY <1>5, <2>1, TreeIs
<1> DEFINE x == EntryOf(k, v)
<1>7. x \in d.entries /\ m = make_leaf(k, v) /\ c.entries = {x}
  BY <1>5, <1>6 DEF LeafSub
<1>8. x.key = k /\ x.value = v
  BY DEF EntryOf
<1> HIDE DEF x
<1>9. Ordered(d.node) => \A y \in d.entries : y = x \/ Outer(side, x.key, y.key)
  BY <1>5, <1>7
<1> QED BY <1>4, <1>7, <1>8, <1>9

\* The least leaf of a subtree is one of its entries, in order the first one.
LEMMA MinimumIs ==
    ASSUME NEW d, Tree(d)
    PROVE  \E x \in d.entries :
               /\ minimum(d.node) = make_leaf(x.key, x.value)
               /\ Ordered(d.node) => \A y \in d.entries : y = x \/ Before(x.key, y.key)
<1>1. PICK f : /\ Downs("first", d.node, Longest, f)
               /\ minimum(d.node) = CHOOSE m \in f[Longest] : TRUE
  BY DownsExist
<1>2. PICK x \in d.entries :
          /\ f[Longest] = {make_leaf(x.key, x.value)}
          /\ Ordered(d.node) => \A y \in d.entries : y = x \/ Outer("first", x.key, y.key)
  BY <1>1, SideEnd
<1>3. minimum(d.node) = make_leaf(x.key, x.value)
  BY <1>1, <1>2
<1> QED BY <1>2, <1>3 DEF Outer

\* The greatest one is in order the last.
LEMMA MaximumIs ==
    ASSUME NEW d, Tree(d)
    PROVE  \E x \in d.entries :
               /\ maximum(d.node) = make_leaf(x.key, x.value)
               /\ Ordered(d.node) => \A y \in d.entries : y = x \/ Before(y.key, x.key)
<1>1. PICK f : /\ Downs("last", d.node, Longest, f)
               /\ maximum(d.node) = CHOOSE m \in f[Longest] : TRUE
  BY DownsExist
<1>2. PICK x \in d.entries :
          /\ f[Longest] = {make_leaf(x.key, x.value)}
          /\ Ordered(d.node) => \A y \in d.entries : y = x \/ Outer("last", x.key, y.key)
  BY <1>1, SideEnd
<1>3. maximum(d.node) = make_leaf(x.key, x.value)
  BY <1>1, <1>2
<1> QED BY <1>2, <1>3 DEF Outer

-----------------------------------------------------------------------------
(* What the calls see of a prefix.                                          *)

\* Two sequences agree in a bytes and not in the next.
Shares(s, t, a) ==
    /\ a \in Nat /\ a <= Len(s) /\ a <= Len(t)
    /\ \A i \in 1..a : s[i] = t[i]
    /\ a < Len(s) /\ a < Len(t) => s[a + 1] # t[a + 1]

\* Two sequences agree as far as they share their bytes.
LEMMA AgreeShares ==
    ASSUME NEW s \in Seq(Byte), NEW t \in Seq(Byte)
    PROVE  /\ Shares(s, t, Agree(s, t))
           /\ \A a : Shares(s, t, a) => Agree(s, t) = a
<1>1. Shares(s, t, Agree(s, t))
  BY AgreeIf DEF Shares
<1>2. ASSUME NEW a, NEW g, Shares(s, t, a), Shares(s, t, g) PROVE ~(g < a)
  <2>1. a \in Nat /\ g \in Nat /\ Len(s) \in Nat /\ Len(t) \in Nat
    BY <1>2 DEF Shares
  <2>2. SUFFICES ASSUME g < a PROVE FALSE
    OBVIOUS
  <2>3. g + 1 \in 1..a /\ g < Len(s) /\ g < Len(t)
    BY <1>2, <2>1, <2>2 DEF Shares
  <2> QED BY <1>2, <2>3 DEF Shares
<1>3. ASSUME NEW a, Shares(s, t, a) PROVE Agree(s, t) = a
  <2> DEFINE g == Agree(s, t)
  <2>1. a \in Nat /\ g \in Nat
    BY <1>1, <1>3 DEF Shares
  <2>2. ~(g < a) /\ ~(a < g)
    BY <1>1, <1>2, <1>3
  <2> HIDE DEF g
  <2>3. g = a
    BY <2>1, <2>2
  <2> QED BY <2>3 DEF g
<1> QED BY <1>1, <1>3

\* The beginning of a sequence agrees with another one as far as the sequence does.
LEMMA AgreeLess ==
    ASSUME NEW u \in Seq(Byte), NEW s \in Seq(Byte), NEW t \in Seq(Byte),
           Len(s) <= Len(u), \A i \in 1..Len(s) : s[i] = u[i]
    PROVE  /\ Agree(s, t) = min(Agree(u, t), Len(s))
           /\ Agree(s, t) \in Nat /\ Agree(u, t) \in Nat
           /\ Agree(s, t) <= Len(s) /\ Agree(s, t) <= Len(t)
<1>1. PICK g \in Nat : g = Agree(u, t) /\ Shares(u, t, g)
  BY AgreeShares DEF Shares
<1>2. Len(s) \in Nat /\ Len(u) \in Nat /\ Len(t) \in Nat
  OBVIOUS
<1>3. Shares(s, t, min(g, Len(s)))
  <2>1. CASE g <= Len(s)
    <3>1. min(g, Len(s)) = g
      BY <1>2, <2>1 DEF min
    <3>2. \A i \in 1..g : i \in 1..Len(s)
      BY <1>2, <2>1
    <3>3. g < Len(s) => g + 1 \in 1..Len(s) /\ g < Len(u)
      BY <1>2
    <3>4. Shares(s, t, g)
      BY <1>1, <2>1, <3>2, <3>3 DEF Shares
    <3> QED BY <3>1, <3>4
  <2>2. CASE g > Len(s)
    <3>1. min(g, Len(s)) = Len(s)
      BY <1>2, <2>2 DEF min
    <3>2. \A i \in 1..Len(s) : i \in 1..g
      BY <1>2, <2>2
    <3>3. Len(s) <= Len(t)
      BY <1>1, <1>2, <2>2 DEF Shares
    <3>4. Shares(s, t, Len(s))
      BY <1>1, <1>2, <3>2, <3>3 DEF Shares
    <3> QED BY <3>1, <3>4
  <2> QED BY <1>2, <2>1, <2>2
<1>4. Agree(s, t) = min(g, Len(s))
  BY <1>3, AgreeShares
<1> QED BY <1>1, <1>3, <1>4 DEF Shares

\* The bytes of the prefix of a node.
LEMMA PrefixIs ==
    ASSUME NEW d, Tree(d), NEW stem, NEW child, Children(d, stem, child)
    PROVE  \E s \in Seq(Byte) :
               /\ s = From(stem, Len(d.place)) /\ Len(s) = Len(stem) - Len(d.place)
               /\ Len(s) \in Nat /\ Len(d.place) \in Nat /\ Len(stem) \in Nat
               /\ \A i \in 1..Len(s) : s[i] = stem[Len(d.place) + i]
               /\ d.node.partial_len = Len(s) /\ d.node.partial = Stored(s)
               /\ stem \in Seq(Byte) /\ d.place \in Seq(Byte) /\ Begins(stem, d.place)
<1>1. /\ stem \in Seq(Byte) /\ Begins(stem, d.place) /\ d.place \in Seq(Byte)
      /\ d.node.partial_len = Len(stem) - Len(d.place)
      /\ d.node.partial = Stored(From(stem, Len(d.place)))
  BY NodeThere DEF Children, InnerSub
<1>2. Len(d.place) \in Nat /\ Len(d.place) <= Len(stem) /\ Len(stem) \in Nat
  BY <1>1 DEF Begins
<1>3. PICK s \in Seq(Byte) : /\ s = From(stem, Len(d.place)) /\ Len(s) = Len(stem) - Len(d.place)
                             /\ Len(s) \in Nat
                             /\ \A i \in 1..Len(s) : s[i] = stem[Len(d.place) + i]
  BY ONLY <1>1, <1>2, FromBack
<1> QED BY <1>1, <1>2, <1>3

\* The bytes of a stem behind the first p.
Back(s, stem, p) ==
    /\ p \in Nat /\ p <= Len(stem)
    /\ s \in Seq(Byte) /\ Len(s) = Len(stem) - p
    /\ \A i \in 1..Len(s) : s[i] = stem[p + i]

\* The bytes from a depth on of what begins with a stem begin with those of the stem.
LEMMA FromBegins ==
    ASSUME NEW k \in Seq(Byte), NEW stem \in Seq(Byte), Begins(k, stem), NEW p, NEW s,
           Back(s, stem, p)
    PROVE  \E u \in Seq(Byte) : /\ u = From(k, p) /\ Len(u) = Len(k) - p
                                /\ Len(s) <= Len(u) /\ \A i \in 1..Len(s) : s[i] = u[i]
<1> USE DEF Back
<1>1. Len(stem) <= Len(k) /\ \A i \in 1..Len(stem) : k[i] = stem[i]
  BY BeginsIf
<1>2. p \in Nat /\ p <= Len(k) /\ Len(stem) \in Nat /\ Len(k) \in Nat
  BY <1>1
<1>3. PICK u \in Seq(Byte) : /\ u = From(k, p) /\ Len(u) = Len(k) - p /\ Len(u) \in Nat
                             /\ \A i \in 1..Len(u) : u[i] = k[p + i]
  BY ONLY <1>2, k \in Seq(Byte), FromBack
<1>5. Len(s) <= Len(u) /\ Len(s) = Len(stem) - p
  BY <1>1, <1>2, <1>3
<1>4. \A i \in 1..Len(s) : i \in 1..Len(u) /\ p + i \in 1..Len(stem)
  BY <1>2, <1>3, <1>5
<1>6. \A i \in 1..Len(s) : s[i] = u[i]
  BY <1>1, <1>3, <1>4
<1> QED BY <1>3, <1>5, <1>6

\* prefix_mismatch is told by how far a key agrees with the whole prefix.
LEMMA MismatchIs ==
    ASSUME NEW d, Tree(d), NEW stem, NEW child, Children(d, stem, child),
           NEW q \in Seq(Byte), Len(d.place) <= Len(q)
    PROVE  LET a == Agree(From(stem, Len(d.place)), From(q, Len(d.place)))
               m == prefix_mismatch(d.node, q, Len(d.place))
           IN  /\ a \in Nat /\ m \in Nat /\ min(m, d.node.partial_len) = a
               /\ m < d.node.partial_len <=> a < d.node.partial_len
               /\ a < d.node.partial_len => m = a
<1> DEFINE p == Len(d.place)
           n == d.node
           M == MAX_PREFIX_LEN
           m == prefix_mismatch(n, q, p)
<1>1. PICK s \in Seq(Byte) :
          /\ s = From(stem, p) /\ Len(s) = Len(stem) - p
          /\ Len(s) \in Nat /\ p \in Nat /\ Len(stem) \in Nat
          /\ \A i \in 1..Len(s) : s[i] = stem[p + i]
          /\ n.partial_len = Len(s) /\ n.partial = Stored(s)
          /\ stem \in Seq(Byte) /\ d.place \in Seq(Byte) /\ Begins(stem, d.place)
  BY PrefixIs
<1> HIDE DEF p, n
<1>2. PICK t \in Seq(Byte) : /\ t = From(q, p) /\ Len(t) = Len(q) - p /\ Len(t) \in Nat
                             /\ \A i \in 1..Len(t) : t[i] = q[p + i]
  <2>1. p <= Len(q) /\ p \in Nat
    BY <1>1 DEF p
  <2> QED BY ONLY <2>1, q \in Seq(Byte), FromBack
<1> DEFINE a == Agree(s, t)
           idx == Agree(Stored(s), t)
<1>3. a \in Nat /\ a <= Len(s) /\ a <= Len(t) /\ M \in Nat
  BY AgreeIf, KeysAre
<1>4. idx = min(a, min(M, Len(s))) /\ idx \in Nat
  <2>1. PICK st \in Seq(Byte) : /\ st = Stored(s) /\ Len(st) = min(M, Len(s))
                                /\ \A i \in 1..Len(st) : st[i] = s[i]
    BY StoredIf
  <2>2. Len(st) <= Len(s)
    BY <1>1, <1>3, <2>1, MinOf
  <2>3. Agree(st, t) = min(Agree(s, t), Len(st)) /\ Agree(st, t) \in Nat
    BY ONLY <2>1, <2>2, s \in Seq(Byte), t \in Seq(Byte), AgreeLess
  <2> QED BY <2>1, <2>3
<1>5. m = IF Len(s) > M /\ idx = min(M, Len(t)) THEN Agree(From(minimum(n).key, p), t) ELSE idx
  BY <1>1, <1>2 DEF prefix_mismatch, check_prefix
<1>6. PICK g \in Nat : Agree(From(minimum(n).key, p), t) = g /\ a = min(g, Len(s))
  <2>1. PICK x \in d.entries : minimum(n) = make_leaf(x.key, x.value)
    BY MinimumIs DEF n
  <2>2. minimum(n).key = x.key
    BY <2>1 DEF make_leaf
  <2>3. PICK b \in Present(d.node) : x \in child[b].entries
    BY DEF Children, InnerSub
  <2>4. Apart(d, stem, child)
    BY <1>1, ChildrenApart
  <2>5. x.key \in Key /\ Begins(x.key, stem)
    BY <2>3, <2>4 DEF Apart
  <2>6. x.key \in Seq(Byte) /\ p <= Len(stem)
    BY <1>1, <2>5, KeysAre DEF Begins, p
  <2>7. PICK u \in Seq(Byte) : /\ u = From(x.key, p) /\ Len(u) = Len(x.key) - p
                               /\ Len(s) <= Len(u) /\ \A i \in 1..Len(s) : s[i] = u[i]
    <3>1. Back(s, stem, p) /\ stem \in Seq(Byte)
      BY <1>1, <2>6 DEF Back
    <3> QED BY ONLY <2>5, <2>6, <3>1, FromBegins
  <2>8. Agree(s, t) = min(Agree(u, t), Len(s)) /\ Agree(u, t) \in Nat
    BY ONLY <2>7, s \in Seq(Byte), t \in Seq(Byte), AgreeLess
  <2> QED BY <2>2, <2>7, <2>8
<1> HIDE DEF a, idx, m
<1>7. /\ m \in Nat /\ min(m, Len(s)) = a /\ (m < Len(s) <=> a < Len(s))
      /\ a < Len(s) => m = a
  <2>1. m = IF Len(s) > M /\ idx = min(M, Len(t)) THEN g ELSE idx
    BY <1>5, <1>6
  <2> QED BY ONLY <2>1, <1>1, <1>2, <1>3, <1>4, <1>6, s \in Seq(Byte), t \in Seq(Byte),
                  g \in Nat DEF min
<1>8. a = Agree(From(stem, p), From(q, p))
  BY <1>1, <1>2 DEF a
<1> QED BY <1>1, <1>3, <1>7, <1>8 DEF m, n, p

\* A key that begins with the stem passes the check of the stored bytes.
LEMMA CheckPasses ==
    ASSUME NEW d, Tree(d), NEW stem, NEW child, Children(d, stem, child),
           NEW q \in Seq(Byte), Begins(q, stem)
    PROVE  check_prefix(d.node, q, Len(d.place)) = min(MAX_PREFIX_LEN, d.node.partial_len)
<1> DEFINE p == Len(d.place)
           n == d.node
<1>1. PICK s \in Seq(Byte) :
          /\ s = From(stem, p) /\ Len(s) = Len(stem) - p
          /\ Len(s) \in Nat /\ p \in Nat /\ Len(stem) \in Nat
          /\ \A i \in 1..Len(s) : s[i] = stem[p + i]
          /\ n.partial_len = Len(s) /\ n.partial = Stored(s)
          /\ stem \in Seq(Byte) /\ d.place \in Seq(Byte) /\ Begins(stem, d.place)
  BY PrefixIs
<1>0. p <= Len(stem)
  BY <1>1 DEF Begins
<1> HIDE DEF p, n
<1>2. PICK u \in Seq(Byte) : /\ u = From(q, p) /\ Len(u) = Len(q) - p
                             /\ Len(s) <= Len(u) /\ \A i \in 1..Len(s) : s[i] = u[i]
  <2>1. Back(s, stem, p) /\ stem \in Seq(Byte)
    BY <1>0, <1>1 DEF Back
  <2> QED BY ONLY <2>1, Begins(q, stem), q \in Seq(Byte), FromBegins
<1>3. PICK st \in Seq(Byte) : /\ st = Stored(s) /\ Len(st) = min(MAX_PREFIX_LEN, Len(s))
                              /\ \A i \in 1..Len(st) : st[i] = s[i]
  BY StoredIf
<1>4. Len(st) \in Nat /\ Len(st) <= Len(s) /\ Len(u) \in Nat
  BY <1>1, <1>3, MinOf, KeysAre
<1>5. Shares(st, u, Len(st))
  <2>1. \A i \in 1..Len(st) : i \in 1..Len(s)
    BY <1>1, <1>4
  <2> QED BY <1>2, <1>3, <1>4, <2>1 DEF Shares
<1>6. Agree(st, u) = Len(st)
  BY <1>5, AgreeShares
<1> QED BY <1>1, <1>2, <1>3, <1>6 DEF check_prefix, n, p

-----------------------------------------------------------------------------
(* Splitting a prefix.                                                      *)

\* A node with more or less of its prefix in front of its place.
LEMMA Moved ==
    ASSUME NEW d, Tree(d), NEW stem, NEW child, Children(d, stem, child),
           NEW p \in Seq(Byte), Begins(stem, p), NEW n,
           n = Headed(d.node, Len(stem) - Len(p), Stored(From(stem, Len(p))))
    PROVE  Tree(Sub(n, p, {p} \union (d.places \ {d.place}), d.entries))
<1> DEFINE P == {p} \union (d.places \ {d.place})
           d2 == Sub(n, p, P, d.entries)
<1>1. /\ Fits(d.node) /\ stem \in Seq(Byte) /\ d.place \in Seq(Byte)
      /\ d.places = {d.place} \union UNION {child[b].places : b \in Present(d.node)}
      /\ d.entries = UNION {child[b].entries : b \in Present(d.node)}
      /\ Present(d.node) \subseteq Byte
      /\ \A b \in Present(d.node) : /\ Tree(child[b]) /\ child[b].node = find_child(d.node, b)
                                    /\ child[b].place = Append(stem, b)
  BY NodeThere DEF Children, InnerSub, Present
<1>2. /\ Fits(n) /\ n.partial_len = Len(stem) - Len(p)
      /\ n.partial = Stored(From(stem, Len(p)))
      /\ Present(n) = Present(d.node) /\ \A b \in Byte : find_child(n, b) = find_child(d.node, b)
  BY <1>1, OtherHeader
<1>3. d2.node = n /\ d2.place = p /\ d2.places = P /\ d2.entries = d.entries
  BY DEF Sub
<1> HIDE DEF d2
<1>4. P = {p} \union UNION {child[b].places : b \in Present(n)}
  <2>1. d.place \notin UNION {child[b].places : b \in Present(d.node)}
    <3>1. Apart(d, stem, child)
      BY <1>1, ChildrenApart
    <3> QED BY <3>1 DEF Apart
  <2> QED BY <1>1, <1>2, <2>1
<1>5. \A b \in Present(n) : /\ Tree(child[b]) /\ child[b].node = find_child(n, b)
                            /\ child[b].place = Append(stem, b)
  BY <1>1, <1>2
<1>6. d.entries = UNION {child[b].entries : b \in Present(n)}
  BY <1>1, <1>2
<1> HIDE DEF P
<1>7. InnerSub(d2, stem, child)
  BY <1>1, <1>2, <1>3, <1>4, <1>5, <1>6 DEF InnerSub
<1>8. Children(d2, stem, child)
  BY <1>3, <1>5, <1>7 DEF Children
<1>9. Tree(d2)
  BY <1>3, <1>8, InnerTree
<1> QED BY <1>9 DEF d2, P

\* A new NODE4 above two subtrees.
LEMMA TwoHang ==
    ASSUME NEW p \in Seq(Byte), NEW stem \in Seq(Byte), Begins(stem, p),
           NEW b \in Byte, NEW c \in Byte, b # c,
           NEW m, Tree(m), m.place = Append(stem, b), NEW l, Tree(l), l.place = Append(stem, c),
           NEW len, len = Len(stem) - Len(p), NEW partial, partial = Stored(From(stem, Len(p)))
    PROVE  Tree(Sub(add_child4(add_child4(alloc_node4(len, partial), b, m.node), c, l.node),
                    p, {p} \union m.places \union l.places, m.entries \union l.entries))
<1> DEFINE n == add_child4(add_child4(alloc_node4(len, partial), b, m.node), c, l.node)
           P == {p} \union m.places \union l.places
           E == m.entries \union l.entries
           d == Sub(n, p, P, E)
           child == [x \in {b, c} |-> IF x = b THEN m ELSE l]
<1>1. /\ Fits(n) /\ n.partial_len = len /\ n.partial = partial
      /\ Present(n) = {b, c} /\ find_child(n, b) = m.node /\ find_child(n, c) = l.node
  <2>1. m.node # NULL /\ l.node # NULL
    BY NodeThere
  <2> QED BY ONLY <2>1, b \in Byte, c \in Byte, b # c, NewNode4
<1>2. d.node = n /\ d.place = p /\ d.places = P /\ d.entries = E
  BY DEF Sub
<1> HIDE DEF n, d
<1>3. child[b] = m /\ child[c] = l
  OBVIOUS
<1> HIDE DEF child
<1>4. \A x \in Present(n) : /\ Tree(child[x]) /\ child[x].node = find_child(n, x)
                            /\ child[x].place = Append(stem, x)
  BY <1>1, <1>3
<1>5. /\ P = {p} \union UNION {child[x].places : x \in Present(n)}
      /\ E = UNION {child[x].entries : x \in Present(n)}
  BY <1>1, <1>3
<1> HIDE DEF P, E
<1>6. InnerSub(d, stem, child)
  BY <1>1, <1>2, <1>4, <1>5 DEF InnerSub
<1>7. Children(d, stem, child)
  BY <1>2, <1>4, <1>6 DEF Children
<1>8. Tree(d)
  BY <1>2, <1>7, InnerTree
<1> QED BY <1>8 DEF d, n, P, E

\* Where two sequences with the same beginning part.
Parts(j, k, p, stem) ==
    /\ stem \in Seq(Byte) /\ Begins(stem, p) /\ Begins(j, stem) /\ Begins(k, stem)
    /\ Len(stem) < Len(j) /\ Len(stem) < Len(k)
    /\ j[Len(stem) + 1] \in Byte /\ k[Len(stem) + 1] \in Byte
    /\ j[Len(stem) + 1] # k[Len(stem) + 1]

\* The bytes before a fork.
StemOf(k, p, a) == SubSeq(k, 1, Len(p) + a)

Forked(j, k, p, a, stem) ==
    /\ Parts(j, k, p, stem) /\ Len(stem) = Len(p) + a /\ a \in Nat /\ Len(p) \in Nat
    /\ SubSeq(k, Len(p) + 1, Len(p) + a) = From(stem, Len(p))

\* Two sequences that begin alike fork where they do not agree.
LEMMA Forks ==
    ASSUME NEW p \in Seq(Byte), NEW j \in Seq(Byte), NEW k \in Seq(Byte),
           Begins(j, p), Begins(k, p),
           NEW a, a = Agree(From(j, Len(p)), From(k, Len(p))),
           a < Len(j) - Len(p), a < Len(k) - Len(p)
    PROVE  Forked(j, k, p, a, StemOf(k, p, a))
<1> DEFINE P == Len(p)
           stem == StemOf(k, p, a)

<1>1. /\ P \in Nat /\ Len(j) \in Nat /\ Len(k) \in Nat /\ P <= Len(j) /\ P <= Len(k)
      /\ \A i \in 1..P : j[i] = p[i]
      /\ \A i \in 1..P : k[i] = p[i]
  BY BeginsIf
<1>2. PICK u \in Seq(Byte) : /\ u = From(j, P) /\ Len(u) = Len(j) - P /\ Len(u) \in Nat
                             /\ \A i \in 1..Len(u) : u[i] = j[P + i]
  BY ONLY <1>1, j \in Seq(Byte), FromBack
<1>3. PICK v \in Seq(Byte) : /\ v = From(k, P) /\ Len(v) = Len(k) - P /\ Len(v) \in Nat
                             /\ \A i \in 1..Len(v) : v[i] = k[P + i]
  BY ONLY <1>1, k \in Seq(Byte), FromBack
<1> HIDE DEF P
<1>4. /\ a \in Nat /\ a < Len(u) /\ a < Len(v)
      /\ \A i \in 1..a : u[i] = v[i]
      /\ u[a + 1] # v[a + 1]
  <2>1. Shares(u, v, a)
    BY <1>2, <1>3, AgreeShares DEF P
  <2>2. a < Len(u) /\ a < Len(v)
    BY <1>2, <1>3 DEF P
  <2> QED BY <2>1, <2>2 DEF Shares
<1>5. stem \in Seq(Byte) /\ Len(stem) = P + a /\ \A i \in 1..(P + a) : stem[i] = k[i]
  <2>0. stem = SubSeq(k, 1, P + a)
    BY DEF P, StemOf
  <2>1. /\ 0 \in Nat /\ P + a \in Nat /\ P + a <= Len(k) /\ 0 + 1 = 1 /\ 0 <= P + a
        /\ (P + a) - 0 = P + a /\ \A x \in 1..(P + a) : 0 + x = x
    BY <1>1, <1>3, <1>4
  <2>2. /\ SubSeq(k, 0 + 1, P + a) \in Seq(Byte)
        /\ Len(SubSeq(k, 0 + 1, P + a)) = (P + a) - 0
        /\ \A x \in 1..((P + a) - 0) : SubSeq(k, 0 + 1, P + a)[x] = k[0 + x]
    BY ONLY <2>1, k \in Seq(Byte), PartOf
  <2> HIDE DEF stem
  <2> QED BY <2>0, <2>1, <2>2
<1> HIDE DEF stem
<1>n. /\ P \in Nat /\ a \in Nat /\ Len(j) \in Nat /\ Len(k) \in Nat
      /\ P + a < Len(j) /\ P + a < Len(k) /\ Len(stem) = P + a
      /\ P + a \in Nat /\ P <= P + a /\ (P + a) - P = a
  <2>1. a < Len(j) - P /\ a < Len(k) - P
    BY <1>2, <1>3, <1>4
  <2>2. P \in Nat /\ a \in Nat /\ Len(j) \in Nat /\ Len(k) \in Nat
    BY <1>1, <1>4
  <2>3. Len(stem) = P + a
    BY <1>5
  <2> QED BY ONLY <2>1, <2>2, <2>3
<1>6. \A i \in 1..(P + a) : j[i] = k[i]
  <2> SUFFICES ASSUME NEW i \in 1..(P + a) PROVE j[i] = k[i]
    OBVIOUS
  <2>1. CASE i \in 1..P
    BY <1>1, <2>1
  <2>2. CASE ~(i \in 1..P)
    <3>1. PICK x \in 1..a : i = P + x
      <4>1. i - P \in 1..a /\ i = P + (i - P)
        BY <1>1, <1>4, <2>2
      <4> QED BY <4>1
    <3>2. x \in 1..Len(u) /\ x \in 1..Len(v)
      BY <1>2, <1>3, <1>4
    <3> QED BY <1>2, <1>3, <1>4, <3>1, <3>2
  <2> QED BY <2>1, <2>2
<1>7. Begins(stem, p) /\ Begins(j, stem) /\ Begins(k, stem)
  <2>1. P <= Len(stem) /\ Len(stem) <= Len(j) /\ Len(stem) <= Len(k)
    BY ONLY <1>n
  <2>0. \A i \in 1..P : i \in 1..(P + a)
    BY ONLY <1>n
  <2>2. \A i \in 1..P : stem[i] = p[i]
    BY <1>1, <1>5, <2>0
  <2>3. \A i \in 1..Len(stem) : k[i] = stem[i]
    BY <1>5
  <2>4. \A i \in 1..Len(stem) : j[i] = stem[i]
    BY <1>5, <1>6
  <2>5. Begins(stem, p)
    BY <1>5, <2>1, <2>2, BeginsIf DEF P
  <2> QED BY <1>5, <2>1, <2>3, <2>4, <2>5, BeginsIf
<1>8. /\ Len(stem) < Len(j) /\ Len(stem) < Len(k)
      /\ j[Len(stem) + 1] = u[a + 1] /\ k[Len(stem) + 1] = v[a + 1]
      /\ u[a + 1] \in Byte /\ v[a + 1] \in Byte
  <2>1. a + 1 \in 1..Len(u) /\ a + 1 \in 1..Len(v)
    BY <1>2, <1>3, <1>4
  <2>2. Len(stem) + 1 = P + (a + 1)
    BY <1>1, <1>4, <1>5
  <2>3. Len(stem) < Len(j) /\ Len(stem) < Len(k)
    BY ONLY <1>n
  <2> QED BY <1>2, <1>3, <2>1, <2>2, <2>3
<1>9. SubSeq(k, P + 1, P + a) = From(stem, P)
  <2> DEFINE w == SubSeq(k, P + 1, P + a)
  <2>1. w \in Seq(Byte) /\ Len(w) = a /\ \A x \in 1..a : w[x] = k[P + x]
    <3>1. P + a <= Len(k)
      BY ONLY <1>n
    <3>2. /\ SubSeq(k, P + 1, P + a) \in Seq(Byte)
          /\ Len(SubSeq(k, P + 1, P + a)) = IF P <= P + a THEN (P + a) - P ELSE 0
          /\ \A x \in 1..((P + a) - P) : SubSeq(k, P + 1, P + a)[x] = k[P + x]
      BY ONLY <1>n, <3>1, k \in Seq(Byte), PartOf
    <3> QED BY ONLY <1>n, <3>2 DEF w
  <2> HIDE DEF w
  <2>2. PICK y \in Seq(Byte) : /\ y = From(stem, P) /\ Len(y) = Len(stem) - P
                               /\ \A i \in 1..Len(y) : y[i] = stem[P + i]
    <3>1. P <= Len(stem)
      BY <1>1, <1>4, <1>5
    <3> QED BY ONLY <1>1, <1>5, <3>1, FromBack
  <2>3. Len(y) = a
    BY <1>1, <1>4, <1>5, <2>2
  <2>4. \A i \in 1..a : w[i] = y[i]
    <3>1. \A i \in 1..a : P + i \in 1..(P + a)
      BY <1>1, <1>4
    <3> QED BY <1>5, <2>1, <2>2, <2>3, <3>1
  <2>5. w = y
    BY ONLY <2>1, <2>2, <2>3, <2>4, SameSeq
  <2> QED BY <2>2, <2>5 DEF w
<1> QED BY <1>1, <1>4, <1>5, <1>7, <1>8, <1>9 DEF Parts, Forked, P, stem

\* What does not begin another sequence ends behind the place where they part.
LEMMA AgreeAll ==
    ASSUME NEW p \in Seq(Byte), NEW j \in Seq(Byte), NEW k \in Seq(Byte),
           Begins(j, p), Begins(k, p)
    PROVE  LET a == Agree(From(j, Len(p)), From(k, Len(p)))
           IN  /\ a \in Nat
               /\ ~Begins(j, k) => a < Len(k) - Len(p)
               /\ ~Begins(k, j) => a < Len(j) - Len(p)
<1> DEFINE P == Len(p)
<1>1. /\ P \in Nat /\ Len(j) \in Nat /\ Len(k) \in Nat /\ P <= Len(j) /\ P <= Len(k)
      /\ \A i \in 1..P : j[i] = p[i]
      /\ \A i \in 1..P : k[i] = p[i]
  BY BeginsIf
<1>2. PICK u \in Seq(Byte) : /\ u = From(j, P) /\ Len(u) = Len(j) - P /\ Len(u) \in Nat
                             /\ \A i \in 1..Len(u) : u[i] = j[P + i]
  BY ONLY <1>1, j \in Seq(Byte), FromBack
<1>3. PICK v \in Seq(Byte) : /\ v = From(k, P) /\ Len(v) = Len(k) - P /\ Len(v) \in Nat
                             /\ \A i \in 1..Len(v) : v[i] = k[P + i]
  BY ONLY <1>1, k \in Seq(Byte), FromBack
<1> HIDE DEF P
<1>4. PICK a \in Nat : a = Agree(u, v) /\ Shares(u, v, a)
  BY AgreeShares DEF Shares
<1>5. a <= Len(u) /\ a <= Len(v) /\ \A i \in 1..a : u[i] = v[i]
  BY <1>4 DEF Shares
<1>6. \A i \in 1..(P + a) : j[i] = k[i]
  <2> SUFFICES ASSUME NEW i \in 1..(P + a) PROVE j[i] = k[i]
    OBVIOUS
  <2>1. CASE i \in 1..P
    BY <1>1, <2>1
  <2>2. CASE ~(i \in 1..P)
    <3>1. PICK x \in 1..a : i = P + x
      <4>1. i - P \in 1..a /\ i = P + (i - P)
        BY <1>1, <2>2
      <4> QED BY <4>1
    <3>2. x \in 1..Len(u) /\ x \in 1..Len(v)
      BY <1>2, <1>3, <1>5
    <3> QED BY <1>2, <1>3, <1>5, <3>1, <3>2
  <2> QED BY <2>1, <2>2
<1>7. ASSUME ~(a < Len(k) - P) PROVE Begins(j, k)
  <2>1. Len(k) = P + a /\ Len(k) <= Len(j)
    <3>1. a <= Len(j) - P /\ a <= Len(k) - P
      BY <1>2, <1>3, <1>5
    <3>2. P \in Nat /\ Len(j) \in Nat /\ Len(k) \in Nat
      BY <1>1
    <3> QED BY ONLY <1>7, <3>1, <3>2, a \in Nat
  <2>2. \A i \in 1..Len(k) : j[i] = k[i]
    BY <1>6, <2>1
  <2> QED BY <2>1, <2>2, BeginsIf
<1>8. ASSUME ~(a < Len(j) - P) PROVE Begins(k, j)
  <2>1. Len(j) = P + a /\ Len(j) <= Len(k)
    <3>1. a <= Len(j) - P /\ a <= Len(k) - P
      BY <1>2, <1>3, <1>5
    <3>2. P \in Nat /\ Len(j) \in Nat /\ Len(k) \in Nat
      BY <1>1
    <3> QED BY ONLY <1>8, <3>1, <3>2, a \in Nat
  <2>2. \A i \in 1..Len(j) : k[i] = j[i]
    BY <1>6, <2>1
  <2> QED BY <2>1, <2>2, BeginsIf
<1> QED BY <1>2, <1>3, <1>4, <1>7, <1>8 DEF P

\* Two places more.
TwoMore(P, Q) == \E x, y : x # y /\ x \notin P /\ y \notin P /\ Q = P \union {x, y}

\* A new NODE4 at a place above two nodes that part behind a stem.
NewFork(stem, p, j, m, k, l) ==
    add_child4(add_child4(alloc_node4(Len(stem) - Len(p), Stored(From(stem, Len(p)))),
                          j[Len(stem) + 1], m), k[Len(stem) + 1], l)

\* A subtree with another node, one more entry and two more places.
OneMoreEntry(d, n, k, v) ==
    \E Q : TwoMore(d.places, Q) /\ Tree(Sub(n, d.place, Q, d.entries \union {EntryOf(k, v)}))

\* A new leaf beside a subtree that is below a part of its way: the new NODE4 has the
\* place of the old node, and the old node and the leaf have new ones.
LEMMA ForkTree ==
    ASSUME NEW d, Tree(d), NEW j \in Seq(Byte), NEW k \in Key, NEW v \in ValuesOf[k], NEW stem,
           Parts(j, k, d.place, stem),
           \A q \in d.places : q # d.place => Len(j) < Len(q),
           NEW m, Tree(m), m.place = Append(stem, j[Len(stem) + 1]),
           m.places = {m.place} \union (d.places \ {d.place}), m.entries = d.entries
    PROVE  OneMoreEntry(d, NewFork(stem, d.place, j, m.node, k, make_leaf(k, v)), k, v)
<1> DEFINE len == Len(stem) - Len(d.place)
           partial == Stored(From(stem, Len(d.place)))
           b == j[Len(stem) + 1]
           c == k[Len(stem) + 1]
           x == Append(stem, b)
           y == Append(stem, c)
           l == Sub(make_leaf(k, v), y, {y}, {EntryOf(k, v)})
           Q == {d.place} \union m.places \union l.places
           n == add_child4(add_child4(alloc_node4(len, partial), b, m.node), c, make_leaf(k, v))
<1>1. /\ stem \in Seq(Byte) /\ Begins(stem, d.place) /\ Begins(j, stem) /\ Begins(k, stem)
      /\ Len(stem) < Len(j) /\ Len(stem) < Len(k) /\ b \in Byte /\ c \in Byte /\ b # c
  BY DEF Parts
<1>2. k \in Seq(Byte) /\ d.place \in Seq(Byte) /\ d.place \in d.places
  BY KeysAre, NodeThere, TreeIs DEF Sound
<1>3. y \in Seq(Byte) /\ Begins(k, y)
  <2>1. k[Len(stem) + 1] = c
    OBVIOUS
  <2> HIDE DEF c
  <2> QED BY <1>1, <1>2, <2>1, Appended, BeginsMore
<1>4. l.node = make_leaf(k, v) /\ l.place = y /\ l.places = {y} /\ l.entries = {EntryOf(k, v)}
  BY DEF Sub
<1>5. Tree(l)
  <2> HIDE DEF y
  <2> QED BY <1>3, LeafTree
<1> HIDE DEF l
<1>6. Tree(Sub(n, d.place, Q, m.entries \union l.entries))
  <2>1. /\ m.place = Append(stem, b) /\ l.place = Append(stem, c)
    BY <1>4
  <2>2. Tree(Sub(add_child4(add_child4(alloc_node4(len, partial), b, m.node), c, l.node),
                 d.place, {d.place} \union m.places \union l.places, m.entries \union l.entries))
    <3>1. len = Len(stem) - Len(d.place) /\ partial = Stored(From(stem, Len(d.place)))
      OBVIOUS
    <3> HIDE DEF b, c, len, partial
    <3> QED BY ONLY <1>1, <1>2, <1>5, <2>1, <3>1, Tree(m), TwoHang
  <2> QED BY <1>4, <2>2
<1>7. /\ x[Len(stem) + 1] = b /\ y[Len(stem) + 1] = c /\ Len(x) = Len(stem) + 1
      /\ Len(y) = Len(stem) + 1 /\ Len(stem) \in Nat
  <2> HIDE DEF b, c
  <2> QED BY <1>1, Appended
<1>8. x # y
  BY <1>1, <1>7
<1>9. Len(d.place) \in Nat /\ Len(d.place) <= Len(stem) /\ Len(j) \in Nat
  <2>1. stem \in Seq(Byte) /\ d.place \in Seq(Byte) /\ Begins(stem, d.place)
    BY <1>1, <1>2
  <2> QED BY ONLY <2>1, j \in Seq(Byte), BeginsIf
<1>10. x \notin d.places /\ y \notin d.places
  <2>1. ASSUME NEW q \in d.places, Len(q) = Len(stem) + 1 PROVE FALSE
    <3>1. q = d.place \/ Len(j) < Len(q)
      OBVIOUS
    <3>2. Len(stem) < Len(j) /\ Len(d.place) <= Len(stem) /\ Len(stem) \in Nat /\ Len(j) \in Nat
      BY <1>1, <1>7, <1>9
    <3> QED BY ONLY <2>1, <3>1, <3>2
  <2> HIDE DEF x, y
  <2> QED BY <1>7, <2>1
<1>11. Q = d.places \union {x, y}
  <2>1. /\ Q = {d.place} \union ({x} \union (d.places \ {d.place})) \union {y}
        /\ d.place \in d.places
    BY <1>2, <1>4
  <2> HIDE DEF Q, x, y
  <2> QED BY ONLY <2>1
<1>12. NewFork(stem, d.place, j, m.node, k, make_leaf(k, v)) = n
  BY DEF NewFork
<1> HIDE DEF Q, n, x, y
<1> QED BY <1>4, <1>6, <1>8, <1>10, <1>11, <1>12 DEF TwoMore, OneMoreEntry

\* A leaf of another key is split.
LEMMA SplitLeafTree ==
    ASSUME NEW d, Tree(d), NEW j, NEW w, LeafSub(d, j, w),
           NEW k \in Key, NEW v \in ValuesOf[k], j # k, Begins(k, d.place)
    PROVE  OneMoreEntry(d, SplitLeaf(d.node, make_leaf(k, v), Len(d.place)), k, v)
<1> DEFINE p == d.place
           a == Agree(From(j, Len(p)), From(k, Len(p)))
           stem == StemOf(k, p, a)
           b == j[Len(stem) + 1]
           x == Append(stem, b)
           m == Sub(make_leaf(j, w), x, {x}, {EntryOf(j, w)})
<1>1. /\ j \in Key /\ w \in ValuesOf[j] /\ Begins(j, p) /\ j \in Seq(Byte) /\ k \in Seq(Byte)
      /\ p \in Seq(Byte) /\ d.places = {p} /\ d.entries = {EntryOf(j, w)}
      /\ d.node = make_leaf(j, w) /\ ~Begins(j, k) /\ ~Begins(k, j)
  BY KeysAre, NodeThere DEF LeafSub
<1>2. /\ Parts(j, k, p, stem) /\ Len(stem) = Len(p) + a /\ a \in Nat /\ Len(p) \in Nat
      /\ SubSeq(k, Len(p) + 1, Len(p) + a) = From(stem, Len(p))
  <2>1. a < Len(j) - Len(p) /\ a < Len(k) - Len(p)
    <3>1. Begins(k, p)
      OBVIOUS
    <3> HIDE DEF p
    <3> QED BY ONLY <1>1, <3>1, AgreeAll
  <2>2. Begins(k, p)
    OBVIOUS
  <2> HIDE DEF p
  <2>3. Forked(j, k, p, a, stem)
    BY ONLY <1>1, <2>1, <2>2, Forks
  <2> QED BY ONLY <2>3 DEF Forked
<1>3. SplitLeaf(d.node, make_leaf(k, v), Len(p)) =
          NewFork(stem, p, j, make_leaf(j, w), k, make_leaf(k, v))
  <2>1. make_leaf(j, w).key = j /\ make_leaf(k, v).key = k
    BY DEF make_leaf
  <2>2. Len(p) + a + 1 = Len(stem) + 1 /\ Len(stem) - Len(p) = a
    BY <1>2
  <2> HIDE DEF stem, p
  <2> QED BY <1>1, <1>2, <2>1, <2>2 DEF SplitLeaf, NewFork
<1>4. m.node = make_leaf(j, w) /\ m.place = x /\ m.places = {x} /\ m.entries = {EntryOf(j, w)}
  BY DEF Sub
<1>5. stem \in Seq(Byte) /\ b \in Byte /\ Begins(j, stem) /\ Len(stem) < Len(j)
  BY <1>2 DEF Parts
<1> HIDE DEF stem
<1>6. Tree(m)
  <2>1. x \in Seq(Byte) /\ Begins(j, x)
    <3>1. j[Len(stem) + 1] = b
      OBVIOUS
    <3> HIDE DEF b
    <3> QED BY <1>1, <1>5, <3>1, Appended, BeginsMore
  <2> HIDE DEF x
  <2> QED BY <1>1, <2>1, LeafTree
<1> HIDE DEF m
<1>7. /\ m.place = Append(stem, j[Len(stem) + 1]) /\ m.entries = d.entries
      /\ m.places = {m.place} \union (d.places \ {d.place})
      /\ \A q \in d.places : q # d.place => Len(j) < Len(q)
  BY <1>1, <1>4
<1> HIDE DEF b
<1>8. Parts(j, k, d.place, stem)
  BY <1>2
<1>9. OneMoreEntry(d, NewFork(stem, d.place, j, m.node, k, make_leaf(k, v)), k, v)
  BY ONLY <1>1, <1>6, <1>7, <1>8, Tree(d), k \in Key, v \in ValuesOf[k], ForkTree
<1> QED BY <1>3, <1>4, <1>9

\* The prefix of an inner node is split.
LEMMA SplitPrefixTree ==
    ASSUME NEW d, Tree(d), NEW far, NEW child, Children(d, far, child),
           NEW k \in Key, NEW v \in ValuesOf[k], Begins(k, d.place),
           NEW a, a = prefix_mismatch(d.node, k, Len(d.place)), a < d.node.partial_len
    PROVE  OneMoreEntry(d, SplitPrefix(d.node, make_leaf(k, v), a, Len(d.place)), k, v)
<1> DEFINE p == d.place
           P == Len(p)
           n == d.node
           M == MAX_PREFIX_LEN
           stem == StemOf(k, p, a)
           b == far[Len(stem) + 1]
           x == Append(stem, b)
           partial == Stored(From(stem, P))
           len == Len(stem) - P
<1>1. PICK s \in Seq(Byte) :
          /\ s = From(far, P) /\ Len(s) = Len(far) - P
          /\ Len(s) \in Nat /\ P \in Nat /\ Len(far) \in Nat
          /\ \A i \in 1..Len(s) : s[i] = far[P + i]
          /\ n.partial_len = Len(s) /\ n.partial = Stored(s)
          /\ far \in Seq(Byte) /\ p \in Seq(Byte) /\ Begins(far, p)
  BY PrefixIs
<1>2. k \in Seq(Byte) /\ P <= Len(k) /\ Len(k) \in Nat /\ M \in Nat
  BY KeysAre DEF Begins
<1>3. PICK y \in d.entries : /\ minimum(n) = make_leaf(y.key, y.value) /\ minimum(n).key = y.key
                             /\ y.key \in Key /\ y.key \in Seq(Byte) /\ Begins(y.key, far)
                             /\ Len(far) < Len(y.key)
  <2>1. PICK y \in d.entries : minimum(n) = make_leaf(y.key, y.value)
    BY MinimumIs
  <2>2. PICK c \in Present(d.node) : y \in child[c].entries
    BY DEF Children, InnerSub
  <2>3. Apart(d, far, child) /\ Present(d.node) \subseteq Byte
    BY <1>1, ChildrenApart
  <2>4. y.key \in Key /\ Begins(y.key, far) /\ Begins(y.key, Append(far, c)) /\ c \in Byte
    BY <2>2, <2>3 DEF Apart
  <2>5. y.key \in Seq(Byte)
    BY <2>4, KeysAre
  <2>6. Len(far) < Len(y.key)
    BY <1>1, <2>4, <2>5, BeginsMore
  <2> QED BY <2>1, <2>4, <2>5, <2>6 DEF make_leaf
<1>4. a = Agree(From(far, P), From(k, P)) /\ a \in Nat
  <2>1. LET g == Agree(From(far, Len(d.place)), From(k, Len(d.place)))
            m == prefix_mismatch(d.node, k, Len(d.place))
        IN  /\ g \in Nat /\ m \in Nat /\ min(m, d.node.partial_len) = g
            /\ m < d.node.partial_len <=> g < d.node.partial_len
            /\ g < d.node.partial_len => m = g
    BY <1>2, MismatchIs
  <2> QED BY <2>1
<1>5. ~Begins(far, k)
  <2>1. SUFFICES ASSUME Begins(far, k) PROVE FALSE
    OBVIOUS
  <2>2. Begins(y.key, k)
    BY ONLY <1>1, <1>2, <1>3, <2>1, BeginsOn
  <2>3. y.key = k
    BY <1>3, <2>2, KeysAre
  <2>4. Len(k) <= Len(far)
    BY <2>1 DEF Begins
  <2>5. Len(far) < Len(k)
    BY <1>3, <2>3
  <2> QED BY ONLY <1>1, <1>2, <2>4, <2>5
<1>6. a < Len(far) - P /\ a < Len(k) - P
  <2>1. Begins(k, p)
    OBVIOUS
  <2> HIDE DEF p
  <2>2. a < Len(k) - P
    BY <1>1, <1>2, <1>4, <1>5, <2>1, AgreeAll
  <2> QED BY <1>1, <2>2
<1>7. /\ Parts(far, k, p, stem) /\ Len(stem) = P + a
      /\ SubSeq(k, P + 1, P + a) = From(stem, P)
  <2>1. Begins(k, p)
    OBVIOUS
  <2> HIDE DEF p
  <2>2. Forked(far, k, p, a, stem)
    BY ONLY <1>1, <1>2, <1>4, <1>6, <2>1, Forks
  <2> QED BY ONLY <2>2 DEF Forked
<1>8. b \in Byte /\ stem \in Seq(Byte) /\ b = far[P + a + 1] /\ b = s[a + 1] /\ a < Len(s)
      /\ Begins(far, stem) /\ Len(stem) < Len(far)
  <2>1. Len(stem) + 1 = P + a + 1 /\ P + a + 1 = P + (a + 1) /\ a + 1 \in 1..Len(s)
    BY <1>1, <1>4, <1>6, <1>7
  <2>2. far[P + (a + 1)] = s[a + 1]
    BY <1>1, <2>1
  <2> QED BY <1>1, <1>7, <2>1, <2>2 DEF Parts
<1> HIDE DEF stem
<1>9. /\ x \in Seq(Byte) /\ Len(x) = P + a + 1 /\ Begins(far, x) /\ Len(x) \in Nat
      /\ Len(x) <= Len(far)
  <2>1. far[Len(stem) + 1] = b
    OBVIOUS
  <2> HIDE DEF b
  <2>2. x \in Seq(Byte) /\ Len(x) = Len(stem) + 1 /\ Begins(far, x)
    BY <1>1, <1>8, <2>1, Appended, BeginsMore
  <2> HIDE DEF x
  <2> QED BY <1>1, <1>4, <1>6, <1>7, <1>8, <2>2
\* The stored bytes of the upper part of the prefix.
<1>10. SubSeq(n.partial, 1, min(M, a)) = Stored(From(stem, P))
  <2>1. PICK st \in Seq(Byte) : /\ st = Stored(s) /\ Len(st) = min(M, Len(s))
                                /\ \A i \in 1..Len(st) : st[i] = s[i]
    BY <1>1, StoredIf
  <2>2. PICK e \in Nat : e = min(M, a) /\ e <= a /\ e <= M
    BY <1>2, <1>4, MinOf
  <2>3. e <= Len(st) /\ e - 0 = e /\ 0 + 1 = 1 /\ 0 <= e /\ 0 \in Nat /\ \A i \in 1..e : 0 + i = i
    <3>1. Len(st) = min(M, Len(s)) /\ e = min(M, a) /\ a < Len(s) /\ a \in Nat /\ M \in Nat
          /\ Len(s) \in Nat
      BY <1>1, <1>2, <1>4, <1>8, <2>1, <2>2
    <3>2. e <= Len(st) /\ e - 0 = e /\ 0 + 1 = 1 /\ 0 <= e /\ 0 \in Nat
      BY ONLY <3>1, e \in Nat DEF min
    <3> QED BY ONLY <3>2, e \in Nat
  <2>4. PICK h \in Seq(Byte) : h = SubSeq(st, 1, e) /\ Len(h) = e /\ \A i \in 1..e : h[i] = st[i]
    <3>1. /\ SubSeq(st, 0 + 1, e) \in Seq(Byte)
          /\ Len(SubSeq(st, 0 + 1, e)) = IF 0 <= e THEN e - 0 ELSE 0
          /\ \A i \in 1..(e - 0) : SubSeq(st, 0 + 1, e)[i] = st[0 + i]
      BY ONLY <2>3, st \in Seq(Byte), e \in Nat, PartOf
    <3> QED BY ONLY <2>3, <3>1
  <2>5. PICK f \in Seq(Byte) : /\ f = From(stem, P) /\ Len(f) = Len(stem) - P /\ Len(f) \in Nat
                               /\ \A i \in 1..Len(f) : f[i] = stem[P + i]
    <3>1. P \in Nat /\ P <= Len(stem) /\ stem \in Seq(Byte)
      BY <1>1, <1>4, <1>7, <1>8
    <3> QED BY ONLY <3>1, FromBack
  <2>6. PICK sf \in Seq(Byte) : /\ sf = Stored(f) /\ Len(sf) = min(M, Len(f))
                                /\ \A i \in 1..Len(sf) : sf[i] = f[i]
    BY StoredIf
  <2>7. Len(f) = a /\ Len(sf) = e
    <3>1. Len(f) = Len(stem) - P /\ Len(stem) = P + a /\ P \in Nat /\ a \in Nat
      BY <1>1, <1>4, <1>7, <2>5
    <3>2. Len(f) = a
      BY ONLY <3>1
    <3> QED BY <2>2, <2>6, <3>2
  <2>8. \A i \in 1..e : h[i] = sf[i]
    <3> SUFFICES ASSUME NEW i \in 1..e PROVE h[i] = sf[i]
      OBVIOUS
    <3>0. /\ e <= Len(st) /\ e <= a /\ a < Len(s) /\ Len(stem) = P + a /\ P \in Nat /\ a \in Nat
          /\ Len(st) \in Nat /\ Len(s) \in Nat
      BY <1>1, <1>4, <1>7, <1>8, <2>2, <2>3
    <3>1. i \in 1..Len(st) /\ i \in 1..a /\ i \in 1..Len(s) /\ P + i \in 1..Len(stem)
      BY ONLY <3>0, i \in 1..e, e \in Nat
    <3>2. far[P + i] = stem[P + i]
      <4>1. \A z \in 1..Len(stem) : far[z] = stem[z]
        BY <1>1, <1>8, BeginsIf
      <4> QED BY <3>1, <4>1
    <3> QED BY <1>1, <2>1, <2>4, <2>5, <2>6, <2>7, <3>1, <3>2
  <2>9. h = sf
    BY ONLY <2>4, <2>6, <2>7, <2>8, h \in Seq(Byte), sf \in Seq(Byte), SameSeq
  <2> QED BY <1>1, <2>1, <2>2, <2>4, <2>5, <2>6, <2>9
\* The byte of the old node, and what is left of its prefix.
<1>11. b = IF n.partial_len <= M THEN n.partial[a + 1] ELSE minimum(n).key[P + a + 1]
  <2>1. CASE n.partial_len <= M
    <3>1. n.partial = s
      BY <1>1, <2>1, StoredIf
    <3> QED BY <1>8, <2>1, <3>1
  <2>2. CASE ~(n.partial_len <= M)
    <3>1. P + a + 1 \in 1..Len(far)
      BY <1>1, <1>4, <1>6
    <3>2. y.key[P + a + 1] = far[P + a + 1]
      <4>1. \A z \in 1..Len(far) : y.key[z] = far[z]
        BY <1>1, <1>3, BeginsIf
      <4> QED BY <3>1, <4>1
    <3> QED BY <1>3, <1>8, <2>2, <3>2
  <2> QED BY <2>1, <2>2
<1>12. WithoutPrefix(n, a, P) = Headed(n, Len(far) - Len(x), Stored(From(far, Len(x))))
  <2>1. PICK r \in Seq(Byte) : /\ r = From(far, Len(x)) /\ Len(r) = Len(far) - Len(x) /\ Len(r) \in Nat
                               /\ \A i \in 1..Len(r) : r[i] = far[Len(x) + i]
    <3>1. Len(x) \in Nat /\ Len(x) <= Len(far) /\ far \in Seq(Byte)
      BY <1>1, <1>9
    <3> HIDE DEF x
    <3> QED BY ONLY <3>1, FromBack
  <2>2. n.partial_len - (a + 1) = Len(far) - Len(x) /\ n.partial_len - (a + 1) = Len(r)
    BY <1>1, <1>4, <1>9, <2>1
  <2>3. CASE n.partial_len <= M
    <3>1. n.partial = s
      BY <1>1, <2>3, StoredIf
    <3>2. PICK h \in Seq(Byte) : /\ h = SubSeq(s, (a + 1) + 1, Len(s)) /\ Len(h) = Len(r)
                                 /\ \A i \in 1..Len(r) : h[i] = s[(a + 1) + i]
      <4>1. /\ a + 1 \in Nat /\ Len(s) <= Len(s) /\ Len(s) \in Nat /\ a + 1 <= Len(s)
            /\ Len(s) - (a + 1) = Len(r)
        BY <1>1, <1>4, <1>8, <2>2
      <4>2. /\ SubSeq(s, (a + 1) + 1, Len(s)) \in Seq(Byte)
            /\ Len(SubSeq(s, (a + 1) + 1, Len(s))) = IF a + 1 <= Len(s) THEN Len(s) - (a + 1) ELSE 0
            /\ \A i \in 1..(Len(s) - (a + 1)) : SubSeq(s, (a + 1) + 1, Len(s))[i] = s[(a + 1) + i]
        BY ONLY <4>1, s \in Seq(Byte), PartOf
      <4> QED BY ONLY <4>1, <4>2
    <3>3. h = r
      <4>1. \A i \in 1..Len(h) : h[i] = r[i]
        <5> SUFFICES ASSUME NEW i \in 1..Len(h) PROVE h[i] = r[i]
          OBVIOUS
        <5>1. /\ Len(h) = Len(r) /\ Len(r) = Len(s) - (a + 1) /\ Len(x) = P + a + 1
              /\ P \in Nat /\ a \in Nat /\ Len(s) \in Nat /\ Len(r) \in Nat
          BY <1>1, <1>4, <1>9, <2>1, <2>2, <3>2
        <5> HIDE DEF x, P
        <5>2. i \in Nat /\ i \in 1..Len(r)
          BY <5>1
        <5>3. (a + 1) + i \in 1..Len(s)
          BY ONLY <5>1, <5>2
        <5>4. P + ((a + 1) + i) = Len(x) + i
          BY ONLY <5>1, <5>2
        <5>5. h[i] = s[(a + 1) + i]
          BY <3>2, <5>2
        <5>6. s[(a + 1) + i] = far[P + ((a + 1) + i)]
          BY <1>1, <5>3
        <5>7. r[i] = far[Len(x) + i]
          BY <2>1, <5>2
        <5> QED BY <5>4, <5>5, <5>6, <5>7
      <4> QED BY ONLY <3>2, <4>1, h \in Seq(Byte), r \in Seq(Byte), SameSeq
    <3>4. Stored(r) = r
      <4>1. Len(r) <= M
        <5>1. /\ n.partial_len - (a + 1) = Len(r) /\ n.partial_len \in Nat /\ a \in Nat
              /\ Len(r) \in Nat /\ M \in Nat /\ n.partial_len <= M
          BY <1>1, <1>2, <1>4, <2>1, <2>2, <2>3
        <5> QED BY ONLY <5>1
      <4> QED BY <4>1, StoredIf
    <3>5. (a + 1) + 1 = a + 2
      BY <1>4
    <3>6. WithoutPrefix(n, a, P) = Headed(n, n.partial_len - (a + 1), SubSeq(s, a + 2, Len(s)))
      BY <2>3, <3>1 DEF WithoutPrefix, Headed
    <3> QED BY <2>1, <2>2, <3>2, <3>3, <3>4, <3>5, <3>6
  <2>4. CASE ~(n.partial_len <= M)
    <3>1. PICK z \in Seq(Byte) : z = y.key /\ Len(far) < Len(z) /\ \A i \in 1..Len(far) : z[i] = far[i]
      BY <1>1, <1>3, BeginsIf
    <3>2. PICK h \in Seq(Byte) : /\ h = SubSeq(z, Len(x) + 1, Len(far)) /\ Len(h) = Len(r)
                                 /\ \A i \in 1..Len(r) : h[i] = z[Len(x) + i]
      <4>1. Len(x) \in Nat /\ Len(far) \in Nat /\ Len(far) <= Len(z) /\ Len(x) <= Len(far)
        <5>1. Len(z) \in Nat
          OBVIOUS
        <5> QED BY <1>1, <1>9, <3>1, <5>1
      <4>2. /\ SubSeq(z, Len(x) + 1, Len(far)) \in Seq(Byte)
            /\ Len(SubSeq(z, Len(x) + 1, Len(far))) = IF Len(x) <= Len(far) THEN Len(far) - Len(x) ELSE 0
            /\ \A i \in 1..(Len(far) - Len(x)) : SubSeq(z, Len(x) + 1, Len(far))[i] = z[Len(x) + i]
        <5> HIDE DEF x
        <5> QED BY ONLY <4>1, z \in Seq(Byte), PartOf
      <4> HIDE DEF x
      <4> QED BY <2>1, <4>1, <4>2
    <3>3. h = r
      <4>1. \A i \in 1..Len(h) : h[i] = r[i]
        <5> SUFFICES ASSUME NEW i \in 1..Len(h) PROVE h[i] = r[i]
          OBVIOUS
        <5>1. /\ Len(h) = Len(r) /\ Len(r) = Len(far) - Len(x) /\ Len(x) \in Nat
              /\ Len(far) \in Nat /\ Len(r) \in Nat
          BY <1>1, <1>9, <2>1, <3>2
        <5> HIDE DEF x
        <5>2. i \in 1..Len(r) /\ Len(x) + i \in 1..Len(far)
          BY ONLY <5>1, i \in 1..Len(h)
        <5> QED BY <2>1, <3>1, <3>2, <5>2
      <4> QED BY ONLY <3>2, <4>1, h \in Seq(Byte), r \in Seq(Byte), SameSeq
    <3>4. P + a + 2 = Len(x) + 1 /\ P + a + 1 + (n.partial_len - (a + 1)) = Len(far)
      <4>1. /\ Len(x) = P + a + 1 /\ P \in Nat /\ a \in Nat /\ n.partial_len = Len(far) - P
            /\ Len(far) \in Nat
        BY <1>1, <1>4, <1>9
      <4> HIDE DEF x, P, n
      <4> QED BY ONLY <4>1
    <3>5. WithoutPrefix(n, a, P) =
              Headed(n, n.partial_len - (a + 1),
                     Stored(SubSeq(z, P + a + 2, P + a + 1 + (n.partial_len - (a + 1)))))
      BY <1>3, <2>4, <3>1 DEF WithoutPrefix, Headed
    <3> QED BY <2>1, <2>2, <3>2, <3>3, <3>4, <3>5
  <2> QED BY <2>3, <2>4
<1> DEFINE w == WithoutPrefix(n, a, P)
           Q == {x} \union (d.places \ {d.place})
           m == Sub(w, x, Q, d.entries)
<1>13. Tree(m)
  <2>1. w = Headed(d.node, Len(far) - Len(x), Stored(From(far, Len(x))))
    BY <1>12
  <2> HIDE DEF x, w
  <2> QED BY ONLY <1>9, <2>1, Tree(d), Children(d, far, child), Moved
<1>14. m.node = w /\ m.place = x /\ m.places = Q /\ m.entries = d.entries
  BY DEF Sub
<1> HIDE DEF m
<1>15. ASSUME NEW q \in d.places, q # d.place PROVE Len(far) < Len(q)
  <2>1. PICK c \in Present(d.node) : q \in child[c].places
    BY <1>15 DEF Children, InnerSub
  <2>2. Apart(d, far, child) /\ Present(d.node) \subseteq Byte
    BY <1>1, ChildrenApart
  <2>3. q \in Seq(Byte) /\ Begins(q, Append(far, c)) /\ c \in Byte
    BY <2>1, <2>2 DEF Apart
  <2> QED BY <1>1, <2>3, BeginsMore
<1>16. OneMoreEntry(d, NewFork(stem, d.place, far, w, k, make_leaf(k, v)), k, v)
  <2>1. /\ m.place = Append(stem, far[Len(stem) + 1])
        /\ m.places = {m.place} \union (d.places \ {d.place}) /\ m.entries = d.entries
        /\ Parts(far, k, d.place, stem) /\ far \in Seq(Byte)
    BY <1>1, <1>7, <1>14
  <2> HIDE DEF w, x, b
  <2>2. OneMoreEntry(d, NewFork(stem, d.place, far, m.node, k, make_leaf(k, v)), k, v)
    BY ONLY <1>13, <1>15, <2>1, Tree(d), k \in Key, v \in ValuesOf[k], ForkTree
  <2> QED BY <1>14, <2>2
<1>17. SplitPrefix(n, make_leaf(k, v), a, P) = NewFork(stem, p, far, w, k, make_leaf(k, v))
  <2>1. make_leaf(k, v).key = k
    BY DEF make_leaf
  <2>2. P + a + 1 = Len(stem) + 1 /\ Len(stem) - P = a
    BY <1>1, <1>4, <1>7
  <2>3. SplitPrefix(n, make_leaf(k, v), a, P) =
            add_child4(add_child4(alloc_node4(a, Stored(From(stem, P))), b, w),
                       k[P + a + 1], make_leaf(k, v))
    BY <1>10, <1>11, <2>1 DEF SplitPrefix
  <2> HIDE DEF w
  <2> QED BY <2>2, <2>3 DEF NewFork
<1> QED BY <1>16, <1>17

-----------------------------------------------------------------------------
(* A leaf taken out.                                                        *)

\* Some places less: as many as count says.
Fewer(P, Q, count) ==
    \/ count = 1 /\ \E x \in P : Q = P \ {x}
    \/ count = 2 /\ \E x, y \in P : x # y /\ Q = P \ {x, y}

\* A subtree with another node, without an entry and its places.
OneEntryLess(d, n, e, count) ==
    \E Q : Fewer(d.places, Q, count) /\ Tree(Sub(n, d.place, Q, d.entries \ {e}))

\* remove_child takes the leaf of a byte out, and the node as well if one child is left.
LEMMA OneLeft ==
    ASSUME NEW d, Tree(d), NEW stem, NEW child, Children(d, stem, child),
           NEW c \in Present(d.node), NEW k, NEW v, LeafSub(child[c], k, v), NEW count,
           count = IF d.node.type = "NODE4" /\ d.node.num_children = 2 THEN 2 ELSE 1
    PROVE  OneEntryLess(d, remove_child(d.node, c), EntryOf(k, v), count)
<1> DEFINE n == d.node
           x == child[c].place
<1>1. /\ Fits(n) /\ d.place \in Seq(Byte) /\ Apart(d, stem, child) /\ Present(n) \subseteq Byte
      /\ d.places = {d.place} \union UNION {child[b].places : b \in Present(n)}
      /\ d.entries = UNION {child[b].entries : b \in Present(n)}
      /\ \A b \in Present(n) : Tree(child[b]) /\ child[b].node = find_child(n, b)
  BY NodeThere, ChildrenApart DEF Children, InnerSub
<1>2. c \in Byte /\ find_child(n, c) # NULL
  BY <1>1, TwoPresent
<1>3. child[c].places = {x} /\ child[c].entries = {EntryOf(k, v)} /\ x \in d.places
  BY <1>1 DEF LeafSub
<1>4. CASE Cardinality(Present(n)) # 2
  <2>1. Tree(Sub(remove_child(n, c), d.place, d.places \ child[c].places,
                 d.entries \ child[c].entries))
    BY <1>1, <1>4, ChildRemoved
  <2>2. ~(n.type = "NODE4" /\ n.num_children = 2)
    <3>1. PICK C : NULL \notin C /\ WellFormed(n, C)
      BY <1>1 DEF Fits
    <3>2. n.type # "NODE256" => Cardinality(Present(n)) = n.num_children
      BY <3>1, PresentCounted
    <3> QED BY <1>4, <3>2
  <2>3. Fewer(d.places, d.places \ {x}, count)
    BY <1>3, <2>2 DEF Fewer
  <2> HIDE DEF x
  <2> QED BY <1>3, <2>1, <2>3 DEF OneEntryLess
<1>5. CASE Cardinality(Present(n)) = 2
  <2>1. PICK b \in Byte :
            /\ b # c /\ Present(n) = {b, c} /\ n.type = "NODE4" /\ n.num_children = 2
            /\ remove_child(n, c) =
                   LET ch == find_child(n, b)
                   IN  IF IS_LEAF(ch) THEN ch ELSE MergePrefix(n, b, ch)
    <3> HIDE DEF n
    <3> QED BY ONLY <1>1, <1>2, <1>5, RemoveOfTwo
  <2> DEFINE e == child[b]
  <2>2. b \in Present(n)
    BY <2>1
  <2>3. Tree(Sub(IF IS_LEAF(e.node) THEN e.node ELSE MergePrefix(n, b, e.node), d.place,
                 {d.place} \union (e.places \ {e.place}), e.entries))
    <3>1. LET f == child[b]
              m == IF IS_LEAF(f.node) THEN f.node ELSE MergePrefix(d.node, b, f.node)
          IN  Tree(Sub(m, d.place, {d.place} \union (f.places \ {f.place}), f.entries))
      BY <1>1, <2>2, ChildLifted
    <3> QED BY <3>1
  <2>4. remove_child(n, c) = IF IS_LEAF(e.node) THEN e.node ELSE MergePrefix(n, b, e.node)
    BY <1>1, <2>1, <2>2
  <2>5. e.place \in e.places
    BY <1>1, <2>2, TreeIs DEF Sound
  <2>6. d.places = {d.place} \union e.places \union {x}
    BY <1>1, <1>3, <2>1
  <2>7. d.entries = e.entries \union {EntryOf(k, v)}
    BY <1>1, <1>3, <2>1
  <2>8. d.place \notin e.places /\ x # d.place /\ x \notin e.places
    <3>1. x \in child[c].places
      BY <1>3
    <3> QED BY <1>1, <2>1, <2>2, <3>1 DEF Apart
  <2>9. EntryOf(k, v) \notin e.entries
    <3>1. EntryOf(k, v) \in child[c].entries
      BY <1>3
    <3> QED BY <1>1, <2>1, <2>2, <3>1 DEF Apart
  <2> HIDE DEF e, x
  <2>10. {d.place} \union (e.places \ {e.place}) = d.places \ {e.place, x}
    BY <2>5, <2>6, <2>8
  <2>11. e.entries = d.entries \ {EntryOf(k, v)}
    BY <2>7, <2>9
  <2>12. Fewer(d.places, d.places \ {e.place, x}, count)
    <3>1. e.place \in d.places /\ x \in d.places /\ e.place # x
      BY <2>5, <2>6, <2>8
    <3> QED BY <2>1, <3>1 DEF Fewer
  <2> QED BY <2>3, <2>4, <2>10, <2>11, <2>12 DEF OneEntryLess
<1> QED BY <1>4, <1>5

-----------------------------------------------------------------------------
(* Nodes with their keys in order.                                          *)

\* A node with low bytes only: add_child16 compares none of them as a negative number.
LowBytes(n) == \A b \in Present(n) : b < HighByte

\* A byte that is put in front of those that are greater leaves the keys in order.
LEMMA InsertRises ==
    ASSUME NEW C, NEW n, n.type \in {"NODE4", "NODE16"}, Header(n), NEW max, Lists(n, max, C),
           Rising(n), NEW c \in Byte, \A i \in 1..n.num_children : n.keys[i] # c, NEW child
    PROVE  Rising(InsertAt(n, {i \in 1..n.num_children : c < n.keys[i]}, c, child))
<1> DEFINE k == n.num_children
           larger == {i \in 1..k : c < n.keys[i]}
           n2 == InsertAt(n, larger, c, child)
           idx == IF larger = {} THEN k + 1 ELSE Least(larger)
<1>1. k \in Nat /\ c \in Nat /\ \A i \in 1..k : n.keys[i] \in Nat
  <2>1. Byte \subseteq Nat
    BY SizesOrdered DEF Byte
  <2> QED BY <2>1 DEF Header, Lists
<1>2. \A i, j \in 1..k : i < j => n.keys[i] < n.keys[j]
  BY DEF Rising, Listed
<1>3. /\ n2.num_children = k + 1
      /\ \A i \in 1..(k + 1) : n2.keys[i] = IF i < idx THEN n.keys[i]
                                            ELSE IF i = idx THEN c ELSE n.keys[i - 1]
  <2> HIDE DEF larger
  <2> QED BY DEF InsertAt, Header
<1>4. /\ idx \in 1..(k + 1)
      /\ \A i \in 1..k : i < idx => n.keys[i] < c
      /\ \A i \in 1..k : i >= idx => c < n.keys[i]
  <2>1. CASE larger = {}
    <3>1. idx = k + 1 /\ \A i \in 1..k : ~(c < n.keys[i])
      BY <2>1
    <3> HIDE DEF idx, larger
    <3> QED BY <1>1, <3>1
  <2>2. CASE larger # {}
    <3>1. larger \in SUBSET Nat
      OBVIOUS
    <3>2. Least(larger) \in larger /\ \A i \in larger : Least(larger) <= i
      BY <2>2, <3>1, LeastIn
    <3>3. idx = Least(larger)
      BY <2>2
    <3>4. \A i \in 1..k : i \in larger <=> c < n.keys[i]
      OBVIOUS
    <3>5. larger \subseteq 1..k
      OBVIOUS
    <3> HIDE DEF idx, larger
    <3>6. idx \in 1..k /\ c < n.keys[idx] /\ \A i \in 1..k : i < idx => ~(c < n.keys[i])
      <4>1. idx \in 1..k /\ c < n.keys[idx]
        BY <3>2, <3>3, <3>4, <3>5
      <4>2. ASSUME NEW i \in 1..k, i < idx PROVE ~(c < n.keys[i])
        <5>1. i \notin larger
          BY <3>2, <3>3, <4>1, <4>2
        <5> QED BY <3>4, <5>1
      <4> QED BY <4>1, <4>2
    <3>7. ASSUME NEW i \in 1..k, i >= idx PROVE c < n.keys[i]
      <4>1. i = idx \/ idx < i
        BY <3>6, <3>7
      <4>2. idx < i => n.keys[idx] < n.keys[i]
        BY <1>2, <3>6
      <4> QED BY <1>1, <3>6, <4>1, <4>2
    <3> QED BY <1>1, <3>6, <3>7
  <2> QED BY <2>1, <2>2
<1> HIDE DEF idx, n2, larger
<1>5. ASSUME NEW i \in 1..(k + 1), NEW j \in 1..(k + 1), i < j PROVE n2.keys[i] < n2.keys[j]
  <2>1. CASE j < idx
    <3>1. i \in 1..k /\ j \in 1..k /\ i < idx
      BY <1>1, <1>4, <1>5, <2>1
    <3> QED BY <1>2, <1>3, <1>5, <2>1, <3>1
  <2>2. CASE j = idx
    <3>1. i \in 1..k /\ i < idx
      BY <1>1, <1>4, <1>5, <2>2
    <3> QED BY <1>3, <1>4, <2>2, <3>1
  <2>3. CASE j > idx
    <3>1. j - 1 \in 1..k /\ j - 1 >= idx /\ ~(j < idx) /\ j # idx
      BY <1>1, <1>4, <2>3
    <3>2. n2.keys[j] = n.keys[j - 1] /\ c < n.keys[j - 1]
      BY <1>3, <1>4, <3>1
    <3>3. CASE i < idx
      <4>1. i \in 1..k /\ n2.keys[i] = n.keys[i] /\ i < j - 1
        BY <1>1, <1>3, <1>4, <2>3, <3>3
      <4> QED BY <1>2, <3>1, <3>2, <4>1
    <3>4. CASE i = idx
      BY <1>3, <3>2, <3>4, <1>4
    <3>5. CASE i > idx
      <4>1. i - 1 \in 1..k /\ i - 1 < j - 1 /\ ~(i < idx) /\ i # idx
        BY <1>1, <1>4, <1>5, <3>5
      <4>2. n2.keys[i] = n.keys[i - 1]
        BY <1>3, <4>1
      <4> QED BY <1>2, <3>1, <3>2, <4>1, <4>2
    <3> QED BY <1>4, <3>3, <3>4, <3>5
  <2> QED BY <1>4, <2>1, <2>2, <2>3
<1> QED BY <1>3, <1>5 DEF Rising, n2, larger

\* Adding a low byte to a node with low bytes leaves its keys in order.
LEMMA AddRises ==
    ASSUME NEW C, NULL \notin C, NEW n, WellFormed(n, C), Rising(n), LowBytes(n),
           NEW c \in Byte, find_child(n, c) = NULL, c < HighByte, NEW child
    PROVE  Rising(add_child(n, c, child))
<1> DEFINE n2 == add_child(n, c, child)
<1>1. Header(n) /\ n.type \in Layouts
  BY DEF WellFormed, Layouts
<1>2. /\ n.type = "NODE16" /\ ~(n.num_children < Max16) => n2.type \in {"NODE48", "NODE256"}
      /\ n.type \in {"NODE48", "NODE256"} => n2.type \in {"NODE48", "NODE256"}
  BY <1>1, AddHeader DEF Layouts
<1>3. n2.type \in {"NODE48", "NODE256"} => Rising(n2)
  BY DEF Rising, Listed
<1>4. ASSUME n.type \in {"NODE4", "NODE16"}
      PROVE  /\ \A i \in 1..n.num_children : n.keys[i] # c /\ n.keys[i] < HighByte
             /\ Rising(n) /\ c \in Nat /\ HighByte \in Nat
             /\ \A i \in 1..n.num_children : n.keys[i] \in Nat
  <2>1. ListsPresent(n) /\ c \notin Present(n)
    BY <1>4, ListedPresent, PresentFound
  <2>2. \A i \in 1..n.num_children : n.keys[i] \in Present(n)
    BY <2>1 DEF ListsPresent
  <2>3. Byte \subseteq Nat /\ HighByte \in Nat
    BY SizesAssumption DEF Byte
  <2> QED BY <2>1, <2>2, <2>3 DEF LowBytes, Present
<1>5. ASSUME NEW m, m.type = "NODE16", m.num_children = n.num_children, m.keys = n.keys, Header(m),
             NEW max, Lists(m, max, C), n.num_children < Max16, n.type \in {"NODE4", "NODE16"}
      PROVE  Rising(add_child16(m, c, child))
  <2> DEFINE A == {i \in 1..m.num_children : AsCompared(c) < AsCompared(m.keys[i])}
             B == {i \in 1..m.num_children : c < m.keys[i]}
  <2>1. A = B
    <3>1. AsCompared(c) = c
      BY <1>4, <1>5 DEF AsCompared
    <3>2. \A i \in 1..m.num_children : AsCompared(m.keys[i]) = m.keys[i]
      BY <1>4, <1>5 DEF AsCompared
    <3> QED BY <3>1, <3>2
  <2>2. add_child16(m, c, child) = InsertAt(m, A, c, child)
    BY <1>5 DEF add_child16
  <2>3. Rising(m)
    BY <1>4, <1>5 DEF Rising, Listed
  <2>4. Rising(InsertAt(m, B, c, child))
    BY <1>4, <1>5, <2>3, InsertRises
  <2> HIDE DEF A, B
  <2> QED BY <2>1, <2>2, <2>4
<1>6. CASE n.type = "NODE16" /\ n.num_children < Max16
  <2>1. Lists(n, Max16, C)
    BY <1>6 DEF WellFormed
  <2>2. n2 = add_child16(n, c, child)
    BY <1>6 DEF add_child
  <2> QED BY <1>1, <1>5, <1>6, <2>1, <2>2
<1>7. CASE n.type = "NODE4"
  <2>1. Lists(n, Max4, C) /\ n.num_children <= Max4
    BY <1>7 DEF WellFormed, Lists
  <2>2. n2 = add_child4(n, c, child)
    BY <1>7 DEF add_child
  <2>3. CASE n.num_children < Max4
    <3>1. n2 = InsertAt(n, {i \in 1..n.num_children : c < n.keys[i]}, c, child)
      BY <2>2, <2>3 DEF add_child4
    <3> QED BY <1>1, <1>4, <1>7, <2>1, <3>1, InsertRises
  <2>4. CASE ~(n.num_children < Max4)
    <3> DEFINE m == [n EXCEPT !.type = "NODE16"]
    <3>1. n2 = add_child16(m, c, child)
      BY <2>2, <2>4 DEF add_child4
    <3>2. /\ Header(m) /\ m.type = "NODE16" /\ m.num_children = n.num_children
          /\ m.keys = n.keys /\ m.children = n.children
      BY <1>1 DEF Header
    <3> HIDE DEF m
    <3>3. Lists(m, Max4, C) /\ n.num_children < Max16
      BY <1>1, <2>1, <3>2, SizesOrdered DEF Lists, Header
    <3> QED BY <1>5, <1>7, <3>1, <3>2, <3>3
  <2> QED BY <2>3, <2>4
<1> QED BY <1>1, <1>2, <1>3, <1>6, <1>7 DEF Layouts

\* Taking a key out leaves the others in order.
LEMMA RemoveAtRises ==
    ASSUME NEW n, Header(n), Listed(n), NEW max, NEW C, Lists(n, max, C), Rising(n),
           NEW pos \in 1..n.num_children
    PROVE  Rising(RemoveAt(n, pos))
<1> DEFINE n2 == RemoveAt(n, pos)
           k == n.num_children
<1>1. k \in Nat /\ pos \in 1..k /\ \A i, j \in 1..k : i < j => n.keys[i] < n.keys[j]
  BY DEF Header, Rising
<1>2. /\ n2.num_children = k - 1
      /\ n2.keys = [i \in 1..(k - 1) |-> IF i < pos THEN n.keys[i] ELSE n.keys[i + 1]]
  BY DEF Header, RemoveAt
<1> HIDE DEF n2
<1>3. ASSUME NEW i \in 1..(k - 1), NEW j \in 1..(k - 1), i < j PROVE n2.keys[i] < n2.keys[j]
  <2>1. \E x, y \in 1..k : x < y /\ n2.keys[i] = n.keys[x] /\ n2.keys[j] = n.keys[y]
    <3>1. CASE j < pos
      <4>1. i \in 1..k /\ j \in 1..k /\ i < pos
        BY <1>1, <1>3, <3>1
      <4> QED BY <1>2, <1>3, <3>1, <4>1
    <3>2. CASE i < pos /\ ~(j < pos)
      <4>1. i \in 1..k /\ j + 1 \in 1..k /\ i < j + 1
        BY <1>1, <1>3, <3>2
      <4> QED BY <1>2, <3>2, <4>1
    <3>3. CASE ~(i < pos)
      <4>1. i + 1 \in 1..k /\ j + 1 \in 1..k /\ i + 1 < j + 1 /\ ~(j < pos)
        BY <1>1, <1>3, <3>3
      <4> QED BY <1>2, <3>3, <4>1
    <3> QED BY <3>1, <3>2, <3>3
  <2> QED BY <1>1, <2>1
<1> QED BY <1>2, <1>3 DEF Rising, n2

\* A NODE48 becomes a NODE16 in the order of the bytes.
LEMMA ShrinkRises ==
    ASSUME NEW n, Header(n), n.num_children = Cardinality({b \in Byte : n.keys[b] # 0})
    PROVE  Rising(Shrunk48(n))
<1> DEFINE has == {b \in Byte : n.keys[b] # 0}
           n2 == Shrunk48(n)
           k == n.num_children
<1>1. n2.num_children = k /\ n2.keys = [i \in 1..k |-> Nth(has, i)] /\ k \in Nat
  <2> HIDE DEF has
  <2> QED BY DEF Shrunk48, Header, has
<1>2. has \in SUBSET Byte /\ k = Cardinality(has)
  OBVIOUS
<1> HIDE DEF n2, has
<1>3. /\ \A i \in 1..k : Nth(has, i) \in has /\ Rank(has, Nth(has, i)) = i
      /\ \A a, b \in has : a < b => Rank(has, a) < Rank(has, b)
  BY <1>2, RankCounts
<1>4. ASSUME NEW i \in 1..k, NEW j \in 1..k, i < j PROVE n2.keys[i] < n2.keys[j]
  <2> DEFINE a == Nth(has, i)
             b == Nth(has, j)
  <2>1. a \in has /\ b \in has /\ Rank(has, a) = i /\ Rank(has, b) = j
    BY <1>3
  <2>2. n2.keys[i] = a /\ n2.keys[j] = b
    BY <1>1
  <2> HIDE DEF a, b
  <2>3. a \in Nat /\ b \in Nat
    <3>1. Byte \subseteq Nat
      BY SizesOrdered DEF Byte
    <3> QED BY <1>2, <2>1, <3>1
  <2>4. a # b
    BY <1>4, <2>1
  <2>5. ~(b < a)
    <3>1. b < a => Rank(has, b) < Rank(has, a)
      BY <1>3, <2>1
    <3> QED BY <1>4, <2>1, <3>1
  <2> QED BY <2>2, <2>3, <2>4, <2>5
<1> QED BY <1>1, <1>4 DEF Rising, n2

\* Removing a child of a node that keeps more than one leaves its keys in order.
LEMMA RemoveRises ==
    ASSUME NEW n, Fits(n), Rising(n), NEW c \in Byte, find_child(n, c) # NULL,
           Cardinality(Present(n)) # 2
    PROVE  Rising(remove_child(n, c))
<1> DEFINE n2 == remove_child(n, c)
           pos == Least(SlotsOf(n, c))
<1>1. PICK C : NULL \notin C /\ WellFormed(n, C)
  BY DEF Fits
<1>2. Header(n) /\ n.type \in Layouts
  BY <1>1 DEF WellFormed, Layouts
<1>3. CASE Listed(n)
  <2>1. n.type \in {"NODE4", "NODE16"}
    BY <1>3 DEF Listed
  <2>2. PICK max : Lists(n, max, C)
    BY <1>1, <2>1 DEF WellFormed
  <2>3. pos \in 1..n.num_children
    BY <2>1, PlaceInList
  <2> DEFINE left == RemoveAt(n, pos)
  <2> HIDE DEF pos
  <2>4. Rising(left)
    BY <1>2, <1>3, <2>2, <2>3, RemoveAtRises
  <2>5. /\ left.type = n.type /\ left.num_children = n.num_children - 1
        /\ DOMAIN left = DOMAIN n
    BY <1>2 DEF RemoveAt, Header
  <2> HIDE DEF left
  <2>6. CASE n.type = "NODE16"
    <3>1. n2 = IF left.num_children = Min16 THEN [left EXCEPT !.type = "NODE4"] ELSE left
      BY <2>6 DEF remove_child, remove_child16, pos, left
    <3> DEFINE m == [left EXCEPT !.type = "NODE4"]
    <3>2. m.num_children = left.num_children /\ m.keys = left.keys
      BY <1>2, <2>5 DEF Header
    <3> HIDE DEF m
    <3>3. Rising(m)
      BY <2>4, <2>5, <2>6, <3>2 DEF Rising, Listed
    <3> QED BY <2>4, <3>1, <3>3 DEF m
  <2>7. CASE n.type = "NODE4"
    <3>1. n.num_children = Cardinality(Present(n)) /\ n.num_children \in Nat
      BY ONLY <1>1, <2>1, ListedPresent
    <3>2. Cardinality(Present(n)) \in 2..Max4
      BY <2>7 DEF Fits, Room
    <3>3. left.num_children > 1
      BY <2>5, <3>1, <3>2
    <3>4. n2 = remove_child4(n, pos)
      BY <2>7 DEF remove_child, pos
    <3>5. n2 = left
      BY <3>3, <3>4 DEF remove_child4, left
    <3> QED BY <2>4, <3>5
  <2> QED BY <2>1, <2>6, <2>7
<1>4. CASE n.type = "NODE48"
  <2> DEFINE left == [n EXCEPT !.num_children = @ - 1, !.keys[c] = 0, !.children[n.keys[c]] = NULL]
  <2>1. n2 = IF left.num_children = Min48 THEN Shrunk48(left) ELSE left
    BY <1>4 DEF remove_child, remove_child48
  <2>2. Indexes(n, C)
    BY <1>1, <1>4 DEF WellFormed
  <2>3. Header(left) /\ left.type = "NODE48" /\ Indexes(left, C)
    BY <1>2, <1>4, <2>2, RemoveIndexed
  <2> HIDE DEF left
  <2>4. Rising(Shrunk48(left))
    BY <2>3, ShrinkRises DEF Indexes
  <2>5. Rising(left)
    BY <2>3 DEF Rising, Listed
  <2> QED BY <2>1, <2>4, <2>5
<1>5. CASE n.type = "NODE256"
  <2>1. n2 = remove_child256(n, c)
    BY <1>5 DEF remove_child
  <2>2. n2.type \in {"NODE48", "NODE256"}
    BY <1>2, <1>5, <2>1, RemoveHeader
  <2> QED BY <2>2 DEF Rising, Listed
<1> QED BY <1>2, <1>3, <1>4, <1>5 DEF Layouts, Listed

\* Another child for a byte, and another prefix, leave the keys in order.
LEMMA SameKeysRise ==
    ASSUME NEW n, Fits(n), Rising(n)
    PROVE  /\ \A c, child : Rising(SetChild(n, c, child))
           /\ \A len, partial : Rising(Headed(n, len, partial))
<1>1. Header(n)
  BY DEF Fits, WellFormed
<1>2. ASSUME NEW m, m.type = n.type, m.num_children = n.num_children, m.keys = n.keys
      PROVE  Rising(m)
  BY <1>2 DEF Rising, Listed
<1>3. ASSUME NEW c, NEW child PROVE Rising(SetChild(n, c, child))
  <2> DEFINE m == SetChild(n, c, child)
  <2>1. m.type = n.type /\ m.num_children = n.num_children /\ m.keys = n.keys
    BY <1>1 DEF SetChild, Header
  <2> HIDE DEF m
  <2> QED BY <1>2, <2>1 DEF m
<1>4. ASSUME NEW len, NEW partial PROVE Rising(Headed(n, len, partial))
  <2> DEFINE m == Headed(n, len, partial)
  <2>1. m.type = n.type /\ m.num_children = n.num_children /\ m.keys = n.keys
    BY <1>1 DEF Headed, Header
  <2> HIDE DEF m
  <2> QED BY <1>2, <2>1 DEF m
<1> QED BY <1>3, <1>4

\* A new NODE4 with two children has its keys in order, and these children.
LEMMA ForkRises ==
    ASSUME NEW len, NEW partial, NEW b, NEW c, NEW m, NEW l, NEW n,
           n = add_child4(add_child4(alloc_node4(len, partial), b, m), c, l), Fits(n)
    PROVE  Rising(n) /\ \A a \in Present(n) : find_child(n, a) \in {m, l}
<1> DEFINE n0 == alloc_node4(len, partial)
           n1 == add_child4(n0, b, m)
           larger == {i \in 1..1 : c < n1.keys[i]}
<1>1. 0 < Max4 /\ 1 < Max4 /\ Max4 \in Nat
  BY SizesOrdered
<1>2. /\ n0.num_children = 0 /\ n0.type = "NODE4"
      /\ DOMAIN n0 = {"type", "num_children", "partial_len", "partial", "keys", "children"}
  BY DEF alloc_node4
<1> HIDE DEF n0
<1>3. /\ n1.num_children = 1 /\ n1.type = "NODE4" /\ DOMAIN n1 = DOMAIN n0
      /\ n1.keys[1] = b /\ n1.children[1] = m
  <2>1. {i \in 1..n0.num_children : b < n0.keys[i]} = {}
    BY <1>2
  <2>2. n1 = InsertAt(n0, {}, b, m)
    BY <1>1, <1>2, <2>1 DEF add_child4
  <2> HIDE DEF n1
  <2>3. 1 \in 1..(0 + 1)
    OBVIOUS
  <2> QED BY <1>2, <2>2, <2>3 DEF InsertAt
<1> HIDE DEF n1
<1>4. n = InsertAt(n1, larger, c, l)
  BY <1>1, <1>3 DEF add_child4, n0, n1
<1>5. /\ n.num_children = 2 /\ n.type = "NODE4"
      /\ larger = {} => /\ n.keys[1] = b /\ n.children[1] = m
                        /\ n.keys[2] = c /\ n.children[2] = l
      /\ larger # {} => /\ n.keys[1] = c /\ n.children[1] = l
                        /\ n.keys[2] = b /\ n.children[2] = m
  <2>1. 1 \in 1..(1 + 1) /\ 2 \in 1..(1 + 1)
    OBVIOUS
  <2>2. CASE larger = {}
    BY <1>2, <1>3, <1>4, <2>1, <2>2 DEF InsertAt
  <2>3. CASE larger # {}
    <3>1. larger = {1}
      BY <2>3
    <3>2. Least(larger) = 1
      BY <3>1, LeastOfOne
    <3> HIDE DEF larger
    <3> QED BY <1>2, <1>3, <1>4, <2>1, <2>3, <3>2 DEF InsertAt
  <2> QED BY <2>2, <2>3
<1>6. larger # {} <=> c < b
  BY <1>3
<1> HIDE DEF larger
<1>7. PICK C : NULL \notin C /\ WellFormed(n, C)
  BY DEF Fits
<1>8. ListsPresent(n)
  BY <1>5, <1>7, ListedPresent
<1>9. 1 \in 1..n.num_children /\ 2 \in 1..n.num_children
      /\ \A i \in 1..n.num_children : i = 1 \/ i = 2
  BY <1>5
<1>10. \A a \in Present(n) : find_child(n, a) \in {m, l}
  BY <1>5, <1>8, <1>9 DEF ListsPresent
<1>11. n.keys[1] \in Nat /\ n.keys[2] \in Nat /\ n.keys[1] # n.keys[2]
  <2>1. Present(n) \subseteq Nat
    BY SizesOrdered DEF Present, Byte
  <2> QED BY <1>8, <1>9, <2>1 DEF ListsPresent
<1>12. n.keys[1] < n.keys[2]
  BY <1>5, <1>6, <1>11
<1>13. Rising(n)
  BY <1>9, <1>12 DEF Rising
<1> QED BY <1>10, <1>13

\* Another child in order in the place of one, and another prefix, leave a node in order.
LEMMA OrderedSame ==
    ASSUME NEW n, Fits(n), Ordered(n)
    PROVE  /\ \A c \in Byte : \A child : find_child(n, c) # NULL /\ child # NULL /\ Ordered(child) =>
                  Ordered(SetChild(n, c, child)) /\ SetChild(n, c, child) # NULL
           /\ \A len, partial : Ordered(Headed(n, len, partial))
<1>1. /\ ~AtEnd(n) /\ Rising(n) /\ \A b \in Present(n) : Ordered(find_child(n, b))
      /\ Present(n) \subseteq Byte
  BY TwoPresent, OrderedIs DEF Present
<1>2. ASSUME NEW c \in Byte, NEW child, find_child(n, c) # NULL, child # NULL, Ordered(child)
      PROVE  Ordered(SetChild(n, c, child)) /\ SetChild(n, c, child) # NULL
  <2> DEFINE m == SetChild(n, c, child)
  <2>1. Fits(m) /\ FindsAlso(n, m, c, child) /\ Present(m) = Present(n)
    BY <1>2, SetChildFits
  <2>2. Rising(m)
    BY <1>1, SameKeysRise
  <2> HIDE DEF m
  <2>3. \A b \in Present(m) : Ordered(find_child(m, b))
    BY <1>1, <1>2, <2>1 DEF FindsAlso
  <2>4. Ordered(m) /\ m # NULL
    BY <2>1, <2>2, <2>3, OrderedIs, TwoPresent DEF AtEnd
  <2> QED BY <2>4 DEF m
<1>3. ASSUME NEW len, NEW partial PROVE Ordered(Headed(n, len, partial))
  <2> DEFINE m == Headed(n, len, partial)
  <2>1. Present(m) = Present(n) /\ \A b \in Byte : find_child(m, b) = find_child(n, b)
    BY OtherHeader
  <2>2. Rising(m)
    BY <1>1, SameKeysRise
  <2> HIDE DEF m
  <2>3. Ordered(m)
    BY <1>1, <2>1, <2>2, OrderedIs
  <2> QED BY <2>3 DEF m
<1> QED BY <1>2, <1>3

\* So does a child in order that is added, with low bytes all round.
LEMMA OrderedAdded ==
    ASSUME NEW n, Fits(n), Ordered(n), LowBytes(n), NEW c \in Byte, c < HighByte,
           find_child(n, c) = NULL, NEW child, child # NULL, Ordered(child)
    PROVE  Ordered(add_child(n, c, child))
<1>1. /\ ~AtEnd(n) /\ Rising(n) /\ \A b \in Present(n) : Ordered(find_child(n, b))
      /\ Present(n) \subseteq Byte
  BY TwoPresent, OrderedIs DEF Present
<1> DEFINE m == add_child(n, c, child)
<1>2. FindsAlso(n, m, c, child) /\ Present(m) = Present(n) \union {c}
  BY AddFits
<1>3. Rising(m)
  <2>1. PICK C : NULL \notin C /\ WellFormed(n, C)
    BY DEF Fits
  <2> QED BY <1>1, <2>1, AddRises
<1> HIDE DEF m
<1>4. \A b \in Present(m) : Ordered(find_child(m, b))
  BY <1>1, <1>2 DEF FindsAlso
<1> QED BY <1>3, <1>4, OrderedIs DEF m

\* And taking a child out: of two, the other is left.
LEMMA OrderedRemoved ==
    ASSUME NEW n, Fits(n), Ordered(n), NEW c \in Byte, find_child(n, c) # NULL,
           \A b \in Present(n) : Fits(find_child(n, b)) \/ IS_LEAF(find_child(n, b))
    PROVE  Ordered(remove_child(n, c))
<1>1. /\ ~AtEnd(n) /\ Rising(n) /\ \A b \in Present(n) : Ordered(find_child(n, b))
      /\ Present(n) \subseteq Byte
  BY TwoPresent, OrderedIs DEF Present
<1> DEFINE m == remove_child(n, c)
<1>2. CASE Cardinality(Present(n)) # 2
  <2>1. FindsAlso(n, m, c, NULL) /\ Present(m) = Present(n) \ {c}
    BY <1>2, RemoveFits
  <2>2. Rising(m)
    BY <1>1, <1>2, RemoveRises
  <2> HIDE DEF m
  <2>3. \A b \in Present(m) : Ordered(find_child(m, b))
    BY <1>1, <2>1 DEF FindsAlso
  <2> QED BY <2>2, <2>3, OrderedIs DEF m
<1>3. CASE Cardinality(Present(n)) = 2
  <2>1. PICK b \in Byte :
            /\ b # c /\ Present(n) = {b, c}
            /\ m = LET child == find_child(n, b)
                   IN  IF IS_LEAF(child) THEN child ELSE MergePrefix(n, b, child)
    BY <1>3, RemoveOfTwo
  <2>2. PICK child : child = find_child(n, b)
    BY Zenon
  <2>3. Ordered(child) /\ (Fits(child) \/ IS_LEAF(child))
    BY <1>1, <2>1, <2>2
  <2>4. m = IF IS_LEAF(child) THEN child ELSE MergePrefix(n, b, child)
    BY <2>1, <2>2
  <2> HIDE DEF m
  <2>5. CASE IS_LEAF(child)
    BY <2>3, <2>4, <2>5 DEF m
  <2>6. CASE ~IS_LEAF(child)
    <3>1. PICK len, partial : MergePrefix(n, b, child) = Headed(child, len, partial)
      <4>1. DOMAIN child = {"type", "num_children", "partial_len", "partial", "keys", "children"}
        BY <2>3, <2>6 DEF Fits, WellFormed, Header
      <4> DEFINE l == child.partial_len + n.partial_len + 1
                 p == IF n.partial_len < MAX_PREFIX_LEN
                      THEN Stored(n.partial \o <<b>> \o child.partial) ELSE n.partial
      <4>2. MergePrefix(n, b, child) = Headed(child, l, p)
        BY <4>1 DEF MergePrefix, Headed
      <4> QED BY <4>2
    <3> QED BY <2>3, <2>4, <2>6, <3>1, OrderedSame DEF m
  <2> QED BY <2>5, <2>6
<1> QED BY <1>2, <1>3

\* A fork of two parts in order is in order.
LEMMA OrderedFork ==
    ASSUME NEW len, NEW partial, NEW b, NEW c, NEW m, NEW l, NEW n,
           n = add_child4(add_child4(alloc_node4(len, partial), b, m), c, l), Fits(n),
           Ordered(m), Ordered(l)
    PROVE  Ordered(n)
<1>1. Rising(n) /\ \A a \in Present(n) : find_child(n, a) \in {m, l}
  BY ForkRises
<1> QED BY <1>1, OrderedIs

-----------------------------------------------------------------------------
(* What a call writes.                                                      *)

\* A node on the way up with what is written below it.
UpStep(above, i, x) ==
    LET p == above[Len(above) - i + 1] IN SetChild(p.node, p.byte, x)

\* The trees on the way up as far as the a-th step.
Ups(above, node, a, f) ==
    /\ f = [i \in 0..a |-> f[i]]
    /\ \A i \in 0..a : f[i] = IF i = 0 THEN node ELSE UpStep(above, i, f[i - 1])

\* The nodes that Written is defined with exist.
LEMMA UpsExist ==
    ASSUME NEW above, Len(above) \in Nat, NEW node
    PROVE  \E f : Ups(above, node, Len(above), f) /\ Written(above, node) = f[Len(above)]
<1> DEFINE S == {a \in Nat : \E f : Ups(above, node, a, f)}
<1>1. 0 \in S
  <2> DEFINE f == [i \in 0..0 |-> node]
  <2>1. f[0] = node /\ \A i \in 0..0 : i = 0
    OBVIOUS
  <2> QED BY <2>1 DEF Ups
<1>2. ASSUME NEW a \in Nat, a \in S PROVE a + 1 \in S
  <2>1. PICK f : Ups(above, node, a, f)
    BY <1>2
  <2>2. PICK last : last = UpStep(above, a + 1, f[a])
    BY Zenon
  <2>3. PICK g : g = [i \in 0..(a + 1) |-> IF i = a + 1 THEN last ELSE f[i]]
    BY Zenon
  <2>4. ASSUME NEW i \in 0..(a + 1)
        PROVE  g[i] = IF i = 0 THEN node ELSE UpStep(above, i, g[i - 1])
    <3>1. CASE i = a + 1
      <4>1. /\ a \in 0..(a + 1) /\ a + 1 \in 0..(a + 1) /\ a # a + 1 /\ i # 0 /\ i - 1 = a
        BY <3>1
      <4>2. g[i] = last /\ g[i - 1] = f[a]
        BY <2>3, <3>1, <4>1
      <4> QED BY <2>2, <3>1, <4>1, <4>2
    <3>2. CASE i # a + 1
      <4>1. i \in 0..a
        BY <3>2
      <4>2. f[i] = IF i = 0 THEN node ELSE UpStep(above, i, f[i - 1])
        BY <2>1, <4>1, Zenon DEF Ups
      <4>3. i # 0 => i - 1 \in 0..(a + 1) /\ i - 1 # a + 1
        BY <4>1
      <4>4. i # 0 => g[i - 1] = f[i - 1]
        BY <2>3, <4>3
      <4> QED BY <2>3, <3>2, <4>2, <4>4, Zenon
    <3> QED BY <3>1, <3>2
  <2>5. g = [i \in 0..(a + 1) |-> g[i]]
    BY <2>3
  <2>6. Ups(above, node, a + 1, g)
    BY <2>4, <2>5, Zenon DEF Ups
  <2> QED BY <2>6
<1>3. Len(above) \in S
  <2>1. Len(above) \in Nat
    OBVIOUS
  <2> HIDE DEF S
  <2>2. \A i \in 0..Len(above) : i \in S
    BY ONLY <1>1, <1>2, <2>1, Upward
  <2> QED BY <2>1, <2>2
<1> DEFINE A == CHOOSE up :
                   up = [i \in 0..Len(above) |->
                           IF i = 0 THEN node
                           ELSE LET p == above[Len(above) - i + 1]
                                IN  SetChild(p.node, p.byte, up[i - 1])]
<1>4. Written(above, node) = A[Len(above)]
  BY DEF Written
<1>5. PICK f : Ups(above, node, Len(above), f)
  BY <1>3
<1>6. f = [i \in 0..Len(above) |->
              IF i = 0 THEN node
              ELSE LET p == above[Len(above) - i + 1]
                   IN  SetChild(p.node, p.byte, f[i - 1])]
  <2>1. /\ f = [i \in 0..Len(above) |-> f[i]]
        /\ \A i \in 0..Len(above) :
              f[i] = IF i = 0 THEN node
                     ELSE LET p == above[Len(above) - i + 1]
                          IN  SetChild(p.node, p.byte, f[i - 1])
    <3>1. f = [i \in 0..Len(above) |-> f[i]]
      BY <1>5, Zenon DEF Ups
    <3>2. ASSUME NEW i \in 0..Len(above)
          PROVE  f[i] = IF i = 0 THEN node
                        ELSE LET p == above[Len(above) - i + 1]
                             IN  SetChild(p.node, p.byte, f[i - 1])
      <4>1. f[i] = IF i = 0 THEN node ELSE UpStep(above, i, f[i - 1])
        BY <1>5, Zenon DEF Ups
      <4> QED BY <4>1 DEF UpStep
    <3> QED BY <3>1, <3>2
  <2> QED BY <2>1, Zenon
<1>7. A = [i \in 0..Len(above) |->
              IF i = 0 THEN node
              ELSE LET p == above[Len(above) - i + 1]
                   IN  SetChild(p.node, p.byte, A[i - 1])]
  BY <1>6, Zenon
<1> HIDE DEF A
<1>8. Ups(above, node, Len(above), A)
  BY <1>7, Zenon DEF Ups, UpStep
<1> QED BY <1>4, <1>8

\* Writing to the root, and writing to a node below the last of those above.
LEMMA WrittenIs ==
    /\ \A node : Written(<<>>, node) = node
    /\ \A S : \A above \in Seq(S), p \in S : \A node :
           Written(Append(above, p), node) = Written(above, SetChild(p.node, p.byte, node))
<1>1. ASSUME NEW node PROVE Written(<<>>, node) = node
  <2>1. Len(<<>>) = 0
    OBVIOUS
  <2>2. PICK a : a = <<>> /\ Len(a) = 0
    BY <2>1, Zenon
  <2>3. PICK f : Ups(a, node, Len(a), f) /\ Written(a, node) = f[Len(a)]
    BY <2>2, UpsExist
  <2>4. f[0] = node
    BY <2>2, <2>3 DEF Ups
  <2> QED BY <2>2, <2>3, <2>4
<1>2. ASSUME NEW S, NEW above \in Seq(S), NEW p \in S, NEW node
      PROVE  Written(Append(above, p), node) = Written(above, SetChild(p.node, p.byte, node))
  <2> DEFINE k == Len(above)
  <2>1. PICK more : /\ more = Append(above, p) /\ Len(more) = k + 1 /\ k \in Nat
                    /\ \A i \in 1..k : more[i] = above[i]
                    /\ more[k + 1] = p
    <3>1. /\ Len(Append(above, p)) = Len(above) + 1 /\ Len(above) \in Nat
          /\ \A i \in 1..Len(above) : Append(above, p)[i] = above[i]
          /\ Append(above, p)[Len(above) + 1] = p
      OBVIOUS
    <3> QED BY ONLY <3>1
  <2>2. PICK new : new = SetChild(p.node, p.byte, node)
    BY Zenon
  <2>3. PICK f : Ups(above, new, k, f) /\ Written(above, new) = f[k]
    BY <2>1, UpsExist
  <2>4. PICK g : Ups(more, node, k + 1, g) /\ Written(more, node) = g[k + 1]
    <3>1. Len(more) \in Nat /\ Len(more) = k + 1
      BY <2>1
    <3>2. \E g : Ups(more, node, Len(more), g) /\ Written(more, node) = g[Len(more)]
      BY <3>1, UpsExist
    <3> QED BY <3>1, <3>2
  <2> HIDE DEF k
  <2> DEFINE T == {i \in Nat : i <= k => g[i + 1] = f[i]}
  <2>5. 0 \in T
    <3>1. f[0] = new /\ g[0] = node
      <4>1. 0 \in 0..k /\ 0 \in 0..(k + 1)
        BY <2>1
      <4>2. f[0] = IF 0 = 0 THEN new ELSE UpStep(above, 0, f[0 - 1])
        BY <2>3, <4>1, Zenon DEF Ups
      <4>3. g[0] = IF 0 = 0 THEN node ELSE UpStep(more, 0, g[0 - 1])
        BY <2>4, <4>1, Zenon DEF Ups
      <4> QED BY <4>2, <4>3
    <3>2. g[1] = UpStep(more, 1, g[0])
      <4>1. 1 \in 0..(k + 1) /\ 1 # 0 /\ 1 - 1 = 0
        BY <2>1
      <4> QED BY <2>4, <4>1 DEF Ups
    <3>3. Len(more) - 1 + 1 = k + 1
      BY <2>1
    <3>4. UpStep(more, 1, node) = new
      <4>1. more[Len(more) - 1 + 1] = p
        BY <2>1, <3>3
      <4> QED BY <2>2, <4>1 DEF UpStep
    <3>5. 0 + 1 = 1
      OBVIOUS
    <3> QED BY <3>1, <3>2, <3>4, <3>5
  <2>6. ASSUME NEW i \in Nat, i < k, i \in T PROVE i + 1 \in T
    <3>1. /\ i + 1 \in 0..k /\ i + 1 # 0 /\ (i + 1) - 1 = i
          /\ (i + 1) + 1 \in 0..(k + 1) /\ (i + 1) + 1 # 0 /\ ((i + 1) + 1) - 1 = i + 1
      BY <2>1, <2>6
    <3>2. f[i + 1] = UpStep(above, i + 1, f[i])
      BY <2>3, <3>1 DEF Ups
    <3>3. g[(i + 1) + 1] = UpStep(more, (i + 1) + 1, g[i + 1])
      BY <2>4, <3>1 DEF Ups
    <3>4. g[i + 1] = f[i]
      BY <2>1, <2>6
    <3>5. /\ Len(more) - ((i + 1) + 1) + 1 = Len(above) - (i + 1) + 1
          /\ Len(above) - (i + 1) + 1 \in 1..k
      BY <2>1, <2>6 DEF k
    <3>6. more[Len(more) - ((i + 1) + 1) + 1] = above[Len(above) - (i + 1) + 1]
      BY <2>1, <3>5
    <3>7. UpStep(more, (i + 1) + 1, f[i]) = UpStep(above, i + 1, f[i])
      BY <3>6 DEF UpStep
    <3> QED BY <3>2, <3>3, <3>4, <3>7
  <2>7. k \in T
    <3>1. \A i \in 0..k : i \in T
      <4> HIDE DEF T
      <4> QED BY <2>1, <2>5, <2>6, Upward
    <3> QED BY <2>1, <3>1
  <2> QED BY <2>1, <2>2, <2>3, <2>4, <2>7
<1> QED BY <1>1, <1>2

-----------------------------------------------------------------------------
(* The way from the root to where a call ends.                              *)

\* A step of a call on its way.
EndStep(op, e, key, behind) == IF e.ends THEN e ELSE Deeper(op, e, key, behind)

StartOf(op, t, key, behind) == Place(op, t, 0, <<>>, key, behind)

\* The places that a call comes to as far as its a-th step.
Goes(op, t, key, behind, a, f) ==
    /\ f = [i \in 0..a |-> f[i]]
    /\ \A i \in 0..a : f[i] = IF i = 0 THEN {StartOf(op, t, key, behind)}
                              ELSE {EndStep(op, e, key, behind) : e \in f[i - 1]}

\* The places that End is defined with exist.
LEMMA GoesExist ==
    ASSUME NEW op, NEW t, NEW key, NEW behind
    PROVE  \E f : /\ Goes(op, t, key, behind, Longest, f)
                  /\ End(op, t, key, behind) = CHOOSE e \in f[Longest] : TRUE
<1> DEFINE Go(a, f) == Goes(op, t, key, behind, a, f)
           first == StartOf(op, t, key, behind)
           S == {a \in Nat : \E f : Go(a, f)}
<1>1. 0 \in S
  <2> DEFINE f == [i \in 0..0 |-> {first}]
  <2>1. f[0] = {first} /\ \A i \in 0..0 : i = 0
    OBVIOUS
  <2> QED BY <2>1 DEF Goes
<1>2. ASSUME NEW a \in Nat, a \in S PROVE a + 1 \in S
  <2>1. PICK f : Go(a, f)
    BY <1>2
  <2>2. PICK last : last = {EndStep(op, e, key, behind) : e \in f[a]}
    BY Zenon
  <2>3. PICK g : g = [i \in 0..(a + 1) |-> IF i = a + 1 THEN last ELSE f[i]]
    BY Zenon
  <2>4. ASSUME NEW i \in 0..(a + 1)
        PROVE  g[i] = IF i = 0 THEN {first} ELSE {EndStep(op, e, key, behind) : e \in g[i - 1]}
    <3>1. CASE i = a + 1
      <4>1. /\ a \in 0..(a + 1) /\ a + 1 \in 0..(a + 1) /\ a # a + 1 /\ i # 0 /\ i - 1 = a
        BY <3>1
      <4>2. g[i] = last /\ g[i - 1] = f[a]
        BY <2>3, <3>1, <4>1
      <4> QED BY <2>2, <4>1, <4>2
    <3>2. CASE i # a + 1
      <4>1. i \in 0..a
        BY <3>2
      <4>2. f[i] = IF i = 0 THEN {first} ELSE {EndStep(op, e, key, behind) : e \in f[i - 1]}
        BY <2>1, <4>1, Zenon DEF Goes
      <4>3. i # 0 => i - 1 \in 0..(a + 1) /\ i - 1 # a + 1
        BY <4>1
      <4>4. i # 0 => g[i - 1] = f[i - 1]
        BY <2>3, <4>3
      <4> QED BY <2>3, <3>2, <4>2, <4>4, Zenon
    <3> QED BY <3>1, <3>2
  <2>5. g = [i \in 0..(a + 1) |-> g[i]]
    BY <2>3
  <2>6. Go(a + 1, g)
    BY <2>4, <2>5, Zenon DEF Goes
  <2> QED BY <2>6
<1>3. Longest \in S
  <2>1. Longest \in Nat
    BY LongestIs
  <2> HIDE DEF S
  <2>2. \A i \in 0..Longest : i \in S
    BY ONLY <1>1, <1>2, <2>1, Upward
  <2> QED BY <2>1, <2>2
<1> DEFINE A == CHOOSE at :
                   at = [i \in 0..Longest |->
                           IF i = 0 THEN {Place(op, t, 0, <<>>, key, behind)}
                           ELSE {IF e.ends THEN e ELSE Deeper(op, e, key, behind) : e \in at[i - 1]}]
<1>4. End(op, t, key, behind) = CHOOSE e \in A[Longest] : TRUE
  BY DEF End
<1>5. PICK f : Go(Longest, f)
  BY <1>3
<1>6. f = [i \in 0..Longest |->
              IF i = 0 THEN {Place(op, t, 0, <<>>, key, behind)}
              ELSE {IF e.ends THEN e ELSE Deeper(op, e, key, behind) : e \in f[i - 1]}]
  BY <1>5, Zenon DEF Goes, StartOf, EndStep
<1>7. A = [i \in 0..Longest |->
              IF i = 0 THEN {Place(op, t, 0, <<>>, key, behind)}
              ELSE {IF e.ends THEN e ELSE Deeper(op, e, key, behind) : e \in A[i - 1]}]
  BY <1>6, Zenon
<1> HIDE DEF A
<1>8. Go(Longest, A)
  BY <1>7, Zenon DEF Goes, StartOf, EndStep
<1> QED BY <1>4, <1>8

\* One place after each step.
Way(op, t, key, behind, g) ==
    /\ g[0] = StartOf(op, t, key, behind)
    /\ \A i \in Nat : i < Longest => g[i + 1] = EndStep(op, g[i], key, behind)

\* A set of one place.
Single(s) == \E e : s = {e}

\* The places on the way of a call, one at each step.
LEMMA EndIs ==
    ASSUME NEW op, NEW t, NEW key, NEW behind
    PROVE  \E g : Way(op, t, key, behind, g) /\ End(op, t, key, behind) = g[Longest]
<1>1. PICK f : /\ Goes(op, t, key, behind, Longest, f)
               /\ End(op, t, key, behind) = CHOOSE e \in f[Longest] : TRUE
  BY GoesExist
<1>2. Longest \in Nat
  BY LongestIs
<1> DEFINE S == {i \in Nat : i <= Longest => Single(f[i])}
<1>3. f[0] = {StartOf(op, t, key, behind)}
  <2>1. 0 \in 0..Longest
    BY <1>2
  <2> QED BY <1>1, <2>1 DEF Goes
<1>4. ASSUME NEW i \in Nat, i < Longest
      PROVE  f[i + 1] = {EndStep(op, e, key, behind) : e \in f[i]}
  <2>1. i + 1 \in 0..Longest /\ i + 1 # 0 /\ (i + 1) - 1 = i
    BY <1>2, <1>4
  <2> QED BY <1>1, <2>1 DEF Goes
<1>5. \A i \in 0..Longest : i \in S
  <2>1. 0 \in S
    BY <1>3 DEF Single
  <2>2. ASSUME NEW i \in Nat, i < Longest, i \in S PROVE i + 1 \in S
    <3>1. PICK e : f[i] = {e}
      BY <1>2, <2>2 DEF Single
    <3>2. f[i + 1] = {EndStep(op, e, key, behind)}
      BY <1>4, <2>2, <3>1
    <3>3. Single(f[i + 1]) /\ i + 1 \in Nat
      BY <3>2 DEF Single
    <3> QED BY <3>3
  <2> HIDE DEF S
  <2> QED BY ONLY <1>2, <2>1, <2>2, Upward
<1>6. \A i \in 0..Longest : \E e : f[i] = {e}
  <2>1. \A i \in 0..Longest : Single(f[i])
    BY <1>2, <1>5
  <2> QED BY <2>1 DEF Single
<1> DEFINE g == [i \in 0..Longest |-> CHOOSE e : f[i] = {e}]
<1>7. \A i \in 0..Longest : f[i] = {g[i]}
  BY <1>6
<1> HIDE DEF g
<1>8. g[0] = StartOf(op, t, key, behind)
  <2>1. 0 \in 0..Longest
    BY <1>2
  <2> QED BY <1>3, <1>7, <2>1
<1>9. ASSUME NEW i \in Nat, i < Longest PROVE g[i + 1] = EndStep(op, g[i], key, behind)
  <2>1. i \in 0..Longest /\ i + 1 \in 0..Longest
    BY <1>2, <1>9
  <2>2. f[i] = {g[i]} /\ f[i + 1] = {g[i + 1]}
    BY <1>7, <2>1
  <2> QED BY <1>4, <1>9, <2>2
<1>10. End(op, t, key, behind) = g[Longest]
  <2>1. f[Longest] = {g[Longest]}
    BY <1>2, <1>7
  <2> QED BY <1>1, <2>1
<1> QED BY <1>8, <1>9, <1>10 DEF Way

\* A subtree of another with all that it has below its place, in order if that is.
Under(d, d0) ==
    /\ Tree(d) /\ d.places \subseteq d0.places /\ d.entries \subseteq d0.entries
    /\ \A p \in d0.places : Begins(p, d.place) => p \in d.places
    /\ \A x \in d0.entries : Begins(x.key, d.place) => x \in d.entries
    /\ Ordered(d0.node) => Ordered(d.node)

\* A child of such a subtree is another.
LEMMA UnderChild ==
    ASSUME NEW d0, Tree(d0), NEW d, Under(d, d0), NEW stem, NEW child, Children(d, stem, child),
           NEW b \in Present(d.node)
    PROVE  Under(child[b], d0) /\ child[b].place = Append(stem, b)
<1> DEFINE c == child[b]
<1>1. Tree(d) /\ d.place \in Seq(Byte)
  BY NodeThere DEF Under
<1>2. /\ Apart(d, stem, child) /\ Present(d.node) \subseteq Byte /\ stem \in Seq(Byte)
      /\ Begins(stem, d.place)
      /\ d.places = {d.place} \union UNION {child[a].places : a \in Present(d.node)}
      /\ d.entries = UNION {child[a].entries : a \in Present(d.node)}
      /\ Tree(c) /\ c.place = Append(stem, b)
  BY <1>1, ChildrenApart DEF Children, InnerSub
<1>3. b \in Byte /\ Append(stem, b) \in Seq(Byte) /\ Len(Append(stem, b)) = Len(stem) + 1
      /\ Len(stem) \in Nat
  BY <1>2, Appended
<1>4. ASSUME NEW a \in Present(d.node), NEW s \in Seq(Byte), Begins(s, Append(stem, a)),
             Begins(s, Append(stem, b))
      PROVE  a = b
  <2>1. a \in Byte
    BY <1>2
  <2>2. s[Len(stem) + 1] = a
    BY ONLY <1>2, <1>4, <2>1, s \in Seq(Byte), BeginsMore
  <2>3. s[Len(stem) + 1] = b
    BY ONLY <1>2, <1>3, <1>4, s \in Seq(Byte), BeginsMore
  <2> QED BY <2>2, <2>3
<1>5. ASSUME NEW s \in Seq(Byte), Begins(s, Append(stem, b))
      PROVE  Begins(s, d.place)
  <2>1. Begins(s, stem)
    BY ONLY <1>2, <1>3, <1>5, s \in Seq(Byte), BeginsMore
  <2> QED BY ONLY <1>1, <1>2, <2>1, s \in Seq(Byte), BeginsOn
<1>6. ASSUME NEW p \in d0.places, Begins(p, Append(stem, b)), p \in Seq(Byte)
      PROVE  p \in c.places
  <2>1. p \in d.places
    BY <1>5, <1>6 DEF Under
  <2>2. p # d.place
    <3>1. Len(d.place) <= Len(stem) /\ Len(d.place) \in Nat
      BY <1>1, <1>2 DEF Begins
    <3>2. Len(Append(stem, b)) <= Len(p)
      BY <1>6 DEF Begins
    <3>3. Len(d.place) # Len(p)
      BY ONLY <1>3, <3>1, <3>2
    <3> QED BY <3>3
  <2>3. PICK a \in Present(d.node) : p \in child[a].places
    BY <1>2, <2>1, <2>2
  <2>4. Begins(p, Append(stem, a))
    BY <1>2, <2>3 DEF Apart
  <2>5. a = b
    BY <1>4, <1>6, <2>4
  <2> QED BY <2>3, <2>5
<1>7. ASSUME NEW x \in d0.entries, Begins(x.key, Append(stem, b)), x.key \in Seq(Byte)
      PROVE  x \in c.entries
  <2>1. x \in d.entries
    BY <1>5, <1>7 DEF Under
  <2>2. PICK a \in Present(d.node) : x \in child[a].entries
    BY <1>2, <2>1
  <2>3. Begins(x.key, Append(stem, a))
    BY <1>2, <2>2 DEF Apart
  <2>4. a = b
    BY <1>4, <1>7, <2>3
  <2> QED BY <2>2, <2>4
<1>8. c.places \subseteq d0.places /\ c.entries \subseteq d0.entries
  BY <1>2 DEF Under
<1> HIDE DEF c
<1>9. /\ \A p \in d0.places : p \in Seq(Byte)
      /\ \A x \in d0.entries : x.key \in Seq(Byte)
  BY TreeIs, KeysAre DEF Sound
<1>10. \A p \in d0.places : Begins(p, c.place) => p \in c.places
  BY <1>2, <1>6, <1>9
<1>11. \A x \in d0.entries : Begins(x.key, c.place) => x \in c.entries
  BY <1>2, <1>7, <1>9
<1>12. Ordered(d0.node) => Ordered(c.node)
  <2>1. c.node = find_child(d.node, b) /\ ~AtEnd(d.node)
    BY TwoPresent DEF Children, InnerSub, c
  <2>2. Ordered(d0.node) => Ordered(d.node)
    BY DEF Under
  <2> QED BY <2>1, <2>2, OrderedIs
<1>13. Under(c, d0)
  BY ONLY <1>2, <1>8, <1>10, <1>11, <1>12 DEF Under
<1> QED BY <1>2, <1>13 DEF c

\* A tree with one subtree in the place of another.
InPlace(d0, d, d2, node) ==
    Sub(node, d0.place, (d0.places \ d.places) \union d2.places,
        (d0.entries \ d.entries) \union d2.entries)

\* What is written at the end of a way comes into the tree in the place of the subtree, and
\* leaves in order what is in order.
Hangs(above, d, d0) ==
    /\ \E S : above \in Seq(S)
    /\ \A d2 : Tree(d2) /\ d2.place = d.place => Tree(InPlace(d0, d, d2, Written(above, d2.node)))
    /\ \A n : Ordered(d0.node) /\ n # NULL /\ Ordered(n) => Ordered(Written(above, n))

\* A call has come to a subtree.  A delete does not go to leaves.
At(op, key, behind, e, d, d0) ==
    /\ Under(d, d0) /\ Hangs(e.above, d, d0)
    /\ e = Place(op, d.node, Len(d.place), e.above, key, behind)
    /\ op = "delete" /\ AtEnd(d.node) => e.above = <<>> /\ d = d0

\* What is written below a child of a subtree comes into the tree.
LEMMA HangsOn ==
    ASSUME NEW above, NEW d, NEW d0, Under(d, d0), Hangs(above, d, d0),
           NEW stem, NEW child, Children(d, stem, child), NEW b \in Present(d.node), NEW p,
           p = [node |-> d.node, byte |-> b], Under(child[b], d0)
    PROVE  Hangs(Append(above, p), child[b], d0)
<1> DEFINE c == child[b]
<1>1. PICK S : above \in Seq(S)
  BY DEF Hangs
<1>2. PICK T : T = S \union {p}
  BY Zenon
<1>3. above \in Seq(T) /\ p \in T
  BY <1>1, <1>2
<1>4. Append(above, p) \in Seq(T)
  BY <1>3
<1>5. c.place = Append(stem, b)
  BY DEF Children, InnerSub
<1> HIDE DEF c
<1>6. ASSUME NEW d3, Tree(d3), d3.place = c.place
      PROVE  Tree(InPlace(d0, c, d3, Written(Append(above, p), d3.node)))
  <2> DEFINE n == SetChild(d.node, b, d3.node)
             d2 == Sub(n, d.place, (d.places \ c.places) \union d3.places,
                       (d.entries \ c.entries) \union d3.entries)
  <2>1. Written(Append(above, p), d3.node) = Written(above, n)
    <3>1. p.node = d.node /\ p.byte = b
      OBVIOUS
    <3>2. Written(Append(above, p), d3.node) = Written(above, SetChild(p.node, p.byte, d3.node))
      BY <1>3, WrittenIs
    <3> QED BY <3>1, <3>2
  <2>2. Tree(d2)
    <3>1. d.place \in Seq(Byte) /\ d3.place = Append(stem, b)
      BY <1>5, <1>6, NodeThere DEF Under
    <3> QED BY <1>6, <3>1, ChildReplaced DEF c
  <2>3. /\ d2.node = n /\ d2.place = d.place
        /\ d2.places = (d.places \ c.places) \union d3.places
        /\ d2.entries = (d.entries \ c.entries) \union d3.entries
    BY DEF Sub
  <2> HIDE DEF d2, n
  <2>4. Tree(InPlace(d0, d, d2, Written(above, d2.node)))
    BY <2>2, <2>3 DEF Hangs
  <2>5. /\ d.places \subseteq d0.places /\ d.entries \subseteq d0.entries
        /\ c.places \subseteq d.places /\ c.entries \subseteq d.entries
    BY DEF Under, Children, InnerSub, c
  <2>6. /\ (d0.places \ d.places) \union d2.places = (d0.places \ c.places) \union d3.places
        /\ (d0.entries \ d.entries) \union d2.entries = (d0.entries \ c.entries) \union d3.entries
    BY <2>3, <2>5
  <2> QED BY <2>1, <2>3, <2>4, <2>6 DEF InPlace
<1>7. ASSUME NEW n, Ordered(d0.node), n # NULL, Ordered(n)
      PROVE  Ordered(Written(Append(above, p), n))
  <2>1. Written(Append(above, p), n) = Written(above, SetChild(p.node, p.byte, n))
    BY <1>3, WrittenIs
  <2>2. p.node = d.node /\ p.byte = b
    OBVIOUS
  <2>3. Fits(d.node) /\ Ordered(d.node) /\ b \in Byte
    BY <1>7 DEF Under, Children, InnerSub, Present
  <2>4. find_child(d.node, b) # NULL
    BY <2>3, TwoPresent
  <2>5. Ordered(SetChild(d.node, b, n)) /\ SetChild(d.node, b, n) # NULL
    BY <1>7, <2>3, <2>4, OrderedSame
  <2> QED BY <1>7, <2>1, <2>2, <2>5 DEF Hangs
<1> QED BY <1>4, <1>6, <1>7 DEF Hangs, c

\* A step further.
LEMMA Descend ==
    ASSUME NEW op, NEW key, NEW behind, NEW e, NEW d, NEW d0, Tree(d0),
           At(op, key, behind, e, d, d0),
           NEW stem, NEW child, Children(d, stem, child), e.byte \in Byte,
           find_child(d.node, e.byte) # NULL,
           op = "delete" => ~AtEnd(find_child(d.node, e.byte))
    PROVE  /\ e.byte \in Present(d.node)
           /\ At(op, key, behind, Deeper(op, e, key, behind), child[e.byte], d0)
           /\ child[e.byte].place = Append(stem, e.byte)
<1> DEFINE b == e.byte
           c == child[b]
           p == [node |-> d.node, byte |-> b]
           f == Deeper(op, e, key, behind)
<1>1. /\ e.node = d.node /\ e.depth = Len(d.place)
      /\ Under(d, d0) /\ Hangs(e.above, d, d0)
  BY DEF At, Place
<1>2. b \in Present(d.node)
  BY TwoPresent DEF Children, InnerSub
<1>3. Under(c, d0) /\ c.place = Append(stem, b)
  BY <1>1, <1>2, UnderChild
<1>4. Hangs(Append(e.above, p), c, d0)
  BY <1>1, <1>2, <1>3, HangsOn
<1>5. c.node = find_child(d.node, b)
  BY <1>2 DEF Children, InnerSub
<1>6. Len(c.place) = e.depth + e.node.partial_len + 1
  <2>1. /\ stem \in Seq(Byte) /\ d.node.partial_len = Len(stem) - Len(d.place)
        /\ d.place \in Seq(Byte)
    BY <1>1, NodeThere DEF Children, InnerSub, Under
  <2>2. Len(Append(stem, b)) = Len(stem) + 1 /\ Len(stem) \in Nat
    <3> HIDE DEF b
    <3> QED BY <2>1, Appended
  <2>3. Len(d.place) \in Nat
    BY <2>1
  <2> QED BY <1>1, <1>3, <2>1, <2>2, <2>3
<1>7. f = Place(op, c.node, Len(c.place), Append(e.above, p), key, behind)
  BY <1>1, <1>5, <1>6 DEF Deeper
<1>8. f.above = Append(e.above, p)
  BY <1>7 DEF Place
<1> HIDE DEF f, c, p, b
<1>9. At(op, key, behind, f, c, d0)
  BY <1>3, <1>4, <1>5, <1>7, <1>8 DEF At, b
<1> QED BY <1>2, <1>3, <1>9 DEF f, c, b

\* A subtree is what its parts are.
LEMMA SubTree ==
    ASSUME NEW d, Tree(d)
    PROVE  Tree(Sub(d.node, d.place, d.places, d.entries))
<1> DEFINE c == Sub(d.node, d.place, d.places, d.entries)
<1>1. c.node = d.node /\ c.place = d.place /\ c.places = d.places /\ c.entries = d.entries
  BY DEF Sub
<1> HIDE DEF c
<1>2. Sound(c)
  <2>1. Sound(d)
    BY TreeIs
  <2> QED BY <1>1, <2>1 DEF Sound, Pairing
<1>3. ASSUME NEW k, NEW v, LeafSub(d, k, v) PROVE LeafSub(c, k, v)
  BY <1>1, <1>3 DEF LeafSub
<1>4. ASSUME NEW stem, NEW child, Children(d, stem, child) PROVE Children(c, stem, child)
  BY <1>1, <1>4 DEF Children, InnerSub
<1>5. Tree(c)
  BY <1>2, <1>3, <1>4, TreeIs, TreeIf
<1> QED BY <1>5 DEF c

\* A call has come to a subtree below which all of some keys would be.
Reaches(op, key, behind, d0, T, e, d) ==
    At(op, key, behind, e, d, d0) /\ \A k \in T : Begins(k, d.place)

\* There was nothing to look for.
Lost(op, T, e) == op = "search" /\ T = {} /\ e.node = NULL /\ e.ends

\* Where a call does not end, it goes to the child below which these keys would be.
Onward(op, key, behind, d0, T) ==
    \A e, d, stem, child :
        Reaches(op, key, behind, d0, T, e, d) /\ Children(d, stem, child) /\ ~e.ends =>
            /\ e.byte \in Byte
            /\ \/ find_child(d.node, e.byte) # NULL /\ \A k \in T : Begins(k, Append(stem, e.byte))
               \/ find_child(d.node, e.byte) = NULL /\ T = {} /\ op = "search"

\* A way ends at a node just if it is a leaf.
LEMMA AtLeaf ==
    ASSUME NEW d, Tree(d)
    PROVE  /\ AtEnd(d.node) => \E k, v : LeafSub(d, k, v)
           /\ ~AtEnd(d.node) => \E stem, child : Children(d, stem, child)
           /\ \A k, v : LeafSub(d, k, v) => IS_LEAF(d.node) /\ AtEnd(d.node)
           /\ \A stem, child : Children(d, stem, child) => ~AtEnd(d.node) /\ ~IS_LEAF(d.node)
<1>1. \A k, v : LeafSub(d, k, v) => IS_LEAF(d.node) /\ AtEnd(d.node)
  BY DEF LeafSub, AtEnd, IS_LEAF, make_leaf
<1>2. \A stem, child : Children(d, stem, child) => ~AtEnd(d.node) /\ ~IS_LEAF(d.node)
  <2> SUFFICES ASSUME NEW stem, NEW child, Children(d, stem, child)
               PROVE  ~AtEnd(d.node) /\ ~IS_LEAF(d.node)
    OBVIOUS
  <2>1. ~AtEnd(d.node)
    BY TwoPresent DEF Children, InnerSub
  <2> QED BY <2>1 DEF AtEnd
<1> QED BY <1>1, <1>2, TreeIs

\* A place after i steps.
Good(op, key, behind, d0, T, i, e) ==
    \/ Lost(op, T, e)
    \/ \E d : Reaches(op, key, behind, d0, T, e, d) /\ (e.ends \/ Len(d.place) >= i)

\* A call comes to an end that has all keys it may look for below it, or a search to nothing
\* that is looked for.
LEMMA WalkEnds ==
    ASSUME NEW op, NEW key, NEW behind, NEW d0, Tree(d0), d0.place = <<>>, NEW T,
           \A k \in T : k \in Seq(Byte), Onward(op, key, behind, d0, T),
           NEW e, e = End(op, d0.node, key, behind)
    PROVE  Lost(op, T, e) \/ (e.ends /\ \E d : Reaches(op, key, behind, d0, T, e, d))
<1> DEFINE Fine(i, x) == Good(op, key, behind, d0, T, i, x)
<1>1. PICK g : Way(op, d0.node, key, behind, g) /\ End(op, d0.node, key, behind) = g[Longest]
  BY EndIs
<1>2. Longest \in Nat
  BY LongestIs
<1>3. Fine(0, g[0])
  <2> DEFINE f == g[0]
  <2>1. f = Place(op, d0.node, 0, <<>>, key, behind)
    BY <1>1 DEF Way, StartOf
  <2>2. f.above = <<>>
    BY <2>1 DEF Place
  <2> HIDE DEF f
  <2>3. Under(d0, d0)
    BY DEF Under
  <2>4. Hangs(f.above, d0, d0)
    <3>1. \E S : f.above \in Seq(S)
      <4>1. <<>> \in Seq({})
        OBVIOUS
      <4> QED BY <2>2, <4>1
    <3>2. ASSUME NEW d2, Tree(d2), d2.place = d0.place
          PROVE  Tree(InPlace(d0, d0, d2, Written(f.above, d2.node)))
      <4>1. Written(f.above, d2.node) = d2.node
        BY <2>2, WrittenIs
      <4>2. InPlace(d0, d0, d2, d2.node) = Sub(d2.node, d2.place, d2.places, d2.entries)
        <5>1. (d0.places \ d0.places) \union d2.places = d2.places
          OBVIOUS
        <5>2. (d0.entries \ d0.entries) \union d2.entries = d2.entries
          OBVIOUS
        <5> QED BY <3>2, <5>1, <5>2 DEF InPlace
      <4> QED BY <3>2, <4>1, <4>2, SubTree
    <3>3. \A n : Written(f.above, n) = n
      BY <2>2, WrittenIs
    <3> QED BY <3>1, <3>2, <3>3 DEF Hangs
  <2>5. Len(d0.place) = 0
    OBVIOUS
  <2>6. At(op, key, behind, f, d0, d0)
    BY <2>1, <2>2, <2>3, <2>4, <2>5 DEF At
  <2>7. \A k \in T : Begins(k, d0.place)
    BY BeginsSelf
  <2> QED BY <2>5, <2>6, <2>7 DEF Good, Reaches, f
<1>4. ASSUME NEW i \in Nat, i < Longest, Fine(i, g[i]) PROVE Fine(i + 1, g[i + 1])
  <2> DEFINE f == g[i]
  <2>1. g[i + 1] = EndStep(op, f, key, behind)
    BY <1>1, <1>4 DEF Way
  <2>2. CASE f.ends
    <3>1. g[i + 1] = f
      BY <2>1, <2>2 DEF EndStep
    <3> HIDE DEF f
    <3> QED BY <1>4, <2>2, <3>1 DEF Good, f
  <2>3. CASE ~f.ends
    <3>1. PICK d : Reaches(op, key, behind, d0, T, f, d) /\ Len(d.place) >= i
      BY <1>4, <2>3 DEF Good, Lost
    <3>2. At(op, key, behind, f, d, d0) /\ Tree(d) /\ f.node = d.node
      BY <3>1 DEF Reaches, At, Under, Place
    <3>3. ~AtEnd(d.node)
      BY <2>3, <3>2 DEF At, Place, Ends
    <3>4. PICK stem, child : Children(d, stem, child)
      BY <3>2, <3>3, AtLeaf
    <3>5. /\ f.byte \in Byte
          /\ \/ find_child(d.node, f.byte) # NULL /\ \A k \in T : Begins(k, Append(stem, f.byte))
             \/ find_child(d.node, f.byte) = NULL /\ T = {} /\ op = "search"
      BY <2>3, <3>1, <3>4 DEF Onward
    <3>6. g[i + 1] = Deeper(op, f, key, behind)
      BY <2>1, <2>3 DEF EndStep
    <3> HIDE DEF f
    <3>7. CASE find_child(d.node, f.byte) # NULL
      <4> DEFINE c == child[f.byte]
      <4>1. op = "delete" => ~AtEnd(find_child(d.node, f.byte))
        BY <2>3, <3>2 DEF At, Place, Ends
      <4>2. /\ f.byte \in Present(d.node)
            /\ At(op, key, behind, Deeper(op, f, key, behind), c, d0)
            /\ c.place = Append(stem, f.byte)
        BY <3>2, <3>4, <3>5, <3>7, <4>1, Descend
      <4>3. Len(c.place) >= i + 1
        <5>1. stem \in Seq(Byte) /\ Begins(stem, d.place) /\ d.place \in Seq(Byte)
          BY <3>2, <3>4, NodeThere DEF Children, InnerSub
        <5>2. Len(Append(stem, f.byte)) = Len(stem) + 1 /\ Len(stem) \in Nat
          BY <3>5, <5>1, Appended
        <5>3. Len(d.place) <= Len(stem) /\ Len(d.place) \in Nat
          BY <5>1 DEF Begins
        <5> HIDE DEF c
        <5> QED BY <3>1, <4>2, <5>2, <5>3
      <4> HIDE DEF c
      <4> QED BY <3>5, <3>6, <3>7, <4>2, <4>3 DEF Good, Reaches
    <3>8. CASE find_child(d.node, f.byte) = NULL
      <4>1. Lost(op, T, Deeper(op, f, key, behind))
        BY <3>2, <3>5, <3>8 DEF Lost, Deeper, Place, Ends, AtEnd
      <4> QED BY <3>6, <4>1 DEF Good
    <3> QED BY <3>7, <3>8
  <2> QED BY <2>2, <2>3
<1> DEFINE S == {i \in Nat : i <= Longest => Fine(i, g[i])}
<1>5. \A i \in 0..Longest : i \in S
  <2>1. 0 \in S
    BY <1>3
  <2>2. ASSUME NEW i \in Nat, i < Longest, i \in S PROVE i + 1 \in S
    <3>1. Fine(i, g[i])
      BY <1>2, <2>2
    <3>2. Fine(i + 1, g[i + 1]) /\ i + 1 \in Nat
      BY <1>4, <2>2, <3>1
    <3> HIDE DEF Fine
    <3> QED BY <3>2
  <2> HIDE DEF S
  <2> QED BY ONLY <1>2, <2>1, <2>2, Upward
<1>6. Fine(Longest, e)
  <2> HIDE DEF Fine
  <2> QED BY <1>1, <1>2, <1>5
<1>7. ASSUME NEW d, Reaches(op, key, behind, d0, T, e, d), ~e.ends, Len(d.place) >= Longest
      PROVE  FALSE
  <2>1. At(op, key, behind, e, d, d0) /\ Tree(d)
    BY <1>7 DEF Reaches, At, Under
  <2>2. ~AtEnd(d.node)
    BY <1>7, <2>1 DEF At, Place, Ends
  <2>3. PICK stem, child : Children(d, stem, child)
    BY <2>1, <2>2, AtLeaf
  <2>4. Len(d.place) < Longest /\ Len(d.place) \in Nat
    BY <2>1, <2>3, Depth
  <2> QED BY <1>2, <1>7, <2>4
<1> QED BY <1>6, <1>7 DEF Good

-----------------------------------------------------------------------------
(* Keys and the byte that a call looks for.                                 *)

\* The entries below an inner node begin with its stem, and go on with the byte of a child.
LEMMA Below ==
    ASSUME NEW d, Tree(d), NEW stem, NEW child, Children(d, stem, child), NEW x \in d.entries
    PROVE  /\ x.key \in Key /\ x.key \in Seq(Byte) /\ Begins(x.key, stem)
           /\ Len(stem) < Len(x.key) /\ x.key[Len(stem) + 1] \in Present(d.node)
           /\ x \in child[x.key[Len(stem) + 1]].entries
<1>1. d.place \in Seq(Byte)
  BY NodeThere
<1>2. PICK b \in Present(d.node) : x \in child[b].entries
  BY DEF Children, InnerSub
<1>3. Apart(d, stem, child) /\ Present(d.node) \subseteq Byte /\ stem \in Seq(Byte)
  BY <1>1, ChildrenApart
<1>4. x.key \in Key /\ Begins(x.key, stem) /\ Begins(x.key, Append(stem, b)) /\ b \in Byte
  BY <1>2, <1>3 DEF Apart
<1>5. x.key \in Seq(Byte)
  BY <1>4, KeysAre
<1>6. Len(stem) < Len(x.key) /\ x.key[Len(stem) + 1] = b
  BY <1>3, <1>4, <1>5, BeginsMore
<1> QED BY <1>2, <1>4, <1>5, <1>6

\* The byte behind the stem.
LEMMA KeyByte ==
    ASSUME NEW d, Tree(d), NEW stem, NEW child, Children(d, stem, child),
           NEW q \in Seq(Byte), Begins(q, stem), Len(stem) < Len(q), NEW behind, NEW b,
           b = ByteAt(q, Len(d.place) + d.node.partial_len, behind)
    PROVE  b = q[Len(stem) + 1] /\ b \in Byte /\ Begins(q, Append(stem, b))
<1>1. /\ stem \in Seq(Byte) /\ d.place \in Seq(Byte)
      /\ d.node.partial_len = Len(stem) - Len(d.place)
  BY NodeThere DEF Children, InnerSub
<1>2. Len(d.place) + d.node.partial_len = Len(stem) /\ Len(stem) \in Nat /\ Len(q) \in Nat
  BY <1>1
<1>3. b = q[Len(stem) + 1]
  BY <1>2 DEF ByteAt
<1>4. b \in Byte
  <2>1. Len(stem) + 1 \in 1..Len(q)
    BY <1>2
  <2> QED BY <1>3, <2>1
<1>5. Begins(q, Append(stem, b))
  BY <1>1, <1>3, <1>4, BeginsMore
<1> QED BY <1>3, <1>4, <1>5

\* A key that agrees with the whole prefix begins with the stem.
LEMMA WholePrefix ==
    ASSUME NEW d, Tree(d), NEW stem, NEW child, Children(d, stem, child),
           NEW q \in Seq(Byte), Begins(q, d.place),
           ~(Agree(From(stem, Len(d.place)), From(q, Len(d.place))) < d.node.partial_len)
    PROVE  Begins(q, stem)
<1> DEFINE P == Len(d.place)
<1>1. PICK s \in Seq(Byte) :
          /\ s = From(stem, P) /\ Len(s) = Len(stem) - P
          /\ Len(s) \in Nat /\ P \in Nat /\ Len(stem) \in Nat
          /\ \A i \in 1..Len(s) : s[i] = stem[P + i]
          /\ d.node.partial_len = Len(s)
          /\ stem \in Seq(Byte) /\ d.place \in Seq(Byte) /\ Begins(stem, d.place)
  BY PrefixIs
<1>2. /\ P <= Len(q) /\ P <= Len(stem) /\ Len(q) \in Nat
      /\ \A i \in 1..P : q[i] = d.place[i]
      /\ \A i \in 1..P : stem[i] = d.place[i]
  <2>1. stem \in Seq(Byte) /\ d.place \in Seq(Byte) /\ Begins(stem, d.place) /\ Begins(q, d.place)
    BY <1>1
  <2>2. P <= Len(q) /\ \A i \in 1..P : q[i] = d.place[i]
    BY ONLY <2>1, q \in Seq(Byte), BeginsIf
  <2>3. P <= Len(stem) /\ \A i \in 1..P : stem[i] = d.place[i]
    BY ONLY <2>1, BeginsIf
  <2>4. Len(q) \in Nat
    OBVIOUS
  <2> QED BY ONLY <2>2, <2>3, <2>4
<1> HIDE DEF P
<1>3. PICK t \in Seq(Byte) : /\ t = From(q, P) /\ Len(t) = Len(q) - P /\ Len(t) \in Nat
                             /\ \A i \in 1..Len(t) : t[i] = q[P + i]
  BY ONLY <1>1, <1>2, q \in Seq(Byte), FromBack
<1>4. PICK a \in Nat : /\ a = Agree(s, t) /\ a <= Len(s) /\ a <= Len(t)
                       /\ \A i \in 1..a : s[i] = t[i]
  BY AgreeIf
<1>5. a = Len(s)
  <2>1. ~(a < Len(s))
    BY <1>1, <1>3, <1>4 DEF P
  <2>2. a <= Len(s) /\ Len(s) \in Nat
    BY <1>1, <1>4
  <2> QED BY ONLY <2>1, <2>2, a \in Nat
<1>6. Len(stem) <= Len(q)
  <2>1. /\ Len(s) = Len(stem) - P /\ Len(t) = Len(q) - P /\ Len(s) <= Len(t) /\ P \in Nat
        /\ Len(stem) \in Nat /\ Len(q) \in Nat
    BY <1>1, <1>2, <1>3, <1>4, <1>5
  <2> QED BY ONLY <2>1
<1>7. ASSUME NEW i \in 1..Len(stem) PROVE q[i] = stem[i]
  <2>1. CASE i \in 1..P
    BY <1>2, <2>1
  <2>2. CASE ~(i \in 1..P)
    <3>1. PICK j \in 1..Len(s) : i = P + j
      <4>1. Len(s) = Len(stem) - P /\ P \in Nat /\ Len(stem) \in Nat
        BY <1>1
      <4>2. i - P \in 1..Len(s) /\ i = P + (i - P)
        BY ONLY <2>2, <4>1, i \in 1..Len(stem)
      <4> QED BY <4>2
    <3>2. j \in 1..Len(t) /\ j \in 1..a
      BY <1>1, <1>3, <1>4, <1>5
    <3> QED BY <1>1, <1>3, <1>4, <3>1, <3>2
  <2> QED BY <2>1, <2>2
<1> QED BY <1>1, <1>6, <1>7, BeginsIf

\* A key that an insert comes with goes on behind the prefix that it agrees with.
LEMMA InsertByte ==
    ASSUME NEW d, Tree(d), NEW stem, NEW child, Children(d, stem, child),
           NEW k \in Key, Begins(k, d.place),
           ~(prefix_mismatch(d.node, k, Len(d.place)) < d.node.partial_len),
           NEW behind, NEW b, b = ByteAt(k, Len(d.place) + d.node.partial_len, behind)
    PROVE  b \in Byte /\ Begins(k, Append(stem, b))
<1>1. k \in Seq(Byte) /\ stem \in Seq(Byte) /\ d.place \in Seq(Byte)
  BY KeysAre, NodeThere DEF Children, InnerSub
<1>2. Begins(k, stem)
  <2>1. Len(d.place) <= Len(k)
    BY DEF Begins
  <2>2. LET g == Agree(From(stem, Len(d.place)), From(k, Len(d.place)))
            m == prefix_mismatch(d.node, k, Len(d.place))
        IN  /\ g \in Nat /\ m \in Nat /\ min(m, d.node.partial_len) = g
            /\ m < d.node.partial_len <=> g < d.node.partial_len
            /\ g < d.node.partial_len => m = g
    BY <1>1, <2>1, MismatchIs
  <2> QED BY <1>1, <2>2, WholePrefix
<1>3. Len(stem) < Len(k)
  <2>1. PICK x \in d.entries : TRUE
    BY Depth
  <2>2. x.key \in Key /\ x.key \in Seq(Byte) /\ Begins(x.key, stem) /\ Len(stem) < Len(x.key)
    BY Below
  <2>3. Len(stem) <= Len(k) /\ Len(stem) \in Nat /\ Len(k) \in Nat
    BY <1>1, <1>2 DEF Begins
  <2>4. SUFFICES ASSUME Len(k) <= Len(stem) PROVE FALSE
    BY <2>3
  <2>5. Begins(stem, k)
    <3>1. Begins(k, k)
      BY <1>1, BeginsSelf
    <3> QED BY ONLY <1>1, <1>2, <2>4, <3>1, BeginsBoth
  <2>6. Begins(x.key, k)
    BY ONLY <1>1, <2>2, <2>5, BeginsOn
  <2>7. x.key = k
    BY <2>2, <2>6, KeysAre
  <2> QED BY <2>2, <2>3, <2>4, <2>7
<1> QED BY <1>1, <1>2, <1>3, KeyByte

\* An insert goes on to its key.
LEMMA InsertOnward ==
    ASSUME NEW d0, NEW k \in Key, NEW behind
    PROVE  Onward("insert", k, behind, d0, {k})
<1> SUFFICES ASSUME NEW e, NEW d, NEW stem, NEW child,
                    Reaches("insert", k, behind, d0, {k}, e, d), Children(d, stem, child), ~e.ends
             PROVE  /\ e.byte \in Byte /\ find_child(d.node, e.byte) # NULL
                    /\ Begins(k, Append(stem, e.byte))
  BY DEF Onward
<1>1. /\ Tree(d) /\ Begins(k, d.place)
      /\ e = Place("insert", d.node, Len(d.place), e.above, k, behind)
  BY DEF Reaches, At, Under
<1>2. ~AtEnd(d.node)
  BY <1>1, AtLeaf
<1>3. e.byte = ByteAt(k, Len(d.place) + d.node.partial_len, behind)
  BY <1>1, <1>2 DEF Place
<1>4. ~Ends("insert", d.node, Len(d.place), k, e.byte)
  BY <1>1, <1>2, <1>3 DEF Place
<1>5. /\ ~(prefix_mismatch(d.node, k, Len(d.place)) < d.node.partial_len)
      /\ find_child(d.node, e.byte) # NULL
  BY <1>4 DEF Ends
<1> QED BY <1>1, <1>3, <1>5, InsertByte

\* Any byte that a call reads is one.
LEMMA AnyByte ==
    ASSUME NEW d, Tree(d), NEW stem, NEW child, Children(d, stem, child),
           NEW q \in Seq(Byte), NEW behind \in Byte
    PROVE  ByteAt(q, Len(d.place) + d.node.partial_len, behind) \in Byte
<1>1. PICK m \in Nat : m = Len(d.place) + d.node.partial_len
  <2>1. /\ stem \in Seq(Byte) /\ d.place \in Seq(Byte)
        /\ d.node.partial_len = Len(stem) - Len(d.place)
    BY NodeThere DEF Children, InnerSub
  <2>2. Len(d.place) + d.node.partial_len = Len(stem) /\ Len(stem) \in Nat
    BY <2>1
  <2> QED BY <2>2
<1>2. m < Len(q) => m + 1 \in 1..Len(q)
  OBVIOUS
<1> QED BY <1>1, <1>2 DEF ByteAt

\* The key of a call, if the tree has it.
Wanted(k, d0) == {j \in {k} : \E x \in d0.entries : x.key = j}

\* A key of the tree is found below the byte that a call reads, and passes the check.
LEMMA FoundOnward ==
    ASSUME NEW d, Tree(d), NEW stem, NEW child, Children(d, stem, child),
           NEW x \in d.entries, NEW behind, NEW b,
           b = ByteAt(x.key, Len(d.place) + d.node.partial_len, behind)
    PROVE  /\ b \in Present(d.node) /\ find_child(d.node, b) # NULL
           /\ Begins(x.key, Append(stem, b)) /\ x \in child[b].entries
           /\ check_prefix(d.node, x.key, Len(d.place)) = min(MAX_PREFIX_LEN, d.node.partial_len)
<1>1. /\ x.key \in Key /\ x.key \in Seq(Byte) /\ Begins(x.key, stem)
      /\ Len(stem) < Len(x.key) /\ x.key[Len(stem) + 1] \in Present(d.node)
      /\ x \in child[x.key[Len(stem) + 1]].entries
  BY Below
<1>2. b = x.key[Len(stem) + 1] /\ b \in Byte /\ Begins(x.key, Append(stem, b))
  BY <1>1, KeyByte
<1>3. find_child(d.node, b) # NULL
  BY <1>1, <1>2, TwoPresent DEF Children, InnerSub
<1>4. check_prefix(d.node, x.key, Len(d.place)) = min(MAX_PREFIX_LEN, d.node.partial_len)
  BY <1>1, CheckPasses
<1> QED BY <1>1, <1>2, <1>3, <1>4

\* A search and a delete go on to a key that the tree has.
LEMMA SearchOnward ==
    ASSUME NEW op \in {"search", "delete"}, NEW d0, NEW k \in Key, NEW behind \in Byte
    PROVE  Onward(op, k, behind, d0, Wanted(k, d0))
<1> SUFFICES ASSUME NEW e, NEW d, NEW stem, NEW child,
                    Reaches(op, k, behind, d0, Wanted(k, d0), e, d),
                    Children(d, stem, child), ~e.ends
             PROVE  /\ e.byte \in Byte
                    /\ \/ /\ find_child(d.node, e.byte) # NULL
                          /\ \A j \in Wanted(k, d0) : Begins(j, Append(stem, e.byte))
                       \/ find_child(d.node, e.byte) = NULL /\ Wanted(k, d0) = {} /\ op = "search"
  BY DEF Onward
<1>1. /\ Tree(d) /\ Under(d, d0) /\ \A j \in Wanted(k, d0) : Begins(j, d.place)
      /\ e = Place(op, d.node, Len(d.place), e.above, k, behind)
  BY DEF Reaches, At, Under
<1>2. ~AtEnd(d.node) /\ k \in Seq(Byte)
  BY <1>1, AtLeaf, KeysAre
<1>3. e.byte = ByteAt(k, Len(d.place) + d.node.partial_len, behind)
  BY <1>1, <1>2 DEF Place
<1>4. ~Ends(op, d.node, Len(d.place), k, e.byte)
  BY <1>1, <1>2, <1>3 DEF Place
<1>5. op = "delete" => find_child(d.node, e.byte) # NULL
  BY <1>4 DEF Ends, AtEnd
<1>6. e.byte \in Byte
  BY <1>1, <1>2, <1>3, AnyByte
<1>7. ASSUME NEW j \in Wanted(k, d0)
      PROVE  find_child(d.node, e.byte) # NULL /\ Begins(j, Append(stem, e.byte))
  <2>1. PICK x \in d0.entries : x.key = k /\ j = k
    BY <1>7 DEF Wanted
  <2>2. x \in d.entries
    BY <1>1, <1>7, <2>1 DEF Under
  <2> QED BY <1>1, <1>3, <2>1, <2>2, FoundOnward
<1> QED BY <1>5, <1>6, <1>7

\* Two sequences of which one begins with the other agree as far as that one goes.
LEMMA AgreeBegins ==
    ASSUME NEW p \in Seq(Byte), NEW u \in Seq(Byte), NEW w \in Seq(Byte),
           Begins(u, w), Begins(w, p)
    PROVE  /\ Agree(From(u, Len(p)), From(w, Len(p))) = Len(w) - Len(p)
           /\ Agree(From(w, Len(p)), From(u, Len(p))) = Len(w) - Len(p)
<1> DEFINE P == Len(p)
<1>1. /\ P \in Nat /\ Len(w) \in Nat /\ Len(u) \in Nat /\ P <= Len(w) /\ Len(w) <= Len(u)
      /\ \A i \in 1..Len(w) : u[i] = w[i]
  BY BeginsIf
<1>2. PICK t \in Seq(Byte) : /\ t = From(w, P) /\ Len(t) = Len(w) - P /\ Len(t) \in Nat
                             /\ \A i \in 1..Len(t) : t[i] = w[P + i]
  BY ONLY <1>1, w \in Seq(Byte), FromBack
<1>3. PICK s \in Seq(Byte) : /\ s = From(u, P) /\ Len(s) = Len(u) - P /\ Len(s) \in Nat
                             /\ \A i \in 1..Len(s) : s[i] = u[P + i]
  <2>1. P <= Len(u)
    BY <1>1
  <2> QED BY ONLY <1>1, <2>1, u \in Seq(Byte), FromBack
<1> HIDE DEF P
<1>4. Len(t) <= Len(s)
  BY <1>1, <1>2, <1>3
<1>5. ASSUME NEW i \in 1..Len(t) PROVE s[i] = t[i]
  <2>1. i \in 1..Len(s) /\ P + i \in 1..Len(w)
    BY <1>1, <1>2, <1>4
  <2> QED BY <1>1, <1>2, <1>3, <2>1
<1>6. Shares(s, t, Len(t)) /\ Shares(t, s, Len(t))
  BY <1>2, <1>4, <1>5 DEF Shares
<1>7. Agree(s, t) = Len(t) /\ Agree(t, s) = Len(t)
  BY <1>6, AgreeShares
<1> QED BY <1>2, <1>3, <1>7 DEF P

\* How far a prefix that a key below the node has is matched.
LEMMA IterMatched ==
    ASSUME NEW d, Tree(d), NEW stem, NEW child, Children(d, stem, child),
           NEW q \in Seq(Byte), Begins(q, d.place), NEW x \in d.entries, Begins(x.key, q)
    PROVE  /\ Len(q) <= Len(stem) => /\ Matched(d.node, q, Len(d.place)) = Len(q) - Len(d.place)
                                     /\ d.node.partial_len >= Len(q) - Len(d.place)
           /\ Len(q) > Len(stem) => /\ Matched(d.node, q, Len(d.place)) = Len(stem) - Len(d.place)
                                    /\ Begins(q, stem)
           /\ d.node.partial_len = Len(stem) - Len(d.place)
           /\ Len(q) \in Nat /\ Len(stem) \in Nat /\ Len(d.place) \in Nat
           /\ Len(d.place) <= Len(q) /\ Len(d.place) <= Len(stem)
<1>1. /\ stem \in Seq(Byte) /\ d.place \in Seq(Byte) /\ Begins(stem, d.place)
      /\ d.node.partial_len = Len(stem) - Len(d.place)
  BY NodeThere DEF Children, InnerSub
<1>2. x.key \in Seq(Byte) /\ Begins(x.key, stem)
  BY Below
<1>3. /\ Len(d.place) <= Len(q) /\ Len(d.place) <= Len(stem) /\ Len(q) \in Nat
      /\ Len(stem) \in Nat /\ Len(d.place) \in Nat
  BY <1>1 DEF Begins
<1>4. min(prefix_mismatch(d.node, q, Len(d.place)), d.node.partial_len) =
          Agree(From(stem, Len(d.place)), From(q, Len(d.place)))
  <2>1. LET g == Agree(From(stem, Len(d.place)), From(q, Len(d.place)))
            m == prefix_mismatch(d.node, q, Len(d.place))
        IN  /\ g \in Nat /\ m \in Nat /\ min(m, d.node.partial_len) = g
            /\ m < d.node.partial_len <=> g < d.node.partial_len
            /\ g < d.node.partial_len => m = g
    BY <1>3, MismatchIs
  <2> QED BY <2>1
<1>5. CASE Len(q) <= Len(stem)
  <2>1. Begins(stem, q)
    BY ONLY <1>1, <1>2, <1>5, Begins(x.key, q), q \in Seq(Byte), BeginsBoth
  <2>2. Agree(From(stem, Len(d.place)), From(q, Len(d.place))) = Len(q) - Len(d.place)
    BY ONLY <1>1, <2>1, Begins(q, d.place), q \in Seq(Byte), AgreeBegins
  <2>3. d.node.partial_len >= Len(q) - Len(d.place)
    BY ONLY <1>1, <1>3, <1>5
  <2> QED BY <1>1, <1>3, <1>4, <1>5, <2>2, <2>3 DEF Matched
<1>6. CASE Len(q) > Len(stem)
  <2>1. Begins(q, stem)
    <3>1. Len(stem) <= Len(q)
      BY <1>3, <1>6
    <3> QED BY ONLY <1>1, <1>2, <3>1, Begins(x.key, q), q \in Seq(Byte), BeginsBoth
  <2>2. Agree(From(stem, Len(d.place)), From(q, Len(d.place))) = Len(stem) - Len(d.place)
    BY ONLY <1>1, <2>1, q \in Seq(Byte), AgreeBegins
  <2> QED BY <1>1, <1>3, <1>4, <1>6, <2>1, <2>2 DEF Matched
<1> QED BY <1>1, <1>3, <1>5, <1>6

\* The prefix asked for and the keys of the tree that begin with it.
Asked(q, d0) == {q} \union {x.key : x \in {y \in d0.entries : Begins(y.key, q)}}

\* An iteration with a prefix goes to where the keys with it are.
LEMMA IterOnward ==
    ASSUME NEW d0, Tree(d0), NEW q \in Seq(Byte), NEW behind, NEW x \in d0.entries, Begins(x.key, q)
    PROVE  Onward("iter_prefix", q, behind, d0, Asked(q, d0))
<1> SUFFICES ASSUME NEW e, NEW d, NEW stem, NEW child,
                    Reaches("iter_prefix", q, behind, d0, Asked(q, d0), e, d),
                    Children(d, stem, child), ~e.ends
             PROVE  /\ e.byte \in Byte /\ find_child(d.node, e.byte) # NULL
                    /\ \A j \in Asked(q, d0) : Begins(j, Append(stem, e.byte))
  BY DEF Onward
<1>1. /\ Tree(d) /\ Under(d, d0) /\ \A j \in Asked(q, d0) : Begins(j, d.place)
      /\ e = Place("iter_prefix", d.node, Len(d.place), e.above, q, behind)
  BY DEF Reaches, At, Under
<1>2. ~AtEnd(d.node)
  BY <1>1, AtLeaf
<1>3. e.byte = ByteAt(q, Len(d.place) + d.node.partial_len, behind)
  BY <1>1, <1>2 DEF Place
<1>4. ~Ends("iter_prefix", d.node, Len(d.place), q, e.byte)
  BY <1>1, <1>2, <1>3 DEF Place
<1>5. Begins(q, d.place) /\ x \in d.entries
  BY <1>1 DEF Asked, Under
<1>6. /\ Len(d.place) # Len(q)
      /\ d.node.partial_len > 0 => /\ Matched(d.node, q, Len(d.place)) # 0
                                   /\ Len(d.place) + Matched(d.node, q, Len(d.place)) # Len(q)
  BY <1>4 DEF Ends, PrefixEnds
<1>7. Len(stem) < Len(q) /\ Begins(q, stem)
  <2>1. /\ Len(q) <= Len(stem) => /\ Matched(d.node, q, Len(d.place)) = Len(q) - Len(d.place)
                                  /\ d.node.partial_len >= Len(q) - Len(d.place)
        /\ Len(q) > Len(stem) => Begins(q, stem)
        /\ Len(q) \in Nat /\ Len(stem) \in Nat /\ Len(d.place) \in Nat
        /\ Len(d.place) <= Len(q) /\ d.node.partial_len = Len(stem) - Len(d.place)
    BY <1>1, <1>5, IterMatched
  <2> QED BY ONLY <1>6, <2>1
<1>8. e.byte \in Byte /\ Begins(q, Append(stem, e.byte))
  BY <1>1, <1>3, <1>7, KeyByte
<1>9. stem \in Seq(Byte) /\ Append(stem, e.byte) \in Seq(Byte)
  BY <1>8, Appended DEF Children, InnerSub
<1>10. ASSUME NEW j \in Asked(q, d0) PROVE Begins(j, Append(stem, e.byte))
  <2>1. CASE j = q
    BY <1>8, <2>1
  <2>2. CASE j # q
    <3>1. PICK y \in d0.entries : j = y.key /\ Begins(y.key, q)
      BY <2>2 DEF Asked
    <3>2. j \in Seq(Byte)
      BY <3>1, TreeIs, KeysAre DEF Sound
    <3> QED BY ONLY <1>8, <1>9, <3>1, <3>2, q \in Seq(Byte), BeginsOn
  <2> QED BY <2>1, <2>2
<1>11. find_child(d.node, e.byte) # NULL
  <2>1. /\ x.key \in Seq(Byte) /\ x.key[Len(stem) + 1] \in Present(d.node)
    BY <1>1, <1>5, Below
  <2>2. Begins(x.key, Append(stem, e.byte))
    BY <1>10 DEF Asked
  <2>3. x.key[Len(stem) + 1] = e.byte
    BY <1>8, <1>9, <2>1, <2>2, BeginsMore
  <2> QED BY <1>8, <2>1, <2>3, TwoPresent DEF Children, InnerSub
<1> QED BY <1>8, <1>10, <1>11

-----------------------------------------------------------------------------
(* What an insert makes of the tree.                                        *)

\* Some places more: as many as count says.
More(P, Q, count) ==
    \/ count = 1 /\ \E z : z \notin P /\ Q = P \union {z}
    \/ count = 2 /\ TwoMore(P, Q)

\* A subtree becomes one with another node and one more entry.
Grows(d, n, k, v, count) ==
    /\ \A x \in d.entries : x.key # k
    /\ \E Q : /\ More(d.places, Q, count)
              /\ Tree(Sub(n, d.place, Q, d.entries \union {EntryOf(k, v)}))

\* The whole tree grows when the subtree does.
LEMMA GrowsAll ==
    ASSUME NEW d0, Tree(d0), NEW d, Under(d, d0), NEW above, Hangs(above, d, d0),
           NEW k, Begins(k, d.place), NEW v, NEW n, NEW count, Grows(d, n, k, v, count)
    PROVE  Grows(d0, Written(above, n), k, v, count)
<1> DEFINE E == d.entries \union {EntryOf(k, v)}
           Q0(Q) == (d0.places \ d.places) \union Q
           E0 == d0.entries \union {EntryOf(k, v)}
<1>1. PICK Q : More(d.places, Q, count) /\ Tree(Sub(n, d.place, Q, E))
  BY DEF Grows
<1> DEFINE d2 == Sub(n, d.place, Q, E)
<1>2. Tree(d2) /\ d2.node = n /\ d2.place = d.place /\ d2.places = Q /\ d2.entries = E
  BY <1>1 DEF Sub
<1> HIDE DEF d2
<1>3. Tree(InPlace(d0, d, d2, Written(above, n)))
  BY <1>1, <1>2 DEF Hangs
<1>4. d.places \subseteq d0.places /\ d.entries \subseteq d0.entries
  BY DEF Under
<1>5. (d0.entries \ d.entries) \union E = E0
  BY <1>4
<1>6. Tree(Sub(Written(above, n), d0.place, Q0(Q), E0))
  BY <1>2, <1>3, <1>5 DEF InPlace
<1>7. \A x \in d0.entries : x.key # k
  BY DEF Grows, Under
<1>8. \A z \in Q : z \notin d.places => z \notin d0.places
  <2>1. \A z \in Q : Begins(z, d.place)
    <3>1. Sound(d2)
      BY <1>1, <1>2, TreeIs
    <3> QED BY <1>2, <3>1 DEF Sound
  <2> QED BY <2>1 DEF Under
<1> HIDE DEF E, E0
<1>9. More(d0.places, Q0(Q), count)
  <2>1. CASE count = 1 /\ \E z : z \notin d.places /\ Q = d.places \union {z}
    <3>1. PICK z : z \notin d.places /\ Q = d.places \union {z}
      BY <2>1
    <3>2. z \notin d0.places
      BY <1>8, <3>1
    <3>3. Q0(Q) = d0.places \union {z}
      BY <1>4, <3>1
    <3> HIDE DEF Q0
    <3> QED BY <2>1, <3>2, <3>3 DEF More
  <2>2. CASE count = 2 /\ TwoMore(d.places, Q)
    <3>1. PICK x, y : x # y /\ x \notin d.places /\ y \notin d.places /\ Q = d.places \union {x, y}
      BY <2>2 DEF TwoMore
    <3>2. x \notin d0.places /\ y \notin d0.places
      BY <1>8, <3>1
    <3>3. Q0(Q) = d0.places \union {x, y}
      BY <1>4, <3>1
    <3> HIDE DEF Q0
    <3> QED BY <2>2, <3>1, <3>2, <3>3 DEF More, TwoMore
  <2> QED BY <1>1, <2>1, <2>2 DEF More
<1> HIDE DEF Q0
<1> QED BY <1>6, <1>7, <1>9 DEF Grows, E0

\* The subtree where an insert ends, when it is a leaf of another key.
LEMMA GrowsAtLeaf ==
    ASSUME NEW d, Tree(d), NEW j, NEW w, LeafSub(d, j, w), NEW k \in Key, NEW v \in ValuesOf[k],
           j # k, Begins(k, d.place)
    PROVE  Grows(d, SplitLeaf(d.node, make_leaf(k, v), Len(d.place)), k, v, 2)
<1>1. \A x \in d.entries : x.key # k
  BY DEF LeafSub, EntryOf
<1>2. OneMoreEntry(d, SplitLeaf(d.node, make_leaf(k, v), Len(d.place)), k, v)
  BY SplitLeafTree
<1> QED BY <1>1, <1>2 DEF OneMoreEntry, Grows, More

\* When it is an inner node with another prefix.
LEMMA GrowsAtPrefix ==
    ASSUME NEW d, Tree(d), NEW stem, NEW child, Children(d, stem, child),
           NEW k \in Key, NEW v \in ValuesOf[k], Begins(k, d.place),
           NEW a, a = prefix_mismatch(d.node, k, Len(d.place)), a < d.node.partial_len
    PROVE  Grows(d, SplitPrefix(d.node, make_leaf(k, v), a, Len(d.place)), k, v, 2)
<1>1. ASSUME NEW x \in d.entries, x.key = k PROVE FALSE
  <2>1. k \in Seq(Byte) /\ Begins(k, stem)
    BY <1>1, Below
  <2>2. /\ stem \in Seq(Byte) /\ d.place \in Seq(Byte) /\ Begins(stem, d.place)
        /\ d.node.partial_len = Len(stem) - Len(d.place)
    BY NodeThere DEF Children, InnerSub
  <2>3. Agree(From(stem, Len(d.place)), From(k, Len(d.place))) = Len(stem) - Len(d.place)
    BY ONLY <2>1, <2>2, AgreeBegins
  <2>4. Len(d.place) <= Len(k)
    BY DEF Begins
  <2>5. LET g == Agree(From(stem, Len(d.place)), From(k, Len(d.place)))
            m == prefix_mismatch(d.node, k, Len(d.place))
        IN  /\ g \in Nat /\ m \in Nat /\ min(m, d.node.partial_len) = g
            /\ m < d.node.partial_len <=> g < d.node.partial_len
            /\ g < d.node.partial_len => m = g
    BY <2>1, <2>4, MismatchIs
  <2>6. Len(stem) - Len(d.place) < d.node.partial_len
    BY <2>3, <2>5
  <2>7. Len(stem) \in Nat /\ Len(d.place) \in Nat
    BY <2>2
  <2> QED BY <2>2, <2>6, <2>7
<1>2. OneMoreEntry(d, SplitPrefix(d.node, make_leaf(k, v), a, Len(d.place)), k, v)
  BY SplitPrefixTree
<1> QED BY <1>1, <1>2 DEF OneMoreEntry, Grows, More

\* When it is an inner node without the child.
LEMMA GrowsAtChild ==
    ASSUME NEW d, Tree(d), NEW stem, NEW child, Children(d, stem, child),
           NEW k \in Key, NEW v \in ValuesOf[k], Begins(k, d.place),
           ~(prefix_mismatch(d.node, k, Len(d.place)) < d.node.partial_len),
           NEW behind, NEW b, b = ByteAt(k, Len(d.place) + d.node.partial_len, behind),
           find_child(d.node, b) = NULL
    PROVE  Grows(d, add_child(d.node, b, make_leaf(k, v)), k, v, 1)
<1> DEFINE z == Append(stem, b)
<1>1. /\ stem \in Seq(Byte) /\ d.place \in Seq(Byte) /\ k \in Seq(Byte)
      /\ Begins(stem, d.place)
      /\ d.places = {d.place} \union UNION {child[a].places : a \in Present(d.node)}
  BY NodeThere, KeysAre DEF Children, InnerSub
<1>2. b \in Byte /\ Begins(k, z)
  BY InsertByte
<1>3. z \in Seq(Byte) /\ Len(z) = Len(stem) + 1 /\ z[Len(stem) + 1] = b /\ Len(stem) \in Nat
  BY <1>1, <1>2, Appended
<1> DEFINE l == Sub(make_leaf(k, v), z, {z}, {EntryOf(k, v)})
<1>4. /\ l.node = make_leaf(k, v) /\ l.place = z /\ l.places = {z}
      /\ l.entries = {EntryOf(k, v)}
  BY DEF Sub
<1>5. Tree(l)
  <2> HIDE DEF z
  <2> QED BY <1>2, <1>3, LeafTree DEF l
<1> HIDE DEF l
<1>6. Tree(Sub(add_child(d.node, b, l.node), d.place, d.places \union l.places,
               d.entries \union l.entries))
  BY <1>1, <1>2, <1>4, <1>5, ChildAdded
<1>7. z \notin d.places
  <2>1. SUFFICES ASSUME z \in d.places PROVE FALSE
    OBVIOUS
  <2> HIDE DEF z
  <2>2. z # d.place
    <3>1. Len(d.place) <= Len(stem) /\ Len(d.place) \in Nat
      BY <1>1 DEF Begins
    <3> QED BY <1>3, <3>1
  <2>3. PICK a \in Present(d.node) : z \in child[a].places
    BY <1>1, <2>1, <2>2
  <2>4. Apart(d, stem, child) /\ Present(d.node) \subseteq Byte
    BY <1>1, ChildrenApart
  <2>5. Begins(z, Append(stem, a)) /\ a \in Byte
    BY <2>3, <2>4 DEF Apart
  <2>6. z[Len(stem) + 1] = a
    BY <1>1, <1>3, <2>5, BeginsMore
  <2>7. find_child(d.node, b) # NULL
    BY <1>3, <2>5, <2>6, TwoPresent DEF Children, InnerSub
  <2> QED BY <2>7
<1>8. \A x \in d.entries : x.key # k
  BY FoundOnward
<1>9. More(d.places, d.places \union {z}, 1)
  BY <1>7 DEF More
<1> HIDE DEF z
<1> QED BY <1>4, <1>6, <1>8, <1>9 DEF Grows

\* Where the root is no inner node a call ends at once.
LEMMA EndsAtOnce ==
    ASSUME NEW op, NEW t, NEW key, NEW behind, AtEnd(t)
    PROVE  End(op, t, key, behind) = Place(op, t, 0, <<>>, key, behind)
<1>1. PICK g : Way(op, t, key, behind, g) /\ End(op, t, key, behind) = g[Longest]
  BY EndIs
<1>2. Longest \in Nat
  BY LongestIs
<1> DEFINE f == Place(op, t, 0, <<>>, key, behind)
<1>3. f.ends
  BY DEF Place, Ends
<1>4. g[0] = f
  BY <1>1 DEF Way, StartOf
<1> HIDE DEF f
<1> DEFINE S == {i \in Nat : i <= Longest => g[i] = f}
<1>5. 0 \in S
  BY <1>4
<1>6. ASSUME NEW i \in Nat, i < Longest, i \in S PROVE i + 1 \in S
  <2>1. g[i] = f
    BY <1>2, <1>6
  <2>2. g[i + 1] = EndStep(op, g[i], key, behind)
    BY <1>1, <1>6 DEF Way
  <2> QED BY <1>3, <2>1, <2>2 DEF EndStep
<1>7. \A i \in 0..Longest : i \in S
  <2> HIDE DEF S
  <2> QED BY ONLY <1>2, <1>5, <1>6, Upward
<1> QED BY <1>1, <1>2, <1>7 DEF f

\* A key that is there gets the new value, or keeps the old one.
Replaced(d0, t, k, v, replace, old) ==
    \E x \in d0.entries :
        /\ x.key = k /\ old = x.value
        /\ Tree(Sub(t, d0.place, d0.places,
                    (d0.entries \ {x}) \union {EntryOf(k, IF replace THEN v ELSE x.value)}))

\* What an insert makes of a tree: its key is there already, or the tree grows.
InsertMakes(d0, t, k, v, replace, r) ==
    \/ r.blocks = 0 /\ Replaced(d0, t, k, v, replace, r.old)
    \/ r.old = NoValue /\ r.blocks \in 1..2 /\ Grows(d0, t, k, v, r.blocks)

\* The leaf where an insert ends, when it has the key.
LEMMA ReplacedAll ==
    ASSUME NEW d0, Tree(d0), NEW d, Under(d, d0), NEW above, Hangs(above, d, d0),
           NEW k \in Key, Begins(k, d.place), NEW v \in ValuesOf[k], NEW w, LeafSub(d, k, w),
           NEW replace, NEW u, u = IF replace THEN v ELSE w
    PROVE  Replaced(d0, Written(above, make_leaf(k, u)), k, v, replace, w)
<1> DEFINE p == d.place
           d2 == Sub(make_leaf(k, u), p, {p}, {EntryOf(k, u)})
           x == EntryOf(k, w)
<1>1. /\ p \in Seq(Byte) /\ d.places = {p} /\ d.entries = {x} /\ w \in ValuesOf[k]
      /\ x \in d0.entries /\ p \in d0.places
  BY NodeThere DEF LeafSub, Under
<1>2. u \in ValuesOf[k]
  BY <1>1
<1>3. Tree(d2)
  <2> HIDE DEF p
  <2>1. Begins(k, p)
    BY DEF p
  <2> QED BY <1>1, <1>2, <2>1, LeafTree
<1>4. /\ d2.node = make_leaf(k, u) /\ d2.place = p /\ d2.places = {p}
      /\ d2.entries = {EntryOf(k, u)}
  BY DEF Sub
<1> HIDE DEF d2
<1>5. Tree(InPlace(d0, d, d2, Written(above, make_leaf(k, u))))
  BY <1>3, <1>4 DEF Hangs
<1>6. /\ (d0.places \ d.places) \union d2.places = d0.places
      /\ (d0.entries \ d.entries) \union d2.entries = (d0.entries \ {x}) \union {EntryOf(k, u)}
  BY <1>1, <1>4
<1>7. x.key = k /\ x.value = w
  BY DEF EntryOf
<1> HIDE DEF x
<1> QED BY <1>1, <1>5, <1>6, <1>7 DEF Replaced, InPlace

\* What an insert makes of a tree.
LEMMA InsertIs ==
    ASSUME NEW d0, Tree(d0), d0.place = <<>>, NEW k \in Key, NEW v \in ValuesOf[k], NEW replace,
           NEW behind, NEW e, e = End("insert", d0.node, k, behind),
           NEW r, r = InsertAtEnd(e.node, make_leaf(k, v), e.depth, e.byte, replace)
    PROVE  InsertMakes(d0, Written(e.above, r.node), k, v, replace, r)
<1>1. e.ends /\ \E d : Reaches("insert", k, behind, d0, {k}, e, d)
  <2>1. \A j \in {k} : j \in Seq(Byte)
    BY KeysAre
  <2>2. Onward("insert", k, behind, d0, {k})
    BY InsertOnward
  <2>3. Lost("insert", {k}, e) \/ (e.ends /\ \E d : Reaches("insert", k, behind, d0, {k}, e, d))
    BY <2>1, <2>2, WalkEnds
  <2> QED BY <2>3 DEF Lost
<1>2. PICK d : Reaches("insert", k, behind, d0, {k}, e, d)
  BY <1>1
<1>3. /\ Under(d, d0) /\ Hangs(e.above, d, d0) /\ Begins(k, d.place) /\ Tree(d)
      /\ e = Place("insert", d.node, Len(d.place), e.above, k, behind)
  BY <1>2 DEF Reaches, At, Under
<1>4. /\ e.node = d.node /\ e.depth = Len(d.place) /\ d.node # NULL
      /\ ~AtEnd(d.node) => e.byte = ByteAt(k, Len(d.place) + d.node.partial_len, behind)
      /\ Ends("insert", d.node, Len(d.place), k, e.byte)
  BY <1>1, <1>3, NodeThere DEF Place
<1> DEFINE l == make_leaf(k, v)
<1>5. l.key = k
  BY DEF make_leaf
<1> HIDE DEF l
<1>a. r = InsertAtEnd(d.node, l, Len(d.place), e.byte, replace)
  BY <1>4 DEF l
<1>6. CASE AtEnd(d.node)
  <2>1. PICK j, w : LeafSub(d, j, w) /\ IS_LEAF(d.node)
    BY <1>3, <1>6, AtLeaf
  <2>2. d.node.key = j /\ d.node.value = w /\ d.node = make_leaf(j, w)
    BY <2>1 DEF LeafSub, make_leaf
  <2>3. CASE j = k
    <3>1. r = Inserted(IF replace THEN l ELSE d.node, w, 0)
      BY <1>4, <1>5, <1>a, <2>1, <2>2, <2>3 DEF InsertAtEnd
    <3>2. r.node = make_leaf(k, IF replace THEN v ELSE w) /\ r.old = w /\ r.blocks = 0
      BY <2>2, <2>3, <3>1 DEF Inserted, l
    <3>3. Replaced(d0, Written(e.above, make_leaf(k, IF replace THEN v ELSE w)), k, v, replace, w)
      BY <1>3, <2>1, <2>3, ReplacedAll
    <3> QED BY <3>2, <3>3 DEF InsertMakes
  <2>4. CASE j # k
    <3>1. r = Inserted(SplitLeaf(d.node, l, Len(d.place)), NoValue, 2)
      BY <1>4, <1>5, <1>a, <2>1, <2>2, <2>4 DEF InsertAtEnd
    <3>2. r.node = SplitLeaf(d.node, l, Len(d.place)) /\ r.old = NoValue /\ r.blocks = 2
      BY <3>1 DEF Inserted
    <3>3. Grows(d, r.node, k, v, 2)
      BY <1>3, <2>1, <2>4, <3>2, GrowsAtLeaf DEF l
    <3>4. Grows(d0, Written(e.above, r.node), k, v, 2)
      BY <1>3, <3>3, GrowsAll
    <3> QED BY <3>2, <3>4 DEF InsertMakes
  <2> QED BY <2>3, <2>4
<1>7. CASE ~AtEnd(d.node)
  <2> DEFINE m == prefix_mismatch(d.node, k, Len(d.place))
  <2>1. PICK stem, child : Children(d, stem, child)
    BY <1>3, <1>7, AtLeaf
  <2>2. ~IS_LEAF(d.node)
    BY <1>7 DEF AtEnd
  <2>3. CASE m < d.node.partial_len
    <3>1. r = Inserted(SplitPrefix(d.node, l, m, Len(d.place)), NoValue, 2)
      <4>1. r = IF m < d.node.partial_len
                THEN Inserted(SplitPrefix(d.node, l, m, Len(d.place)), NoValue, 2)
                ELSE Inserted(add_child(d.node, e.byte, l), NoValue, 1)
        BY <1>4, <1>5, <1>a, <2>2 DEF InsertAtEnd
      <4> HIDE DEF m
      <4> QED BY <2>3, <4>1
    <3>2. r.node = SplitPrefix(d.node, l, m, Len(d.place)) /\ r.old = NoValue /\ r.blocks = 2
      BY <3>1 DEF Inserted
    <3>3. Grows(d, r.node, k, v, 2)
      BY <1>3, <2>1, <2>3, <3>2, GrowsAtPrefix DEF l
    <3>4. Grows(d0, Written(e.above, r.node), k, v, 2)
      BY <1>3, <3>3, GrowsAll
    <3> QED BY <3>2, <3>4 DEF InsertMakes
  <2>4. CASE ~(m < d.node.partial_len)
    <3>1. r = Inserted(add_child(d.node, e.byte, l), NoValue, 1)
      <4>1. r = IF m < d.node.partial_len
                THEN Inserted(SplitPrefix(d.node, l, m, Len(d.place)), NoValue, 2)
                ELSE Inserted(add_child(d.node, e.byte, l), NoValue, 1)
        BY <1>4, <1>5, <1>a, <2>2 DEF InsertAtEnd
      <4> HIDE DEF m
      <4> QED BY <2>4, <4>1
    <3>2. r.node = add_child(d.node, e.byte, l) /\ r.old = NoValue /\ r.blocks = 1
      BY <3>1 DEF Inserted
    <3>3. find_child(d.node, e.byte) = NULL
      BY <1>4, <1>7, <2>4 DEF Ends
    <3>4. Grows(d, r.node, k, v, 1)
      BY <1>3, <1>4, <1>7, <2>1, <2>4, <3>2, <3>3, GrowsAtChild DEF l
    <3>5. Grows(d0, Written(e.above, r.node), k, v, 1)
      BY <1>3, <3>4, GrowsAll
    <3> QED BY <3>2, <3>5 DEF InsertMakes
  <2> QED BY <2>3, <2>4
<1> QED BY <1>6, <1>7

\* A tree with another node that has what it had.
Stays(d0, t) == Tree(Sub(t, d0.place, d0.places, d0.entries))

\* A tree without an entry: nothing is left or another tree.
Shrinks(d0, t, x, count) ==
    \/ t = NULL /\ d0.entries = {x} /\ d0.places = {d0.place} /\ count = 1
    \/ OneEntryLess(d0, t, x, count)

\* What a delete makes of a tree: its key is not there, or the tree shrinks.
DeleteMakes(d0, t, k, r) ==
    \/ /\ r.old = NoValue /\ r.blocks = 0 /\ \A x \in d0.entries : x.key # k
       /\ Stays(d0, t)
    \/ \E x \in d0.entries : /\ x.key = k /\ r.old = x.value
                             /\ r.blocks \in 1..2 /\ Shrinks(d0, t, x, r.blocks)

\* The whole tree stays when the subtree does, and loses an entry when it does.
LEMMA StaysAll ==
    ASSUME NEW d0, NEW d, Under(d, d0), NEW above, Hangs(above, d, d0)
    PROVE  Stays(d0, Written(above, d.node))
<1>1. Tree(InPlace(d0, d, d, Written(above, d.node)))
  BY DEF Hangs, Under
<1>2. /\ (d0.places \ d.places) \union d.places = d0.places
      /\ (d0.entries \ d.entries) \union d.entries = d0.entries
  BY DEF Under
<1> QED BY <1>1, <1>2 DEF Stays, InPlace

\* The whole tree loses an entry when the subtree does.
LEMMA LessAll ==
    ASSUME NEW d0, NEW d, Under(d, d0), NEW above, Hangs(above, d, d0),
           NEW x \in d.entries, NEW n, NEW count, OneEntryLess(d, n, x, count)
    PROVE  OneEntryLess(d0, Written(above, n), x, count)
<1>1. PICK Q : Fewer(d.places, Q, count) /\ Tree(Sub(n, d.place, Q, d.entries \ {x}))
  BY DEF OneEntryLess
<1> DEFINE d2 == Sub(n, d.place, Q, d.entries \ {x})
           Q0 == (d0.places \ d.places) \union Q
<1>2. /\ Tree(d2) /\ d2.node = n /\ d2.place = d.place /\ d2.places = Q
      /\ d2.entries = d.entries \ {x}
  BY <1>1 DEF Sub
<1> HIDE DEF d2
<1>3. Tree(InPlace(d0, d, d2, Written(above, n)))
  BY <1>2 DEF Hangs
<1>4. d.places \subseteq d0.places /\ d.entries \subseteq d0.entries
  BY DEF Under
<1>5. (d0.entries \ d.entries) \union (d.entries \ {x}) = d0.entries \ {x}
  BY <1>4
<1>6. Tree(Sub(Written(above, n), d0.place, Q0, d0.entries \ {x}))
  BY <1>2, <1>3, <1>5 DEF InPlace
<1>7. Fewer(d0.places, Q0, count)
  <2>1. CASE count = 1 /\ \E y \in d.places : Q = d.places \ {y}
    <3>1. PICK y \in d.places : Q = d.places \ {y}
      BY <2>1
    <3>2. Q0 = d0.places \ {y} /\ y \in d0.places
      BY <1>4, <3>1
    <3> HIDE DEF Q0
    <3> QED BY <2>1, <3>2 DEF Fewer
  <2>2. CASE count = 2 /\ \E y, z \in d.places : y # z /\ Q = d.places \ {y, z}
    <3>1. PICK y \in d.places, z \in d.places : y # z /\ Q = d.places \ {y, z}
      BY <2>2
    <3>2. Q0 = d0.places \ {y, z} /\ y \in d0.places /\ z \in d0.places
      BY <1>4, <3>1
    <3> HIDE DEF Q0
    <3> QED BY <2>2, <3>1, <3>2 DEF Fewer
  <2> QED BY <1>1, <2>1, <2>2 DEF Fewer
<1> HIDE DEF Q0
<1> QED BY <1>6, <1>7 DEF OneEntryLess

\* An entry with the key of a call is below where the call has come to.
LEMMA WantedBelow ==
    ASSUME NEW op, NEW k, NEW behind, NEW d0, NEW e, NEW d,
           Reaches(op, k, behind, d0, Wanted(k, d0), e, d), NEW x \in d0.entries, x.key = k
    PROVE  x \in d.entries
<1>1. k \in Wanted(k, d0)
  BY DEF Wanted
<1>2. Begins(x.key, d.place)
  BY <1>1 DEF Reaches
<1> QED BY <1>2 DEF Reaches, At, Under

\* What a delete makes of a tree.
LEMMA DeleteIs ==
    ASSUME NEW d0, Tree(d0), d0.place = <<>>, NEW k \in Key, NEW behind \in Byte,
           NEW e, e = End("delete", d0.node, k, behind),
           NEW r, r = DeleteAtEnd(e.node, k, e.depth, e.byte)
    PROVE  DeleteMakes(d0, Written(e.above, r.node), k, r)
<1>1. e.ends /\ \E d : Reaches("delete", k, behind, d0, Wanted(k, d0), e, d)
  <2>1. \A j \in Wanted(k, d0) : j \in Seq(Byte)
    BY KeysAre DEF Wanted
  <2>2. Onward("delete", k, behind, d0, Wanted(k, d0))
    BY SearchOnward
  <2>3. \/ Lost("delete", Wanted(k, d0), e)
        \/ e.ends /\ \E d : Reaches("delete", k, behind, d0, Wanted(k, d0), e, d)
    BY <2>1, <2>2, WalkEnds
  <2> QED BY <2>3 DEF Lost
<1>2. PICK d : Reaches("delete", k, behind, d0, Wanted(k, d0), e, d)
  BY <1>1
<1>3. /\ Under(d, d0) /\ Hangs(e.above, d, d0) /\ Tree(d)
      /\ e = Place("delete", d.node, Len(d.place), e.above, k, behind)
      /\ AtEnd(d.node) => e.above = <<>> /\ d = d0
  BY <1>2 DEF Reaches, At, Under
<1>4. /\ e.node = d.node /\ e.depth = Len(d.place) /\ d.node # NULL
      /\ ~AtEnd(d.node) => e.byte = ByteAt(k, Len(d.place) + d.node.partial_len, behind)
      /\ Ends("delete", d.node, Len(d.place), k, e.byte)
  BY <1>1, <1>3, NodeThere DEF Place
<1>5. r = DeleteAtEnd(d.node, k, Len(d.place), e.byte)
  BY <1>4
<1>6. ASSUME r = Deleted(d.node, NoValue, 0), \A x \in d.entries : x.key # k
      PROVE  DeleteMakes(d0, Written(e.above, r.node), k, r)
  <2>1. r.node = d.node /\ r.old = NoValue /\ r.blocks = 0
    BY <1>6 DEF Deleted
  <2>2. Stays(d0, Written(e.above, d.node))
    BY <1>3, StaysAll
  <2>3. \A x \in d0.entries : x.key # k
    BY <1>2, <1>6, WantedBelow
  <2> QED BY <2>1, <2>2, <2>3 DEF DeleteMakes
<1>7. CASE AtEnd(d.node)
  <2>1. PICK j, w : LeafSub(d, j, w) /\ IS_LEAF(d.node)
    BY <1>3, <1>7, AtLeaf
  <2>2. /\ d.node.key = j /\ d.node.value = w /\ d.entries = {EntryOf(j, w)}
        /\ d.places = {d.place} /\ EntryOf(j, w).key = j /\ EntryOf(j, w).value = w
    BY <2>1 DEF LeafSub, make_leaf, EntryOf
  <2>3. CASE j = k
    <3>1. r = Deleted(NULL, w, 1)
      BY <1>4, <1>5, <2>1, <2>2, <2>3 DEF DeleteAtEnd
    <3>2. r.node = NULL /\ r.old = w /\ r.blocks = 1
      BY <3>1 DEF Deleted
    <3>3. Written(e.above, NULL) = NULL
      BY <1>3, <1>7, WrittenIs
    <3>4. Shrinks(d0, NULL, EntryOf(j, w), 1)
      BY <1>3, <1>7, <2>2 DEF Shrinks
    <3>5. EntryOf(j, w) \in d0.entries
      BY <1>3, <1>7, <2>2
    <3> QED BY <2>2, <2>3, <3>2, <3>3, <3>4, <3>5 DEF DeleteMakes
  <2>4. CASE j # k
    <3>1. r = Deleted(d.node, NoValue, 0)
      BY <1>4, <1>5, <2>1, <2>2, <2>4 DEF DeleteAtEnd
    <3>2. \A x \in d.entries : x.key # k
      BY <2>2, <2>4
    <3> QED BY <1>6, <3>1, <3>2
  <2> QED BY <2>3, <2>4
<1>8. CASE ~AtEnd(d.node)
  <2> DEFINE n == d.node
             b == e.byte
             c == find_child(n, b)
             passes == check_prefix(n, k, Len(d.place)) = min(MAX_PREFIX_LEN, n.partial_len)
  <2>1. PICK stem, child : Children(d, stem, child)
    BY <1>3, <1>8, AtLeaf
  <2>2. ~IS_LEAF(n) /\ n # NULL
    BY <1>8 DEF AtEnd
  <2>3. b = ByteAt(k, Len(d.place) + n.partial_len, behind)
    BY <1>4, <1>8
  <2>4. ASSUME NEW x \in d.entries, x.key = k
        PROVE  b \in Present(n) /\ c # NULL /\ passes /\ x \in child[b].entries
    BY <1>3, <2>1, <2>3, <2>4, FoundOnward
  <2>5. r = IF ~passes \/ c = NULL THEN Deleted(n, NoValue, 0)
            ELSE IF c.key # k THEN Deleted(n, NoValue, 0)
            ELSE Deleted(remove_child(n, b), c.value,
                         IF n.type = "NODE4" /\ n.num_children = 2 THEN 2 ELSE 1)
    BY <1>5, <2>2, Zenon DEF DeleteAtEnd
  <2>6. passes => AtEnd(c)
    BY <1>4, <1>8 DEF Ends
  <2> HIDE DEF passes, n, b, c
  <2>7. CASE ~passes \/ c = NULL
    <3>1. r = Deleted(d.node, NoValue, 0)
      BY <2>5, <2>7 DEF n
    <3> QED BY <1>6, <2>4, <2>7, <3>1
  <2>8. CASE passes /\ c # NULL
    <3>1. b \in Byte
      <4>1. k \in Seq(Byte)
        BY KeysAre
      <4> QED BY <1>3, <2>1, <2>3, <4>1, AnyByte DEF n
    <3>2. b \in Present(n)
      BY <2>1, <2>8, <3>1, TwoPresent DEF Children, InnerSub, n, c
    <3>3. Tree(child[b]) /\ child[b].node = c
      BY <2>1, <3>2 DEF Children, InnerSub, n, c
    <3>4. PICK j, w : LeafSub(child[b], j, w)
      BY <2>6, <2>8, <3>3, AtLeaf
    <3>5. /\ c.key = j /\ c.value = w /\ child[b].entries = {EntryOf(j, w)}
          /\ EntryOf(j, w).key = j /\ EntryOf(j, w).value = w
      BY <3>3, <3>4 DEF LeafSub, make_leaf, EntryOf
    <3>6. CASE j # k
      <4>1. r = Deleted(d.node, NoValue, 0)
        BY <2>5, <2>8, <3>5, <3>6 DEF n
      <4>2. \A x \in d.entries : x.key # k
        BY <2>4, <3>5, <3>6
      <4> QED BY <1>6, <4>1, <4>2
    <3>7. CASE j = k
      <4> DEFINE count == IF n.type = "NODE4" /\ n.num_children = 2 THEN 2 ELSE 1
      <4>1. r = Deleted(remove_child(n, b), w, count)
        BY <2>5, <2>8, <3>5, <3>7
      <4>2. r.node = remove_child(n, b) /\ r.old = w /\ r.blocks = count
        BY <4>1 DEF Deleted
      <4>3. OneEntryLess(d, remove_child(n, b), EntryOf(j, w), count)
        BY <1>3, <2>1, <3>2, <3>4, OneLeft DEF n
      <4>4. EntryOf(j, w) \in d.entries
        BY <2>1, <3>2, <3>5 DEF Children, InnerSub, n
      <4>5. OneEntryLess(d0, Written(e.above, remove_child(n, b)), EntryOf(j, w), count)
        BY <1>3, <4>3, <4>4, LessAll
      <4>6. count \in 1..2
        OBVIOUS
      <4>7. EntryOf(j, w) \in d0.entries
        BY <1>3, <4>4 DEF Under
      <4> HIDE DEF count
      <4> QED BY <3>5, <3>7, <4>2, <4>5, <4>6, <4>7 DEF DeleteMakes, Shrinks
    <3> QED BY <3>6, <3>7
  <2> QED BY <2>7, <2>8
<1> QED BY <1>7, <1>8

\* What a search finds.
LEMMA SearchIs ==
    ASSUME NEW d0, Tree(d0), d0.place = <<>>, d0.node = root, NEW k \in Key, NEW behind \in Byte
    PROVE  /\ \A x \in d0.entries : x.key = k => art_search(k, behind) = x.value
           /\ (\A x \in d0.entries : x.key # k) => art_search(k, behind) = NoValue
<1> DEFINE e == End("search", root, k, behind)
           n == e.node
<1>1. art_search(k, behind) = IF n # NULL /\ IS_LEAF(n) THEN IF n.key = k THEN n.value ELSE NoValue
                              ELSE NoValue
  BY DEF art_search
<1>2. \/ Lost("search", Wanted(k, d0), e)
      \/ e.ends /\ \E d : Reaches("search", k, behind, d0, Wanted(k, d0), e, d)
  <2>1. \A j \in Wanted(k, d0) : j \in Seq(Byte)
    BY KeysAre DEF Wanted
  <2>2. Onward("search", k, behind, d0, Wanted(k, d0))
    BY SearchOnward
  <2>3. e = End("search", d0.node, k, behind)
    OBVIOUS
  <2> HIDE DEF e
  <2> QED BY <2>1, <2>2, <2>3, WalkEnds
<1> HIDE DEF e
<1>3. CASE Lost("search", Wanted(k, d0), e)
  <2>1. \A x \in d0.entries : x.key # k
    BY <1>3 DEF Lost, Wanted
  <2>2. n = NULL
    BY <1>3 DEF Lost
  <2> QED BY <1>1, <2>1, <2>2
<1>4. ASSUME e.ends, NEW d, Reaches("search", k, behind, d0, Wanted(k, d0), e, d)
      PROVE  /\ \A x \in d0.entries : x.key = k => art_search(k, behind) = x.value
             /\ (\A x \in d0.entries : x.key # k) => art_search(k, behind) = NoValue
  <2>1. /\ Under(d, d0) /\ Tree(d)
        /\ e = Place("search", d.node, Len(d.place), e.above, k, behind)
    BY <1>4 DEF Reaches, At, Under
  <2>2. /\ n = d.node /\ d.node # NULL
        /\ ~AtEnd(d.node) => e.byte = ByteAt(k, Len(d.place) + d.node.partial_len, behind)
        /\ Ends("search", d.node, Len(d.place), k, e.byte)
    BY <1>4, <2>1, NodeThere DEF Place
  <2>3. \A x \in d0.entries : x.key = k => x \in d.entries
    BY <1>4, WantedBelow
  <2>4. CASE AtEnd(d.node)
    <3>1. PICK j, w : LeafSub(d, j, w) /\ IS_LEAF(d.node)
      BY <2>1, <2>4, AtLeaf
    <3>2. /\ d.node.key = j /\ d.node.value = w /\ d.entries = {EntryOf(j, w)}
          /\ EntryOf(j, w).key = j /\ EntryOf(j, w).value = w
      BY <3>1 DEF LeafSub, make_leaf, EntryOf
    <3>3. art_search(k, behind) = IF j = k THEN w ELSE NoValue
      BY <1>1, <2>2, <3>1, <3>2
    <3>4. EntryOf(j, w) \in d0.entries
      BY <2>1, <3>2 DEF Under
    <3> QED BY <2>3, <3>2, <3>3, <3>4
  <2>5. CASE ~AtEnd(d.node)
    <3>1. PICK stem, child : Children(d, stem, child)
      BY <2>1, <2>5, AtLeaf
    <3>2. art_search(k, behind) = NoValue
      BY <1>1, <2>2, <2>5 DEF AtEnd
    <3>3. check_prefix(d.node, k, Len(d.place)) # min(MAX_PREFIX_LEN, d.node.partial_len)
      BY <2>2, <2>5 DEF Ends
    <3>4. \A x \in d.entries : x.key # k
      BY <2>1, <2>2, <2>5, <3>1, <3>3, FoundOnward
    <3> QED BY <2>3, <3>2, <3>4
  <2> QED BY <2>4, <2>5
<1> QED BY <1>2, <1>3, <1>4

\* Where all keys with a prefix are, if there are any.
LEMMA IterIs ==
    ASSUME NEW d0, Tree(d0), d0.place = <<>>, d0.node = root, NEW q \in Prefix, NEW behind,
           NEW x \in d0.entries, Begins(x.key, q)
    PROVE  \E d : /\ Under(d, d0) /\ IterNode(q, behind) = d.node
                  /\ \A y \in d0.entries : Begins(y.key, q) => y \in d.entries
<1> DEFINE e == End("iter_prefix", root, q, behind)
           n == e.node
           T == Asked(q, d0)
           reported == IF AtEnd(n) \/ e.depth = Len(q)
                       THEN leaf_prefix_matches(minimum(n), q) ELSE Matched(n, q, e.depth) # 0
<1>1. IterNode(q, behind) = IF n # NULL THEN IF reported THEN n ELSE NULL ELSE NULL
  BY Zenon DEF IterNode
<1> HIDE DEF reported
<1>2. q \in Seq(Byte) /\ \A j \in T : j \in Seq(Byte)
  <2>1. q \in Seq(Byte)
    BY KeysAre
  <2>2. \A y \in d0.entries : y.key \in Seq(Byte)
    BY TreeIs, KeysAre DEF Sound
  <2> QED BY <2>1, <2>2 DEF Asked
<1>3. e.ends /\ \E d : Reaches("iter_prefix", q, behind, d0, T, e, d)
  <2>1. Onward("iter_prefix", q, behind, d0, T)
    BY <1>2, IterOnward
  <2>2. e = End("iter_prefix", d0.node, q, behind)
    OBVIOUS
  <2> HIDE DEF e, T
  <2>3. Lost("iter_prefix", T, e) \/ (e.ends /\ \E d : Reaches("iter_prefix", q, behind, d0, T, e, d))
    BY <1>2, <2>1, <2>2, WalkEnds
  <2> QED BY <2>3 DEF Lost
<1>4. PICK d : Reaches("iter_prefix", q, behind, d0, T, e, d)
  BY <1>3
<1> HIDE DEF e
<1>5. /\ Under(d, d0) /\ Tree(d) /\ \A j \in T : Begins(j, d.place)
      /\ e = Place("iter_prefix", d.node, Len(d.place), e.above, q, behind)
  BY <1>4 DEF Reaches, At, Under
<1>6. /\ n = d.node /\ e.depth = Len(d.place) /\ d.node # NULL
      /\ Ends("iter_prefix", d.node, Len(d.place), q, e.byte)
  BY <1>3, <1>5, NodeThere DEF Place
<1>7. /\ \A y \in d0.entries : Begins(y.key, q) => y \in d.entries
      /\ Begins(q, d.place) /\ x \in d.entries /\ d.place \in Seq(Byte)
  <2>1. \A y \in d0.entries : Begins(y.key, q) => y.key \in T
    BY DEF Asked
  <2>2. q \in T
    BY DEF Asked
  <2> QED BY <1>5, <2>1, <2>2, NodeThere DEF Under
<1> HIDE DEF T
<1>8. PICK f \in d.entries : minimum(d.node) = make_leaf(f.key, f.value)
  BY <1>5, MinimumIs
<1>9. leaf_prefix_matches(minimum(d.node), q) = Begins(f.key, q)
  BY <1>8 DEF leaf_prefix_matches, make_leaf
<1>10. reported
  <2>1. CASE AtEnd(d.node)
    <3>1. PICK j, w : LeafSub(d, j, w)
      BY <1>5, <2>1, AtLeaf
    <3>2. f = x
      BY <1>7, <3>1 DEF LeafSub
    <3> QED BY <1>6, <1>9, <2>1, <3>2 DEF reported
  <2>2. CASE ~AtEnd(d.node) /\ Len(d.place) = Len(q)
    <3>1. q = d.place
      <4>1. \A i \in 1..Len(d.place) : q[i] = d.place[i]
        BY <1>2, <1>7, BeginsIf
      <4> QED BY <1>2, <1>7, <2>2, <4>1, SameSeq
    <3>2. Begins(f.key, d.place)
      BY <1>5, TreeIs DEF Sound
    <3> QED BY <1>6, <1>9, <2>2, <3>1, <3>2 DEF reported
  <2>3. CASE ~AtEnd(d.node) /\ Len(d.place) # Len(q)
    <3> DEFINE m == Matched(d.node, q, Len(d.place))
    <3>1. PICK stem, child : Children(d, stem, child)
      BY <1>5, <2>3, AtLeaf
    <3>2. d.node.partial_len > 0
      BY <1>6, <2>3 DEF Ends
    <3>3. /\ Len(q) <= Len(stem) => m = Len(q) - Len(d.place)
          /\ Len(q) > Len(stem) => m = Len(stem) - Len(d.place)
          /\ d.node.partial_len = Len(stem) - Len(d.place)
          /\ Len(q) \in Nat /\ Len(stem) \in Nat /\ Len(d.place) \in Nat
      BY <1>2, <1>5, <1>7, <3>1, IterMatched
    <3> HIDE DEF m
    <3>4. m # 0
      <4>1. Len(d.place) # Len(q)
        BY <2>3
      <4> QED BY ONLY <3>2, <3>3, <4>1
    <3> QED BY <1>6, <2>3, <3>4 DEF reported, m
  <2> QED BY <2>1, <2>2, <2>3
<1>11. IterNode(q, behind) = d.node
  BY <1>1, <1>6, <1>10
<1> QED BY <1>5, <1>7, <1>11

-----------------------------------------------------------------------------
(* The calls keep a tree of low keys in order.                              *)

\* No key with a byte that add_child16 takes for a negative number.
Low(E) == \A x \in E : ~HasHigh(x.key)

\* Where no key has such a byte, no node has.
LEMMA LowBelow ==
    ASSUME NEW d, Tree(d), NEW stem, NEW child, Children(d, stem, child), Low(d.entries)
    PROVE  LowBytes(d.node)
<1> SUFFICES ASSUME NEW b \in Present(d.node)
             PROVE  b < HighByte
  BY DEF LowBytes
<1>1. Apart(d, stem, child) /\ stem \in Seq(Byte) /\ b \in Byte /\ Tree(child[b])
  BY NodeThere, ChildrenApart DEF Children
<1>2. PICK x \in child[b].entries : TRUE
  BY <1>1, Depth
<1>3. x \in d.entries
  BY DEF Children, InnerSub
<1>4. x.key \in Seq(Byte) /\ Begins(x.key, Append(stem, b))
  BY <1>1, <1>2, KeysAre DEF Apart
<1>5. Len(stem) < Len(x.key) /\ x.key[Len(stem) + 1] = b
  BY <1>1, <1>4, BeginsMore
<1>6. Len(stem) + 1 \in 1..Len(x.key)
  BY <1>1, <1>4, <1>5
<1>7. ~(b >= HighByte)
  BY <1>3, <1>5, <1>6 DEF Low, HasHigh
<1>8. b \in Nat /\ HighByte \in Nat
  BY <1>1, SizesAssumption DEF Byte
<1> QED BY <1>7, <1>8

\* The new part of a tree is a node.
LEMMA NewFits ==
    ASSUME NEW d, NEW n, NEW k, NEW v, NEW count, Grows(d, n, k, v, count), n.type \in Layouts
    PROVE  Fits(n)
<1>1. PICK Q : Tree(Sub(n, d.place, Q, d.entries \union {EntryOf(k, v)}))
  BY DEF Grows
<1> DEFINE c == Sub(n, d.place, Q, d.entries \union {EntryOf(k, v)})
<1>2. Tree(c) /\ c.node = n
  BY <1>1 DEF Sub
<1> HIDE DEF c
<1>3. ~AtEnd(n)
  BY DEF AtEnd, IS_LEAF, NULL, Layouts
<1> QED BY <1>2, <1>3, AtLeaf DEF Children, InnerSub

\* A new NODE4 with two children is one.
LEMMA ForkIsNode ==
    ASSUME NEW len, NEW partial, NEW b, NEW c, NEW m, NEW l
    PROVE  add_child4(add_child4(alloc_node4(len, partial), b, m), c, l).type \in Layouts
<1> DEFINE n0 == alloc_node4(len, partial)
           n1 == add_child4(n0, b, m)
<1>1. Header(n0) /\ n0.type = "NODE4" /\ n0.num_children = 0
  BY DEF alloc_node4, Header
<1> HIDE DEF n0
<1>2. 0 < Max4 /\ 1 < Max4 /\ n0.type \in Layouts
  BY <1>1, SizesOrdered DEF Layouts
<1>3. n1 = add_child(n0, b, m)
  BY <1>1 DEF add_child
<1>4. n1.type = "NODE4"
  BY <1>1, <1>2, <1>3, AddHeader
<1>5. n1.num_children = 1 /\ DOMAIN n1 = DOMAIN n0
  <2>1. n1 = InsertAt(n0, {i \in 1..n0.num_children : b < n0.keys[i]}, b, m)
    BY <1>1, <1>2 DEF add_child4
  <2> HIDE DEF n1
  <2> QED BY <1>1, <2>1 DEF InsertAt, Header
<1> HIDE DEF n1
<1>6. Header(n1) /\ n1.type \in Layouts
  BY <1>1, <1>4, <1>5 DEF Header, Layouts
<1>7. add_child4(n1, c, l) = add_child(n1, c, l)
  BY <1>4 DEF add_child
<1>8. add_child(n1, c, l).type = "NODE4"
  BY <1>2, <1>4, <1>5, <1>6, AddHeader
<1> QED BY <1>7, <1>8 DEF Layouts, n1, n0

\* What an insert of a low key makes of a tree of low keys in order is in order.
LEMMA InsertOrders ==
    ASSUME NEW d0, Tree(d0), d0.place = <<>>, Ordered(d0.node), Low(d0.entries),
           NEW k \in Key, NEW v \in ValuesOf[k], ~HasHigh(k), NEW replace,
           NEW behind, NEW e, e = End("insert", d0.node, k, behind),
           NEW r, r = InsertAtEnd(e.node, make_leaf(k, v), e.depth, e.byte, replace)
    PROVE  Ordered(Written(e.above, r.node))
<1>1. e.ends /\ \E d : Reaches("insert", k, behind, d0, {k}, e, d)
  <2>1. \A j \in {k} : j \in Seq(Byte)
    BY KeysAre
  <2>2. Onward("insert", k, behind, d0, {k})
    BY InsertOnward
  <2>3. Lost("insert", {k}, e) \/ (e.ends /\ \E d : Reaches("insert", k, behind, d0, {k}, e, d))
    BY <2>1, <2>2, WalkEnds
  <2> QED BY <2>3 DEF Lost
<1>2. PICK d : Reaches("insert", k, behind, d0, {k}, e, d)
  BY <1>1
<1>3. /\ Under(d, d0) /\ Hangs(e.above, d, d0) /\ Begins(k, d.place) /\ Tree(d)
      /\ e = Place("insert", d.node, Len(d.place), e.above, k, behind)
      /\ Ordered(d.node) /\ Low(d.entries)
  BY <1>2 DEF Reaches, At, Under, Low
<1>4. /\ e.node = d.node /\ e.depth = Len(d.place) /\ d.node # NULL
      /\ ~AtEnd(d.node) => e.byte = ByteAt(k, Len(d.place) + d.node.partial_len, behind)
      /\ Ends("insert", d.node, Len(d.place), k, e.byte)
  BY <1>1, <1>3, NodeThere DEF Place
<1> DEFINE l == make_leaf(k, v)
           P == Len(d.place)
<1>5. l.key = k /\ IS_LEAF(l) /\ l # NULL
  BY DEF make_leaf, IS_LEAF, NULL
<1>6. Ordered(l)
  BY <1>5, OrderedIs DEF AtEnd
<1> HIDE DEF l
<1>7. r = InsertAtEnd(d.node, l, P, e.byte, replace)
  BY <1>4 DEF l
<1> SUFFICES r.node # NULL /\ Ordered(r.node)
  BY <1>3 DEF Hangs
<1>8. CASE AtEnd(d.node)
  <2>1. PICK j, w : LeafSub(d, j, w) /\ IS_LEAF(d.node) /\ d.node.key = j
    BY <1>3, <1>8, AtLeaf DEF LeafSub, make_leaf
  <2>2. CASE j = k
    <3>1. r = Inserted(IF replace THEN l ELSE d.node, d.node.value, 0)
      BY <1>4, <1>5, <1>7, <2>1, <2>2 DEF InsertAtEnd
    <3> QED BY <1>3, <1>4, <1>5, <1>6, <3>1 DEF Inserted
  <2>3. CASE j # k
    <3> DEFINE n == SplitLeaf(d.node, l, P)
    <3>1. r.node = n
      BY <1>4, <1>5, <1>7, <2>1, <2>3 DEF InsertAtEnd, Inserted
    <3>2. PICK len, partial, b, c :
              n = add_child4(add_child4(alloc_node4(len, partial), b, d.node), c, l)
      BY Zenon DEF SplitLeaf
    <3>3. Grows(d, n, k, v, 2)
      BY <1>3, <2>1, <2>3, GrowsAtLeaf DEF l
    <3> HIDE DEF n
    <3>4. n.type \in Layouts
      BY <3>2, ForkIsNode
    <3>5. Fits(n)
      BY <3>3, <3>4, NewFits
    <3> QED BY <1>3, <1>6, <3>1, <3>2, <3>5, OrderedFork, TwoPresent DEF AtEnd
  <2> QED BY <2>2, <2>3
<1>9. CASE ~AtEnd(d.node)
  <2> DEFINE a == prefix_mismatch(d.node, k, P)
  <2>1. PICK stem, child : Children(d, stem, child)
    BY <1>3, <1>9, AtLeaf
  <2>2. ~IS_LEAF(d.node) /\ Fits(d.node)
    BY <1>9, <2>1 DEF AtEnd, Children, InnerSub
  <2>3. r = IF a < d.node.partial_len
            THEN Inserted(SplitPrefix(d.node, l, a, P), NoValue, 2)
            ELSE Inserted(add_child(d.node, e.byte, l), NoValue, 1)
    BY <1>4, <1>5, <1>7, <2>2 DEF InsertAtEnd
  <2>4. CASE a < d.node.partial_len
    <3> DEFINE n == SplitPrefix(d.node, l, a, P)
               m == WithoutPrefix(d.node, a, P)
    <3>1. r.node = n
      <4> HIDE DEF a, n
      <4> QED BY <2>3, <2>4 DEF Inserted, n
    <3>2. PICK len, partial, b, c :
              n = add_child4(add_child4(alloc_node4(len, partial), b, m), c, l)
      BY Zenon DEF SplitPrefix
    <3>3. Grows(d, n, k, v, 2)
      BY <1>3, <2>1, <2>4, GrowsAtPrefix DEF l
    <3>4. \E x, y : m = Headed(d.node, x, y)
      <4> HIDE DEF a
      <4>1. DOMAIN d.node = {"type", "num_children", "partial_len", "partial", "keys", "children"}
        BY <2>2 DEF Fits, WellFormed, Header
      <4> DEFINE x == d.node.partial_len - (a + 1)
                 y == IF d.node.partial_len <= MAX_PREFIX_LEN
                      THEN SubSeq(d.node.partial, a + 2, Len(d.node.partial))
                      ELSE Stored(SubSeq(minimum(d.node).key, P + a + 2, P + a + 1 + x))
      <4>2. m = Headed(d.node, x, y)
        BY <4>1 DEF WithoutPrefix, Headed
      <4> QED BY <4>2
    <3> HIDE DEF n, m
    <3>5. Ordered(m)
      BY <1>3, <2>2, <3>4, OrderedSame
    <3>6. n.type \in Layouts
      BY <3>2, ForkIsNode
    <3>7. Fits(n)
      BY <3>3, <3>6, NewFits
    <3> QED BY <1>6, <3>1, <3>2, <3>5, <3>7, OrderedFork, TwoPresent DEF AtEnd
  <2>5. CASE ~(a < d.node.partial_len)
    <3> DEFINE b == e.byte
               n == add_child(d.node, b, l)
    <3>1. r.node = n
      <4> HIDE DEF a, n, b
      <4> QED BY <2>3, <2>5 DEF Inserted, n, b
    <3>2. find_child(d.node, b) = NULL
      BY <1>4, <1>9, <2>5 DEF Ends
    <3>3. b \in Byte /\ Begins(k, Append(stem, b))
      BY <1>3, <1>4, <1>9, <2>1, <2>5, InsertByte
    <3>4. b < HighByte
      <4>1. k \in Seq(Byte) /\ stem \in Seq(Byte)
        BY <2>1, KeysAre DEF Children, InnerSub
      <4> HIDE DEF b
      <4>2. Len(stem) < Len(k) /\ k[Len(stem) + 1] = b
        BY <3>3, <4>1, BeginsMore
      <4>3. Len(stem) + 1 \in 1..Len(k)
        BY <4>1, <4>2
      <4>4. ~(b >= HighByte)
        BY <4>2, <4>3 DEF HasHigh
      <4> QED BY <3>3, <4>4, SizesAssumption DEF Byte
    <3>5. LowBytes(d.node)
      BY <1>3, <2>1, LowBelow
    <3> HIDE DEF b
    <3>6. Ordered(n)
      BY <1>3, <1>5, <1>6, <2>2, <3>2, <3>3, <3>4, <3>5, OrderedAdded
    <3>7. n # NULL
      <4>1. Fits(n)
        BY <1>5, <2>2, <3>2, <3>3, AddFits
      <4> QED BY <4>1, TwoPresent DEF AtEnd
    <3> QED BY <3>1, <3>6, <3>7
  <2> QED BY <2>4, <2>5
<1> QED BY <1>8, <1>9

\* Of a node there is something left when a child is taken out.
LEMMA SomeLeft ==
    ASSUME NEW n, Fits(n), NEW c \in Byte, find_child(n, c) # NULL,
           \A b \in Present(n) : Fits(find_child(n, b)) \/ IS_LEAF(find_child(n, b))
    PROVE  remove_child(n, c) # NULL
<1>1. CASE Cardinality(Present(n)) # 2
  <2>1. Fits(remove_child(n, c))
    BY <1>1, RemoveFits
  <2> QED BY <2>1, TwoPresent DEF AtEnd
<1>2. CASE Cardinality(Present(n)) = 2
  <2>1. PICK b \in Byte :
            /\ b # c /\ Present(n) = {b, c}
            /\ remove_child(n, c) =
                   LET child == find_child(n, b)
                   IN  IF IS_LEAF(child) THEN child ELSE MergePrefix(n, b, child)
    BY <1>2, RemoveOfTwo
  <2>2. PICK child : child = find_child(n, b)
    BY Zenon
  <2>3. Fits(child) \/ IS_LEAF(child)
    BY <2>1, <2>2
  <2>4. CASE IS_LEAF(child)
    BY <2>1, <2>2, <2>4 DEF IS_LEAF, NULL
  <2>5. CASE ~IS_LEAF(child)
    <3>1. child.type \in Layouts
      BY <2>3, <2>5, TwoPresent
    <3>2. MergePrefix(n, b, child).type = child.type
      <4>1. DOMAIN child = {"type", "num_children", "partial_len", "partial", "keys", "children"}
        BY <2>3, <2>5 DEF Fits, WellFormed, Header
      <4> QED BY <4>1 DEF MergePrefix
    <3>3. MergePrefix(n, b, child) # NULL
      BY <3>1, <3>2 DEF NULL, Layouts
    <3> QED BY <2>1, <2>2, <2>5, <3>3
  <2> QED BY <2>4, <2>5
<1> QED BY <1>1, <1>2

\* What a delete makes of a tree in order is in order.
LEMMA DeleteOrders ==
    ASSUME NEW d0, Tree(d0), d0.place = <<>>, Ordered(d0.node),
           NEW k \in Key, NEW behind \in Byte,
           NEW e, e = End("delete", d0.node, k, behind),
           NEW r, r = DeleteAtEnd(e.node, k, e.depth, e.byte)
    PROVE  Ordered(Written(e.above, r.node))
<1>1. e.ends /\ \E d : Reaches("delete", k, behind, d0, Wanted(k, d0), e, d)
  <2>1. \A j \in Wanted(k, d0) : j \in Seq(Byte)
    BY KeysAre DEF Wanted
  <2>2. Onward("delete", k, behind, d0, Wanted(k, d0))
    BY SearchOnward
  <2>3. \/ Lost("delete", Wanted(k, d0), e)
        \/ e.ends /\ \E d : Reaches("delete", k, behind, d0, Wanted(k, d0), e, d)
    BY <2>1, <2>2, WalkEnds
  <2> QED BY <2>3 DEF Lost
<1>2. PICK d : Reaches("delete", k, behind, d0, Wanted(k, d0), e, d)
  BY <1>1
<1>3. /\ Under(d, d0) /\ Hangs(e.above, d, d0) /\ Tree(d) /\ Ordered(d.node)
      /\ e = Place("delete", d.node, Len(d.place), e.above, k, behind)
      /\ AtEnd(d.node) => e.above = <<>> /\ d = d0
  BY <1>2 DEF Reaches, At, Under
<1>4. /\ e.node = d.node /\ d.node # NULL
      /\ ~AtEnd(d.node) => e.byte = ByteAt(k, Len(d.place) + d.node.partial_len, behind)
  BY <1>1, <1>3, NodeThere DEF Place
<1> DEFINE n == d.node
           b == e.byte
           c == find_child(n, b)
<1>5. \/ r.node = n \/ (IS_LEAF(n) /\ r.node = NULL)
      \/ ~IS_LEAF(n) /\ c # NULL /\ r.node = remove_child(n, b)
  <2>1. CASE IS_LEAF(n)
    BY <1>4, <2>1 DEF DeleteAtEnd, Deleted
  <2>2. CASE ~IS_LEAF(n)
    <3> DEFINE Q == check_prefix(n, k, e.depth) # min(MAX_PREFIX_LEN, n.partial_len)
    <3>1. r = IF Q \/ c = NULL THEN Deleted(n, NoValue, 0)
              ELSE IF c.key # k THEN Deleted(n, NoValue, 0)
              ELSE Deleted(remove_child(n, b), c.value,
                           IF n.type = "NODE4" /\ n.num_children = 2 THEN 2 ELSE 1)
      BY <1>4, <2>2, Zenon DEF DeleteAtEnd
    <3> DEFINE N0 == Deleted(n, NoValue, 0)
               W == c.value
               I == IF n.type = "NODE4" /\ n.num_children = 2 THEN 2 ELSE 1
    <3>2. r = N0 \/ (c # NULL /\ r = Deleted(remove_child(n, b), W, I))
      <4> DEFINE R1 == remove_child(n, b)
      <4> HIDE DEF Q, c, b, n, N0, W, I, R1
      <4>1. r = IF Q \/ c = NULL THEN N0 ELSE IF c.key # k THEN N0 ELSE Deleted(R1, W, I)
        BY <3>1 DEF N0, W, I, R1
      <4> QED BY <4>1 DEF R1
    <3>3. N0.node = n /\ Deleted(remove_child(n, b), W, I).node = remove_child(n, b)
      BY DEF Deleted
    <3> HIDE DEF N0, W, I, c, b, n
    <3> QED BY <2>2, <3>2, <3>3
  <2> QED BY <2>1, <2>2
<1>6. CASE r.node = n
  BY <1>3, <1>4, <1>6 DEF Hangs
<1>7. CASE IS_LEAF(n) /\ r.node = NULL
  <2>1. AtEnd(n) /\ e.above = <<>>
    BY <1>3, <1>7 DEF AtEnd
  <2>2. Written(<<>>, NULL) = NULL
    BY WrittenIs
  <2> QED BY <1>7, <2>1, <2>2, OrderedIs DEF AtEnd
<1>8. CASE ~IS_LEAF(n) /\ c # NULL /\ r.node = remove_child(n, b)
  <2>1. PICK stem, child : Children(d, stem, child)
    BY <1>3, <1>4, <1>8, AtLeaf DEF AtEnd
  <2>2. Fits(n) /\ ~AtEnd(n)
    BY <1>4, <1>8, <2>1 DEF AtEnd, Children, InnerSub
  <2>3. b \in Byte
    BY <1>3, <1>4, <2>1, <2>2, AnyByte, KeysAre
  <2>4. \A a \in Present(n) : Fits(find_child(n, a)) \/ IS_LEAF(find_child(n, a))
    <3> SUFFICES ASSUME NEW a \in Present(n)
                 PROVE  Fits(find_child(n, a)) \/ IS_LEAF(find_child(n, a))
      OBVIOUS
    <3>1. Tree(child[a]) /\ child[a].node = find_child(n, a)
      BY <2>1 DEF Children, InnerSub
    <3> QED BY <3>1, AtLeaf DEF Children, InnerSub
  <2> HIDE DEF b, n
  <2>5. Ordered(remove_child(n, b))
    BY <1>3, <1>8, <2>2, <2>3, <2>4, OrderedRemoved DEF n, c
  <2>6. remove_child(n, b) # NULL
    BY <1>8, <2>2, <2>3, <2>4, SomeLeft DEF c
  <2> QED BY <1>3, <1>8, <2>5, <2>6 DEF Hangs
<1> QED BY <1>5, <1>6, <1>7, <1>8

-----------------------------------------------------------------------------
(* What is visited in a subtree.                                            *)

\* The byte of a place of a node, and what is visited there.
VisitByte(n, p) == IF Listed(n) THEN n.keys[p] ELSE p
VisitNode(n, p) == IF Listed(n) THEN n.children[p] ELSE find_child(n, p)

\* The places that are visited and the bytes with a child correspond.
LEMMA VisitsIs ==
    ASSUME NEW n, Fits(n)
    PROVE  /\ Visits(n) \subseteq Nat
           /\ \A p \in Visits(n) : /\ VisitByte(n, p) \in Present(n)
                                   /\ VisitNode(n, p) = find_child(n, VisitByte(n, p))
           /\ \A p, q \in Visits(n) : VisitByte(n, p) = VisitByte(n, q) => p = q
           /\ \A b \in Present(n) : \E p \in Visits(n) : VisitByte(n, p) = b
<1>1. PICK C : NULL \notin C /\ WellFormed(n, C)
  BY DEF Fits
<1>2. CASE Listed(n)
  <2>1. n.type \in {"NODE4", "NODE16"}
    BY <1>2 DEF Listed
  <2>2. ListsPresent(n) /\ n.num_children \in Nat
    BY ONLY <1>1, <2>1, ListedPresent
  <2>3. Visits(n) = 1..n.num_children
    BY <1>2 DEF Visits
  <2> QED BY <1>2, <2>2, <2>3 DEF ListsPresent, VisitByte, VisitNode
<1>3. CASE ~Listed(n)
  <2>1. Visits(n) = Present(n) /\ Present(n) \subseteq Nat
    BY <1>3, SizesOrdered DEF Visits, Present, Byte
  <2> QED BY <1>3, <2>1 DEF VisitByte, VisitNode
<1> QED BY <1>2, <1>3

\* What is visited next at a place of a node.
NextOf(e, p) ==
    [node |-> VisitNode(e.node, p), depth |-> e.depth + e.node.partial_len + 1,
     way |-> Append(e.way, p)]

\* What is next to a visited node: one for each place.
LEMMA NextToIs ==
    ASSUME NEW e
    PROVE  NextTo(e) = IF AtEnd(e.node) THEN {} ELSE {NextOf(e, p) : p \in Visits(e.node)}
  BY DEF NextTo, NextOf, VisitNode

\* A visited place is one of a subtree.
Sees(e, c, i, d0) ==
    /\ Under(c, d0) /\ c.node = e.node /\ e.depth = Len(c.place) - Len(d0.place)
    /\ e.way \in Seq(Nat) /\ Len(e.way) <= i /\ Len(e.way) <= Len(c.place)

\* What is next to a visited node is a subtree, below its own.
LEMMA NextSees ==
    ASSUME NEW d0, Tree(d0), NEW i \in Nat, NEW e, NEW d, Sees(e, d, i, d0),
           NEW stem, NEW child, Children(d, stem, child), NEW p \in Visits(e.node), NEW b,
           b = VisitByte(e.node, p), Len(e.way) = i
    PROVE  /\ b \in Present(d.node) /\ Sees(NextOf(e, p), child[b], i + 1, d0)
           /\ child[b].place = Append(stem, b) /\ Len(NextOf(e, p).way) = i + 1
<1>1. /\ Fits(d.node) /\ d.node = e.node /\ d.place \in Seq(Byte) /\ stem \in Seq(Byte)
      /\ Begins(stem, d.place) /\ d.node.partial_len = Len(stem) - Len(d.place)
      /\ d0.place \in Seq(Byte)
  BY NodeThere DEF Sees, Children, InnerSub, Under
<1>2. /\ b \in Present(d.node) /\ VisitNode(e.node, p) = find_child(d.node, b) /\ p \in Nat
      /\ b \in Byte
  BY <1>1, VisitsIs DEF Present
<1>3. Under(child[b], d0) /\ child[b].place = Append(stem, b)
  BY <1>2, UnderChild DEF Sees
<1>4. child[b].node = VisitNode(e.node, p)
  BY <1>2 DEF Children, InnerSub
<1>5. Len(Append(stem, b)) = Len(stem) + 1 /\ Len(stem) \in Nat
  BY <1>1, <1>2, Appended
<1>6. Len(d.place) <= Len(stem) /\ Len(d.place) \in Nat /\ Len(d0.place) \in Nat
  BY <1>1 DEF Begins
<1>7. e.way \in Seq(Nat) /\ Len(e.way) \in Nat /\ Len(e.way) <= Len(d.place)
      /\ e.depth = Len(d.place) - Len(d0.place)
  BY DEF Sees
<1>8. Append(e.way, p) \in Seq(Nat) /\ Len(Append(e.way, p)) = Len(e.way) + 1
  BY <1>2, <1>7
<1> DEFINE f == NextOf(e, p)
<1>9. /\ f.node = VisitNode(e.node, p) /\ f.depth = e.depth + e.node.partial_len + 1
      /\ f.way = Append(e.way, p)
  BY DEF NextOf
<1> HIDE DEF f
<1>10. f.depth = Len(child[b].place) - Len(d0.place)
  <2>1. /\ e.node.partial_len = Len(stem) - Len(d.place) /\ e.depth = Len(d.place) - Len(d0.place)
        /\ Len(child[b].place) = Len(stem) + 1 /\ f.depth = e.depth + e.node.partial_len + 1
    BY <1>1, <1>3, <1>5, <1>7, <1>9
  <2>2. PICK x \in Nat, y \in Nat, z \in Nat : x = Len(stem) /\ y = Len(d.place) /\ z = Len(d0.place)
    BY <1>5, <1>6
  <2>3. f.depth = ((y - z) + (x - y)) + 1 /\ Len(child[b].place) = x + 1
    BY <2>1, <2>2
  <2>4. ((y - z) + (x - y)) + 1 = (x + 1) - z
    OBVIOUS
  <2> QED BY <2>2, <2>3, <2>4
<1>11. Len(f.way) = i + 1 /\ Len(f.way) <= Len(child[b].place) /\ Len(f.way) <= i + 1
  BY <1>3, <1>5, <1>6, <1>7, <1>8, <1>9
<1> QED BY <1>2, <1>3, <1>4, <1>8, <1>9, <1>10, <1>11 DEF Sees, f

-----------------------------------------------------------------------------
(* The visits to a depth.                                                   *)

\* What a step of the visit makes of what has been visited.
VisitStep(V, i) == UNION {{e} \union IF Len(e.way) = i - 1 THEN NextTo(e) ELSE {} : e \in V}

FirstVisit(n) == [node |-> n, depth |-> 0, way |-> <<>>]

Goings(n, a, f) ==
    /\ f = [i \in 0..a |-> f[i]]
    /\ \A i \in 0..a : f[i] = IF i = 0 THEN {FirstVisit(n)} ELSE VisitStep(f[i - 1], i)

\* The sets that Visited is defined with exist.
LEMMA GoingsExist ==
    ASSUME NEW n
    PROVE  \E f : Goings(n, Longest, f) /\ Visited(n) = {e \in f[Longest] : e.node # NULL}
<1> DEFINE Go(a, f) == Goings(n, a, f)
           S == {a \in Nat : \E f : Go(a, f)}
<1>1. 0 \in S
  <2> DEFINE f == [i \in 0..0 |-> {FirstVisit(n)}]
  <2>1. f[0] = {FirstVisit(n)} /\ \A i \in 0..0 : i = 0
    OBVIOUS
  <2> QED BY <2>1 DEF Goings
<1>2. ASSUME NEW a \in Nat, a \in S PROVE a + 1 \in S
  <2>1. PICK f : Go(a, f)
    BY <1>2
  <2>2. PICK last : last = VisitStep(f[a], a + 1)
    BY Zenon
  <2>3. PICK g : g = [i \in 0..(a + 1) |-> IF i = a + 1 THEN last ELSE f[i]]
    BY Zenon
  <2>4. ASSUME NEW i \in 0..(a + 1)
        PROVE  g[i] = IF i = 0 THEN {FirstVisit(n)} ELSE VisitStep(g[i - 1], i)
    <3>1. CASE i = a + 1
      <4>1. /\ a \in 0..(a + 1) /\ a + 1 \in 0..(a + 1) /\ a # a + 1 /\ i # 0 /\ i - 1 = a
        BY <3>1
      <4>2. g[i] = last /\ g[i - 1] = f[a]
        BY <2>3, <3>1, <4>1
      <4> QED BY <2>2, <3>1, <4>1, <4>2
    <3>2. CASE i # a + 1
      <4>1. i \in 0..a
        BY <3>2
      <4>2. f[i] = IF i = 0 THEN {FirstVisit(n)} ELSE VisitStep(f[i - 1], i)
        BY <2>1, <4>1, Zenon DEF Goings
      <4>3. i # 0 => i - 1 \in 0..(a + 1) /\ i - 1 # a + 1
        BY <4>1
      <4>4. i # 0 => g[i - 1] = f[i - 1]
        BY <2>3, <4>3
      <4> QED BY <2>3, <3>2, <4>2, <4>4, Zenon
    <3> QED BY <3>1, <3>2
  <2>5. g = [i \in 0..(a + 1) |-> g[i]]
    BY <2>3
  <2>6. Go(a + 1, g)
    BY <2>4, <2>5, Zenon DEF Goings
  <2> QED BY <2>6
<1>3. Longest \in S
  <2>1. Longest \in Nat
    BY LongestIs
  <2> HIDE DEF S
  <2>2. \A i \in 0..Longest : i \in S
    BY ONLY <1>1, <1>2, <2>1, Upward
  <2> QED BY <2>1, <2>2
<1> DEFINE A == CHOOSE upTo :
                   upTo = [i \in 0..Longest |->
                             IF i = 0 THEN {[node |-> n, depth |-> 0, way |-> <<>>]}
                             ELSE UNION {{e} \union IF Len(e.way) = i - 1 THEN NextTo(e) ELSE {} :
                                             e \in upTo[i - 1]}]
<1>4. Visited(n) = {e \in A[Longest] : e.node # NULL}
  BY DEF Visited
<1>5. PICK f : Go(Longest, f)
  BY <1>3
<1>6. f = [i \in 0..Longest |->
              IF i = 0 THEN {[node |-> n, depth |-> 0, way |-> <<>>]}
              ELSE UNION {{e} \union IF Len(e.way) = i - 1 THEN NextTo(e) ELSE {} : e \in f[i - 1]}]
  BY <1>5, Zenon DEF Goings, FirstVisit, VisitStep
<1>7. A = [i \in 0..Longest |->
              IF i = 0 THEN {[node |-> n, depth |-> 0, way |-> <<>>]}
              ELSE UNION {{e} \union IF Len(e.way) = i - 1 THEN NextTo(e) ELSE {} : e \in A[i - 1]}]
  BY <1>6, Zenon
<1> HIDE DEF A
<1>8. Go(Longest, A)
  BY <1>7, Zenon DEF Goings, FirstVisit, VisitStep
<1> QED BY <1>4, <1>8

-----------------------------------------------------------------------------
(* Visited places and subtrees correspond.                                  *)

\* The children of a subtree, once chosen.
Kids(d) == CHOOSE r : Children(d, r.stem, r.child)

\* The children of a subtree can be named.
LEMMA KidsAre ==
    ASSUME NEW d, NEW stem, NEW child, Children(d, stem, child)
    PROVE  Children(d, Kids(d).stem, Kids(d).child)
<1> DEFINE r == [stem |-> stem, child |-> child]
<1>1. Children(d, r.stem, r.child)
  OBVIOUS
<1> HIDE DEF r
<1>2. \E x : Children(d, x.stem, x.child)
  BY <1>1
<1> QED BY <1>2 DEF Kids

\* Nothing is visited on one way twice, and no place on two.
WaysApart(V) == \A e, f \in V : e.way = f.way => e = f

PlacesApart(V, g) == \A e, f \in V : g[e].place = g[f].place => e = f

\* Nothing below the last visits has been visited.
LastOnly(V, g, i) ==
    \A e, f \in V : Len(e.way) = i /\ g[f].place \in g[e].places => f = e

\* Every place and every entry has been visited or is below what was visited last.
PlacesSeen(V, g, i, d0) ==
    \A p \in d0.places : \E e \in V : p = g[e].place \/ (Len(e.way) = i /\ p \in g[e].places)

EntriesSeen(V, g, i, d0) ==
    \A x \in d0.entries : \E e \in V :
        x \in g[e].entries /\ (AtEnd(e.node) \/ Len(e.way) = i)

\* What has been visited of a tree to a depth, with the subtree of each.
Seen(V, g, i, d0) ==
    /\ \A e \in V : Sees(e, g[e], i, d0)
    /\ WaysApart(V) /\ PlacesApart(V, g) /\ LastOnly(V, g, i)
    /\ PlacesSeen(V, g, i, d0) /\ EntriesSeen(V, g, i, d0)

\* A visit next to one of the last.
Born(V, i, f, e, p) ==
    e \in V /\ Len(e.way) = i /\ ~AtEnd(e.node) /\ p \in Visits(e.node) /\ f = NextOf(e, p)

\* The child of a subtree at a place of its node.
ChildAt(d, n, p) == Kids(d).child[VisitByte(n, p)]

\* What a step of the visit adds: what is next to a node visited last.
LEMMA StepBorn ==
    ASSUME NEW V, NEW i \in Nat
    PROVE  LET W == VisitStep(V, i + 1)
           IN  /\ V \subseteq W
               /\ \A f \in W : f \in V \/ \E e, p : Born(V, i, f, e, p)
               /\ \A f, e, p : Born(V, i, f, e, p) => f \in W
<1> DEFINE W == VisitStep(V, i + 1)
           Last(e) == IF Len(e.way) = i THEN NextTo(e) ELSE {}
<1>1. W = UNION {{e} \union Last(e) : e \in V}
  <2>1. (i + 1) - 1 = i
    OBVIOUS
  <2>2. W = UNION {{e} \union IF Len(e.way) = (i + 1) - 1 THEN NextTo(e) ELSE {} : e \in V}
    BY Zenon DEF VisitStep
  <2> QED BY <2>1, <2>2
<1> HIDE DEF W
<1>2. \A f : f \in W <=> \E e \in V : f = e \/ f \in Last(e)
  <2> HIDE DEF Last
  <2> QED BY <1>1
<1>3. \A e, f : f \in Last(e) <=>
          Len(e.way) = i /\ ~AtEnd(e.node) /\ \E p \in Visits(e.node) : f = NextOf(e, p)
  <2> SUFFICES ASSUME NEW e, NEW f
               PROVE  f \in Last(e) <=> /\ Len(e.way) = i /\ ~AtEnd(e.node)
                                        /\ \E p \in Visits(e.node) : f = NextOf(e, p)
    OBVIOUS
  <2>1. NextTo(e) = IF AtEnd(e.node) THEN {} ELSE {NextOf(e, p) : p \in Visits(e.node)}
    BY NextToIs
  <2>2. f \in NextTo(e) <=> ~AtEnd(e.node) /\ \E p \in Visits(e.node) : f = NextOf(e, p)
    BY <2>1
  <2> QED BY <2>2
<1> HIDE DEF Last
<1> QED BY <1>2, <1>3 DEF Born, W

\* What is next to the visit of a subtree at a place of its node is that of a child.
Birth(d0, d, n, p, f, i) ==
    LET c == ChildAt(d, n, p)
    IN  /\ Children(d, Kids(d).stem, Kids(d).child) /\ VisitByte(n, p) \in Present(d.node)
        /\ Apart(d, Kids(d).stem, Kids(d).child) /\ d.node = n /\ Fits(d.node)
        /\ Sees(f, c, i + 1, d0) /\ Len(f.way) = i + 1
        /\ c.places \subseteq d.places /\ d.place \notin c.places /\ c.place \in c.places
        /\ c.place \in d0.places

\* What a step of the visit adds is a subtree.
LEMMA BornSees ==
    ASSUME NEW d0, Tree(d0), NEW i \in Nat, NEW V, NEW g, Seen(V, g, i, d0),
           NEW f, NEW e, NEW p, Born(V, i, f, e, p)
    PROVE  Birth(d0, g[e], e.node, p, f, i)
<1> DEFINE d == g[e]
           b == VisitByte(e.node, p)
           c == ChildAt(d, e.node, p)
           stem == Kids(d).stem
           child == Kids(d).child
<1>1. Sees(e, d, i, d0)
  BY DEF Seen, Born
<1>2. Tree(d) /\ d.node = e.node /\ ~AtEnd(d.node) /\ d.place \in Seq(Byte)
  BY <1>1, NodeThere DEF Sees, Under, Born
<1>3. Children(d, stem, child)
  <2>1. PICK s, h : Children(d, s, h)
    BY <1>2, AtLeaf
  <2> QED BY <2>1, KidsAre
<1>4. Apart(d, stem, child) /\ Fits(d.node)
  BY <1>2, <1>3, ChildrenApart DEF Children, InnerSub
<1>5. b \in Present(d.node) /\ Sees(f, c, i + 1, d0) /\ Len(f.way) = i + 1
  <2>1. p \in Visits(e.node) /\ Len(e.way) = i /\ f = NextOf(e, p) /\ c = child[b]
    BY DEF Born, ChildAt
  <2> HIDE DEF stem, child, d, b, c
  <2>2. /\ b \in Present(d.node) /\ Sees(NextOf(e, p), child[b], i + 1, d0)
        /\ child[b].place = Append(stem, b) /\ Len(NextOf(e, p).way) = i + 1
    BY <1>1, <1>3, <2>1, NextSees DEF b
  <2> QED BY <2>1, <2>2
<1>6. c = child[b]
  BY DEF ChildAt
<1> HIDE DEF stem, child, b
<1>7. c.places \subseteq d.places /\ d.place \notin c.places
  BY <1>3, <1>4, <1>5, <1>6 DEF Children, InnerSub, Apart
<1>8. c.place \in c.places
  BY <1>5, TreeIs DEF Sees, Under, Sound
<1>9. c.place \in d0.places
  BY <1>5, <1>8 DEF Sees, Under
<1> QED BY <1>2, <1>3, <1>4, <1>5, <1>7, <1>8, <1>9 DEF stem, child, b, Birth

\* Subtrees of the last visits have no places in common.
LEMMA LastApart ==
    ASSUME NEW d0, Tree(d0), NEW i, NEW V, NEW g, Seen(V, g, i, d0),
           NEW e \in V, NEW f \in V, Len(e.way) = i, Len(f.way) = i,
           NEW p, p \in g[e].places, p \in g[f].places
    PROVE  e = f
<1> DEFINE c == g[e]
           d == g[f]
<1>1. Under(c, d0) /\ Under(d, d0) /\ Tree(c) /\ Tree(d)
  BY DEF Seen, Sees, Under
<1>2. Sound(c) /\ Sound(d)
  BY <1>1, TreeIs
<1>3. /\ p \in Seq(Byte) /\ Begins(p, c.place) /\ Begins(p, d.place)
      /\ c.place \in Seq(Byte) /\ d.place \in Seq(Byte)
      /\ c.place \in d0.places /\ d.place \in d0.places
  BY <1>1, <1>2 DEF Sound, Under
<1>4. Len(c.place) \in Nat /\ Len(d.place) \in Nat
  BY <1>3
<1>5. CASE Len(c.place) <= Len(d.place)
  <2>1. Begins(d.place, c.place)
    BY ONLY <1>3, <1>5, BeginsBoth
  <2>2. d.place \in c.places
    BY <1>1, <1>3, <2>1 DEF Under
  <2> QED BY <2>2 DEF Seen, LastOnly
<1>6. CASE Len(d.place) <= Len(c.place)
  <2>1. Begins(c.place, d.place)
    BY ONLY <1>3, <1>6, BeginsBoth
  <2>2. c.place \in d.places
    BY <1>1, <1>3, <2>1 DEF Under
  <2> QED BY <2>2 DEF Seen, LastOnly
<1>7. Len(c.place) <= Len(d.place) \/ Len(d.place) <= Len(c.place)
  BY <1>4
<1> QED BY <1>5, <1>6, <1>7

\* A number is behind one sequence only.
LEMMA AppendOnce ==
    ASSUME NEW s \in Seq(Nat), NEW t \in Seq(Nat), NEW p \in Nat, NEW q \in Nat,
           Append(s, p) = Append(t, q)
    PROVE  s = t /\ p = q
<1>1. /\ Len(s) \in Nat /\ Len(Append(s, p)) = Len(s) + 1
      /\ \A i \in 1..Len(s) : Append(s, p)[i] = s[i]
      /\ Append(s, p)[Len(s) + 1] = p
  BY AppendProperties, LenProperties
<1>2. /\ Len(t) \in Nat /\ Len(Append(t, q)) = Len(t) + 1
      /\ \A i \in 1..Len(t) : Append(t, q)[i] = t[i]
      /\ Append(t, q)[Len(t) + 1] = q
  BY AppendProperties
<1>3. Len(s) = Len(t)
  BY <1>1, <1>2
<1>4. p = q /\ \A i \in 1..Len(s) : s[i] = t[i]
  BY <1>1, <1>2, <1>3
<1> QED BY <1>3, <1>4, SeqEqual

\* Visits next to the last ones are of the same child only if they are the same.
LEMMA BornApart ==
    ASSUME NEW d0, Tree(d0), NEW i \in Nat, NEW V, NEW g, Seen(V, g, i, d0),
           NEW f, NEW e, NEW p, Born(V, i, f, e, p), NEW f2, NEW e2, NEW p2, Born(V, i, f2, e2, p2)
    PROVE  /\ f = f2 => e = e2 /\ p = p2
           /\ ChildAt(g[e2], e2.node, p2).place \in ChildAt(g[e], e.node, p).places => f = f2
<1>1. Birth(d0, g[e], e.node, p, f, i) /\ Birth(d0, g[e2], e2.node, p2, f2, i)
  BY BornSees
<1>2. ASSUME f = f2 PROVE e = e2 /\ p = p2
  <2>1. /\ e \in V /\ e2 \in V /\ p \in Visits(e.node) /\ p2 \in Visits(e2.node)
        /\ f.way = Append(e.way, p) /\ f2.way = Append(e2.way, p2)
    BY DEF Born, NextOf
  <2>2. p \in Nat /\ p2 \in Nat
    BY <1>1, <2>1, VisitsIs DEF Birth
  <2>3. e.way \in Seq(Nat) /\ e2.way \in Seq(Nat)
    BY <2>1 DEF Seen, Sees
  <2>4. PICK s \in Seq(Nat), t \in Seq(Nat) : s = e.way /\ t = e2.way
    BY <2>3
  <2>5. Append(s, p) = Append(t, p2)
    BY <1>2, <2>1, <2>4
  <2>6. s = t /\ p = p2
    BY <2>2, <2>5, AppendOnce
  <2>7. WaysApart(V)
    BY DEF Seen
  <2> QED BY <2>1, <2>4, <2>6, <2>7 DEF WaysApart
<1>3. ASSUME ChildAt(g[e2], e2.node, p2).place \in ChildAt(g[e], e.node, p).places
      PROVE  f = f2
  <2>1. e = e2
    <3>1. /\ ChildAt(g[e2], e2.node, p2).place \in g[e].places
          /\ ChildAt(g[e2], e2.node, p2).place \in g[e2].places
      BY <1>1, <1>3 DEF Birth
    <3>2. e \in V /\ e2 \in V /\ Len(e.way) = i /\ Len(e2.way) = i
      BY DEF Born
    <3> QED BY <3>1, <3>2, LastApart
  <2>2. VisitByte(e.node, p) = VisitByte(e.node, p2)
    <3>1. /\ Apart(g[e], Kids(g[e]).stem, Kids(g[e]).child)
          /\ VisitByte(e.node, p) \in Present(g[e].node)
          /\ VisitByte(e.node, p2) \in Present(g[e].node)
          /\ ChildAt(g[e], e.node, p2).place \in ChildAt(g[e], e.node, p2).places
          /\ ChildAt(g[e], e.node, p2).place \in ChildAt(g[e], e.node, p).places
      BY <1>1, <1>3, <2>1 DEF Birth
    <3> QED BY <3>1 DEF Apart, ChildAt
  <2>3. p = p2
    <3>1. Fits(e.node) /\ p \in Visits(e.node) /\ p2 \in Visits(e.node)
      BY <1>1, <2>1 DEF Birth, Born
    <3> QED BY <2>2, <3>1, VisitsIs
  <2> QED BY <2>1, <2>3 DEF Born
<1> QED BY <1>2, <1>3

\* The subtree of every visit of a step further.
NextSeen(V, W, g, i) ==
    [f \in W |-> IF f \in V THEN g[f]
                 ELSE CHOOSE c : \E e, p : Born(V, i, f, e, p) /\ c = ChildAt(g[e], e.node, p)]

\* The subtrees of the next step: those there were and the children.
LEMMA NextSeenIs ==
    ASSUME NEW d0, Tree(d0), NEW i \in Nat, NEW V, NEW g, Seen(V, g, i, d0),
           NEW W, W = VisitStep(V, i + 1)
    PROVE  /\ V \subseteq W
           /\ \A f \in W : f \in V \/ \E e, p : Born(V, i, f, e, p)
           /\ \A f, e, p : Born(V, i, f, e, p) => f \in W \ V
           /\ \A f \in V : NextSeen(V, W, g, i)[f] = g[f]
           /\ \A f, e, p : Born(V, i, f, e, p) =>
                  NextSeen(V, W, g, i)[f] = ChildAt(g[e], e.node, p)
<1> DEFINE h == NextSeen(V, W, g, i)
           New(f, e, p) == Born(V, i, f, e, p)
           Kid(e, p) == ChildAt(g[e], e.node, p)
<1>1. /\ V \subseteq W
      /\ \A f \in W : f \in V \/ \E e, p : New(f, e, p)
      /\ \A f, e, p : New(f, e, p) => f \in W
  <2>1. LET X == VisitStep(V, i + 1)
        IN  /\ V \subseteq X
            /\ \A f \in X : f \in V \/ \E e, p : Born(V, i, f, e, p)
            /\ \A f, e, p : Born(V, i, f, e, p) => f \in X
    BY StepBorn
  <2> QED BY <2>1
<1>2. ASSUME NEW f, NEW e, NEW p, New(f, e, p) PROVE f \in W \ V
  <2>1. Len(f.way) = i + 1
    BY <1>2, BornSees DEF Birth
  <2>2. \A x \in V : Len(x.way) <= i
    BY DEF Seen, Sees
  <2> QED BY <1>1, <1>2, <2>1, <2>2
<1>3. \A f \in V : h[f] = g[f]
  BY <1>1 DEF NextSeen
<1>4. ASSUME NEW f, NEW e, NEW p, New(f, e, p) PROVE h[f] = Kid(e, p)
  <2> DEFINE C(c) == \E e2, p2 : New(f, e2, p2) /\ c = Kid(e2, p2)
  <2>1. h[f] = CHOOSE c : C(c)
    BY <1>2, <1>4 DEF NextSeen
  <2>2. C(Kid(e, p))
    BY <1>4
  <2>3. \A c : C(c) => c = Kid(e, p)
    BY <1>4, BornApart
  <2> HIDE DEF C, h, Kid
  <2> QED BY <2>1, <2>2, <2>3
<1> QED BY <1>1, <1>2, <1>3, <1>4

\* A step of the visit sees one level more of the tree.
LEMMA SeenOn ==
    ASSUME NEW d0, Tree(d0), NEW i \in Nat, NEW V, NEW g, Seen(V, g, i, d0),
           NEW W, W = VisitStep(V, i + 1)
    PROVE  Seen(W, NextSeen(V, W, g, i), i + 1, d0)
<1> DEFINE h == NextSeen(V, W, g, i)
           New(f, e, p) == Born(V, i, f, e, p)
           Kid(e, p) == ChildAt(g[e], e.node, p)
<1>1. /\ V \subseteq W
      /\ \A f \in W : f \in V \/ \E e, p : New(f, e, p)
      /\ \A f, e, p : New(f, e, p) => f \in W \ V /\ h[f] = Kid(e, p)
      /\ \A f \in V : h[f] = g[f]
  BY NextSeenIs
<1>2. ASSUME NEW f, NEW e, NEW p, New(f, e, p) PROVE Birth(d0, g[e], e.node, p, f, i)
  BY <1>2, BornSees
<1>3. ASSUME NEW f, NEW e, NEW p, New(f, e, p), NEW f2, NEW e2, NEW p2, New(f2, e2, p2)
      PROVE  /\ f = f2 => e = e2 /\ p = p2
             /\ Kid(e2, p2).place \in Kid(e, p).places => f = f2
  BY <1>3, BornApart
<1>4. \A f \in V : Sees(f, g[f], i, d0) /\ Len(f.way) <= i /\ f.way \in Seq(Nat)
  BY DEF Seen, Sees
<1>5. ASSUME NEW f, NEW e, NEW p, New(f, e, p)
      PROVE  f \notin V /\ f \in W /\ e \in V /\ Len(f.way) = i + 1
  BY <1>1, <1>2, <1>5 DEF Birth, Born
<1>6. \A f \in V : h[f] = g[f]
  BY <1>1
<1>7. ASSUME NEW f, NEW e, NEW p, New(f, e, p) PROVE h[f] = Kid(e, p)
  BY <1>1, <1>7
<1> HIDE DEF h
<1>8. ASSUME NEW f \in W PROVE Sees(f, h[f], i + 1, d0)
  <2>1. CASE f \in V
    <3>1. Len(f.way) <= i + 1
      <4>1. Len(f.way) \in Nat /\ Len(f.way) <= i
        BY <1>4, <2>1
      <4> QED BY <4>1
    <3> QED BY <1>4, <1>6, <2>1, <3>1 DEF Sees
  <2>2. ASSUME NEW e, NEW p, New(f, e, p) PROVE Sees(f, h[f], i + 1, d0)
    BY <1>2, <1>7, <2>2 DEF Birth
  <2> QED BY <1>1, <2>1, <2>2
<1>9. WaysApart(W)
  <2> SUFFICES ASSUME NEW e \in W, NEW f \in W, e.way = f.way PROVE e = f
    BY DEF WaysApart
  <2>1. CASE e \in V /\ f \in V
    BY <2>1 DEF Seen, WaysApart
  <2>2. ASSUME NEW x \in V, NEW y, NEW e2, NEW p2, New(y, e2, p2) PROVE x.way # y.way
    <3>1. Len(x.way) <= i /\ Len(y.way) = i + 1
      BY <1>4, <1>5, <2>2
    <3> QED BY <3>1
  <2>3. ASSUME NEW e2, NEW p2, New(e, e2, p2), NEW e3, NEW p3, New(f, e3, p3) PROVE e = f
    <3>1. /\ e2 \in V /\ e3 \in V /\ e = NextOf(e2, p2) /\ f = NextOf(e3, p3)
          /\ p2 \in Visits(e2.node) /\ p3 \in Visits(e3.node)
      BY <2>3 DEF Born
    <3>2. e.way = Append(e2.way, p2) /\ f.way = Append(e3.way, p3)
      BY <3>1 DEF NextOf
    <3>3. p2 \in Nat /\ p3 \in Nat
      BY <1>2, <2>3, <3>1, VisitsIs DEF Birth
    <3>4. PICK s \in Seq(Nat), t \in Seq(Nat) : s = e2.way /\ t = e3.way
      BY <1>4, <3>1
    <3>5. Append(s, p2) = Append(t, p3)
      BY <3>2, <3>4
    <3>6. s = t /\ p2 = p3
      BY <3>3, <3>5, AppendOnce
    <3>7. WaysApart(V)
      BY DEF Seen
    <3>8. e2 = e3
      BY <3>1, <3>4, <3>6, <3>7 DEF WaysApart
    <3> QED BY <3>1, <3>6, <3>8
  <2> QED BY <1>1, <2>1, <2>2, <2>3
<1>10. LastOnly(W, h, i + 1)
  <2> SUFFICES ASSUME NEW e \in W, NEW f \in W, Len(e.way) = i + 1, h[f].place \in h[e].places
               PROVE  f = e
    BY DEF LastOnly
  <2>1. PICK x, p : New(e, x, p)
    <3>1. e \notin V
      BY <1>4
    <3> QED BY <1>1, <3>1
  <2>2. h[e] = Kid(x, p) /\ h[e].places \subseteq g[x].places /\ g[x].place \notin h[e].places
    BY <1>2, <1>7, <2>1 DEF Birth
  <2>3. CASE f \in V
    <3>1. g[f].place \in g[x].places
      BY <1>6, <2>2, <2>3
    <3>2. f = x
      BY <2>1, <2>3, <3>1 DEF Seen, LastOnly, Born
    <3> QED BY <1>6, <2>2, <2>3, <3>2
  <2>4. ASSUME NEW y, NEW q, New(f, y, q) PROVE f = e
    <3>1. h[f] = Kid(y, q)
      BY <1>7, <2>4
    <3>2. Kid(y, q).place \in Kid(x, p).places
      BY <2>2, <3>1
    <3> HIDE DEF Kid, New
    <3> QED BY <1>3, <2>1, <2>4, <3>2
  <2> QED BY <1>1, <2>3, <2>4
<1>11. PlacesApart(W, h)
  <2> SUFFICES ASSUME NEW e \in W, NEW f \in W, h[e].place = h[f].place PROVE e = f
    BY DEF PlacesApart
  <2>1. CASE e \in V /\ f \in V
    BY <1>6, <2>1 DEF Seen, PlacesApart
  <2>2. ASSUME NEW x \in W, NEW y \in W, h[x].place = h[y].place, x \notin V PROVE x = y
    <3>1. PICK z, p : New(x, z, p)
      BY <1>1, <2>2
    <3>2. Len(x.way) = i + 1 /\ h[x].place \in h[x].places
      BY <1>2, <1>5, <1>7, <3>1 DEF Birth
    <3>3. h[y].place \in h[x].places
      BY <2>2, <3>2
    <3>4. y = x
      BY ONLY <1>10, <3>2, <3>3, x \in W, y \in W DEF LastOnly
    <3> QED BY <3>4
  <2> QED BY <2>1, <2>2
<1>12. ASSUME NEW e \in V, Len(e.way) = i, ~AtEnd(e.node)
       PROVE  /\ \A p \in g[e].places : p = g[e].place \/ \E q : New(NextOf(e, q), e, q) /\ p \in Kid(e, q).places
              /\ \A x \in g[e].entries : \E q : New(NextOf(e, q), e, q) /\ x \in Kid(e, q).entries
  <2> DEFINE d == g[e]
  <2>1. Tree(d) /\ d.node = e.node
    BY <1>4 DEF Sees, Under
  <2>2. Children(d, Kids(d).stem, Kids(d).child)
    <3>1. PICK s, c : Children(d, s, c)
      BY <1>12, <2>1, AtLeaf
    <3> QED BY <3>1, KidsAre
  <2>3. ASSUME NEW b \in Present(d.node)
        PROVE  \E q : New(NextOf(e, q), e, q) /\ Kid(e, q) = Kids(d).child[b]
    <3>1. Fits(e.node)
      BY <2>1, <2>2 DEF Children, InnerSub
    <3>2. PICK q \in Visits(e.node) : VisitByte(e.node, q) = b
      BY <2>1, <3>1, VisitsIs
    <3> QED BY <1>12, <3>2 DEF Born, ChildAt
  <2>4. /\ d.places = {d.place} \union UNION {Kids(d).child[b].places : b \in Present(d.node)}
        /\ d.entries = UNION {Kids(d).child[b].entries : b \in Present(d.node)}
    BY <2>2 DEF Children, InnerSub
  <2> HIDE DEF d, New, Kid
  <2>5. \A p \in d.places : p = d.place \/ \E q : New(NextOf(e, q), e, q) /\ p \in Kid(e, q).places
    BY <2>3, <2>4
  <2>6. \A x \in d.entries : \E q : New(NextOf(e, q), e, q) /\ x \in Kid(e, q).entries
    BY <2>3, <2>4
  <2> QED BY <2>5, <2>6 DEF d
<1>13. PlacesSeen(W, h, i + 1, d0)
  <2> SUFFICES ASSUME NEW p \in d0.places
               PROVE  \E f \in W : p = h[f].place \/ (Len(f.way) = i + 1 /\ p \in h[f].places)
    BY DEF PlacesSeen
  <2>1. PICK e \in V : p = g[e].place \/ (Len(e.way) = i /\ p \in g[e].places)
    BY DEF Seen, PlacesSeen
  <2>2. CASE p = g[e].place
    BY <1>1, <1>6, <2>2
  <2>3. CASE p # g[e].place
    <3>1. ~AtEnd(e.node)
      <4>1. Tree(g[e]) /\ g[e].node = e.node
        BY <1>4 DEF Sees, Under
      <4>2. \A k, v : LeafSub(g[e], k, v) => g[e].places = {g[e].place}
        BY DEF LeafSub
      <4> QED BY <2>1, <2>3, <4>1, <4>2, AtLeaf
    <3>2. PICK q : New(NextOf(e, q), e, q) /\ p \in Kid(e, q).places
      BY <1>12, <2>1, <2>3, <3>1
    <3> DEFINE f == NextOf(e, q)
    <3>3. f \in W /\ Len(f.way) = i + 1 /\ h[f] = Kid(e, q)
      <4> HIDE DEF f, New, Kid
      <4> QED BY <1>5, <1>7, <3>2 DEF f
    <3> HIDE DEF f
    <3> QED BY <3>2, <3>3
  <2> QED BY <2>2, <2>3
<1>14. EntriesSeen(W, h, i + 1, d0)
  <2> SUFFICES ASSUME NEW x \in d0.entries
               PROVE  \E f \in W : x \in h[f].entries /\ (AtEnd(f.node) \/ Len(f.way) = i + 1)
    BY DEF EntriesSeen
  <2>1. PICK e \in V : x \in g[e].entries /\ (AtEnd(e.node) \/ Len(e.way) = i)
    BY DEF Seen, EntriesSeen
  <2>2. CASE AtEnd(e.node)
    BY <1>1, <1>6, <2>1, <2>2
  <2>3. CASE ~AtEnd(e.node)
    <3>1. PICK q : New(NextOf(e, q), e, q) /\ x \in Kid(e, q).entries
      BY <1>12, <2>1, <2>3
    <3> DEFINE f == NextOf(e, q)
    <3>2. f \in W /\ Len(f.way) = i + 1 /\ h[f] = Kid(e, q)
      <4> HIDE DEF f, New, Kid
      <4> QED BY <1>5, <1>7, <3>1 DEF f
    <3> HIDE DEF f
    <3> QED BY <3>1, <3>2
  <2> QED BY <2>2, <2>3
<1> QED BY <1>8, <1>9, <1>10, <1>11, <1>13, <1>14 DEF Seen, h

-----------------------------------------------------------------------------
(* The order of the visits.                                                 *)

\* Visits are in the order of the places that they see.
OrderSeen(V, g) ==
    \A e, f \in V : /\ Before(e.way, f.way) => Before(g[e].place, g[f].place)
                    /\ Starts(f.way, e.way) => Starts(g[f].place, g[e].place)

\* The places of a node with its keys in order are in the order of the bytes.
LEMMA VisitsRise ==
    ASSUME NEW n, Fits(n), Rising(n), NEW p \in Visits(n), NEW q \in Visits(n), p < q
    PROVE  VisitByte(n, p) < VisitByte(n, q)
<1>1. CASE Listed(n)
  BY <1>1 DEF Visits, VisitByte, Rising
<1>2. CASE ~Listed(n)
  BY <1>2 DEF VisitByte
<1> QED BY <1>1, <1>2

\* What is next to a visit goes on from it.
LEMMA BornOn ==
    ASSUME NEW d0, Tree(d0), NEW i \in Nat, NEW V, NEW g, Seen(V, g, i, d0),
           NEW f, NEW e, NEW p, Born(V, i, f, e, p)
    PROVE  LET c == ChildAt(g[e], e.node, p)
           IN  /\ e \in V /\ e.way \in Seq(Nat) /\ Len(e.way) = i /\ p \in Nat
               /\ f.way = Append(e.way, p) /\ Tree(g[e]) /\ g[e].node = e.node
               /\ Children(g[e], Kids(g[e]).stem, Kids(g[e]).child)
               /\ VisitByte(e.node, p) \in Byte /\ Kids(g[e]).stem \in Seq(Byte)
               /\ c.place = Append(Kids(g[e]).stem, VisitByte(e.node, p))
               /\ c.place \in Seq(Byte) /\ g[e].place \in Seq(Byte)
               /\ Starts(c.place, g[e].place)
<1> DEFINE d == g[e]
           c == ChildAt(d, e.node, p)
           stem == Kids(d).stem
           b == VisitByte(e.node, p)
<1>1. /\ Children(d, stem, Kids(d).child) /\ b \in Present(d.node) /\ d.node = e.node
      /\ Fits(e.node) /\ Sees(f, c, i + 1, d0) /\ e \in V /\ Len(e.way) = i
      /\ p \in Visits(e.node) /\ f = NextOf(e, p) /\ Sees(e, d, i, d0)
  BY BornSees DEF Birth, Born, Seen
<1>2. /\ Tree(c) /\ Tree(d) /\ e.way \in Seq(Nat) /\ d.place \in Seq(Byte)
      /\ c.place \in Seq(Byte) /\ c = Kids(d).child[b]
  BY <1>1, NodeThere DEF Sees, Under, ChildAt
<1>3. p \in Nat /\ f.way = Append(e.way, p)
  BY <1>1, VisitsIs DEF NextOf
<1>4. b \in Byte /\ stem \in Seq(Byte) /\ Begins(stem, d.place) /\ c.place = Append(stem, b)
  BY <1>1, <1>2 DEF Children, InnerSub, Present
<1> HIDE DEF d, c, stem, b
<1>5. Begins(c.place, d.place)
  <2>1. Begins(c.place, Append(stem, b))
    BY <1>2, <1>4, BeginsSelf
  <2>2. Begins(c.place, stem)
    BY <1>2, <1>4, <2>1, BeginsMore
  <2> QED BY <1>2, <1>4, <2>2, BeginsOn
<1>6. Starts(c.place, d.place)
  BY <1>2, <1>5, BytesStart
<1> QED BY <1>1, <1>2, <1>3, <1>4, <1>6 DEF d, c, stem, b

\* Visits next to one are in the order of its bytes.
LEMMA BornRise ==
    ASSUME NEW d0, Tree(d0), NEW i \in Nat, NEW V, NEW g, Seen(V, g, i, d0), Ordered(d0.node),
           NEW e, NEW f, NEW p, Born(V, i, f, e, p), NEW f2, NEW p2, Born(V, i, f2, e, p2), p < p2
    PROVE  Before(ChildAt(g[e], e.node, p).place, ChildAt(g[e], e.node, p2).place)
<1> DEFINE b == VisitByte(e.node, p)
           b2 == VisitByte(e.node, p2)
           stem == Kids(g[e]).stem
<1>1. /\ b \in Byte /\ b2 \in Byte /\ stem \in Seq(Byte)
      /\ ChildAt(g[e], e.node, p).place = Append(stem, b)
      /\ ChildAt(g[e], e.node, p2).place = Append(stem, b2)
      /\ g[e].node = e.node /\ Children(g[e], stem, Kids(g[e]).child) /\ Tree(g[e])
  BY BornOn
<1>2. Fits(e.node) /\ p \in Visits(e.node) /\ p2 \in Visits(e.node)
  BY <1>1 DEF Children, InnerSub, Born
<1>3. Rising(e.node)
  <2>1. Ordered(e.node)
    BY <1>1 DEF Born, Seen, Sees, Under
  <2> QED BY <1>2, <2>1, OrderedIs, TwoPresent
<1>4. b < b2
  BY <1>2, <1>3, VisitsRise
<1> HIDE DEF b, b2, stem
<1>5. Byte \subseteq Nat /\ stem \in Seq(Nat)
  BY <1>1, SizesOrdered, BytesStart DEF Byte
<1>6. b \in Nat /\ b2 \in Nat
  BY <1>1, <1>5
<1>7. Before(Append(stem, b), Append(stem, b2))
  BY <1>4, <1>5, <1>6, BeforeLast
<1> QED BY <1>1, <1>7

\* A step of the visit keeps the order.
LEMMA OrderOn ==
    ASSUME NEW d0, Tree(d0), NEW i \in Nat, NEW V, NEW g, Seen(V, g, i, d0), Ordered(d0.node),
           OrderSeen(V, g), NEW W, W = VisitStep(V, i + 1)
    PROVE  OrderSeen(W, NextSeen(V, W, g, i))
<1> DEFINE h == NextSeen(V, W, g, i)
           New(f, e, p) == Born(V, i, f, e, p)
           Kid(e, p) == ChildAt(g[e], e.node, p)
<1>1. /\ \A f \in W : f \in V \/ \E e, p : New(f, e, p)
      /\ \A f \in V : h[f] = g[f]
      /\ \A f, e, p : New(f, e, p) => h[f] = Kid(e, p)
  BY NextSeenIs
<1> HIDE DEF h
<1>2. ASSUME NEW e \in V
      PROVE  e.way \in Seq(Nat) /\ Len(e.way) <= i /\ Len(e.way) \in Nat /\ g[e].place \in Seq(Nat)
  <2>1. Sees(e, g[e], i, d0)
    BY DEF Seen
  <2>2. g[e].place \in Seq(Byte) /\ e.way \in Seq(Nat) /\ Len(e.way) <= i
    BY <2>1, NodeThere DEF Sees, Under
  <2> QED BY <2>2, BytesStart
<1>3. ASSUME NEW f, NEW e, NEW p, New(f, e, p)
      PROVE  /\ e \in V /\ e.way \in Seq(Nat) /\ Len(e.way) = i /\ p \in Nat
             /\ f.way = Append(e.way, p) /\ h[f] = Kid(e, p)
             /\ h[f].place \in Seq(Nat) /\ Starts(h[f].place, g[e].place) /\ g[e].place \in Seq(Nat)
  <2>1. /\ e \in V /\ e.way \in Seq(Nat) /\ Len(e.way) = i /\ p \in Nat
        /\ f.way = Append(e.way, p) /\ Kid(e, p).place \in Seq(Byte) /\ g[e].place \in Seq(Byte)
        /\ Starts(Kid(e, p).place, g[e].place)
    BY <1>3, BornOn
  <2>2. h[f] = Kid(e, p)
    BY <1>1, <1>3
  <2> HIDE DEF Kid
  <2> QED BY <2>1, <2>2, BytesStart
<1> DEFINE Keep(e, f) == /\ Before(e.way, f.way) => Before(h[e].place, h[f].place)
                         /\ Starts(f.way, e.way) => Starts(h[f].place, h[e].place)
<1>4. ASSUME NEW e \in V, NEW f \in V
      PROVE  /\ Before(e.way, f.way) => Before(g[e].place, g[f].place)
             /\ Starts(f.way, e.way) => Starts(g[f].place, g[e].place)
  BY DEF OrderSeen
<1>5. ASSUME NEW e \in V, NEW f \in V PROVE Keep(e, f)
  BY <1>1, <1>4
<1>6. ASSUME NEW x \in V, NEW f, NEW e, NEW p, New(f, e, p) PROVE Keep(x, f) /\ Keep(f, x)
  <2>1. /\ e \in V /\ e.way \in Seq(Nat) /\ Len(e.way) = i /\ p \in Nat
        /\ f.way = Append(e.way, p) /\ h[f].place \in Seq(Nat)
        /\ Starts(h[f].place, g[e].place) /\ g[e].place \in Seq(Nat)
    BY <1>3, <1>6
  <2>2. /\ x.way \in Seq(Nat) /\ Len(x.way) <= i /\ g[x].place \in Seq(Nat) /\ h[x] = g[x]
        /\ Len(x.way) \in Nat
    BY <1>1, <1>2
  <2>3. /\ Before(f.way, x.way) => Before(e.way, x.way)
        /\ Before(x.way, f.way) => Before(x.way, e.way)
        /\ Starts(f.way, x.way) => Starts(e.way, x.way)
        /\ Len(f.way) = i + 1
    <3>1. PICK s \in Seq(Nat), t \in Seq(Nat) : s = e.way /\ t = x.way
      BY <2>1, <2>2
    <3>2. Len(t) <= Len(s)
      BY <2>1, <2>2, <3>1
    <3>3. /\ Before(Append(s, p), t) => Before(s, t)
          /\ Before(t, Append(s, p)) => Before(t, s)
          /\ Starts(Append(s, p), t) => Starts(s, t)
          /\ Len(Append(s, p)) = Len(s) + 1
      BY ONLY <2>1, <3>2, s \in Seq(Nat), t \in Seq(Nat), BeforeLast
    <3> QED BY <2>1, <3>1, <3>3
  <2>4. ~Starts(x.way, f.way)
    BY <2>2, <2>3 DEF Starts
  <2>5. Starts(g[x].place, g[x].place)
    BY <2>2, StartsOn
  <2>6. ASSUME Before(x.way, f.way) PROVE Before(h[x].place, h[f].place)
    <3>1. Before(g[x].place, g[e].place)
      BY <1>4, <2>1, <2>3, <2>6
    <3> QED BY <2>1, <2>2, <2>5, <3>1, BeforeMore
  <2>7. ASSUME Before(f.way, x.way) PROVE Before(h[f].place, h[x].place)
    <3>1. Before(g[e].place, g[x].place)
      BY <1>4, <2>1, <2>3, <2>7
    <3> QED BY <2>1, <2>2, <2>5, <3>1, BeforeMore
  <2>8. ASSUME Starts(f.way, x.way) PROVE Starts(h[f].place, h[x].place)
    <3>1. Starts(g[e].place, g[x].place)
      BY <1>4, <2>1, <2>3, <2>8
    <3> QED BY <2>1, <2>2, <3>1, StartsOn
  <2> QED BY <2>4, <2>6, <2>7, <2>8
<1>7. ASSUME NEW f, NEW e, NEW p, New(f, e, p), NEW f2, NEW e2, NEW p2, New(f2, e2, p2)
      PROVE  Keep(f, f2)
  <2>1. /\ e \in V /\ e.way \in Seq(Nat) /\ Len(e.way) = i /\ p \in Nat
        /\ f.way = Append(e.way, p) /\ h[f].place \in Seq(Nat) /\ h[f] = Kid(e, p)
        /\ Starts(h[f].place, g[e].place) /\ g[e].place \in Seq(Nat)
    BY <1>3, <1>7
  <2>2. /\ e2 \in V /\ e2.way \in Seq(Nat) /\ Len(e2.way) = i /\ p2 \in Nat
        /\ f2.way = Append(e2.way, p2) /\ h[f2].place \in Seq(Nat) /\ h[f2] = Kid(e2, p2)
        /\ Starts(h[f2].place, g[e2].place) /\ g[e2].place \in Seq(Nat)
    BY <1>3, <1>7
  <2>3. /\ Before(f.way, f2.way) => Before(e.way, e2.way) \/ (e.way = e2.way /\ p < p2)
        /\ Starts(f2.way, f.way) => e2.way = e.way /\ p2 = p
    <3>1. PICK s \in Seq(Nat), t \in Seq(Nat) : s = e.way /\ t = e2.way
      BY <2>1, <2>2
    <3> QED BY <2>1, <2>2, <3>1, BeforeLast
  <2>4. e.way = e2.way => e = e2
    BY <2>1, <2>2 DEF Seen, WaysApart
  <2>5. ASSUME Before(e.way, e2.way) PROVE Before(h[f].place, h[f2].place)
    <3>1. Before(g[e].place, g[e2].place)
      BY <1>4, <2>1, <2>2, <2>5
    <3> QED BY <2>1, <2>2, <3>1, BeforeMore
  <2>6. ASSUME e = e2, p < p2 PROVE Before(h[f].place, h[f2].place)
    <3>1. Before(Kid(e, p).place, Kid(e, p2).place)
      BY <1>7, <2>6, BornRise
    <3> HIDE DEF Kid
    <3> QED BY <2>1, <2>2, <2>6, <3>1
  <2>7. ASSUME Starts(f2.way, f.way) PROVE Starts(h[f2].place, h[f].place)
    <3>1. h[f2] = h[f]
      <4> HIDE DEF Kid
      <4> QED BY <2>1, <2>2, <2>3, <2>4, <2>7
    <3> QED BY <2>1, <3>1, StartsOn
  <2> QED BY <2>3, <2>4, <2>5, <2>6, <2>7
<1>8. \A e, f \in W : Keep(e, f)
  <2> SUFFICES ASSUME NEW e \in W, NEW f \in W PROVE Keep(e, f)
    OBVIOUS
  <2> HIDE DEF Keep, New
  <2> QED BY <1>1, <1>5, <1>6, <1>7
<1> QED BY <1>8 DEF OrderSeen, h

\* All that is visited in a subtree, and in its order if it has one.
LEMMA VisitedSeen ==
    ASSUME NEW d0, Tree(d0)
    PROVE  \E g : /\ Seen(Visited(d0.node), g, Longest, d0)
                  /\ Ordered(d0.node) => OrderSeen(Visited(d0.node), g)
<1>1. PICK f : /\ Goings(d0.node, Longest, f)
               /\ Visited(d0.node) = {e \in f[Longest] : e.node # NULL}
  BY GoingsExist
<1>2. Longest \in Nat
  BY LongestIs
<1> DEFINE Sorted(V, g) == Ordered(d0.node) => OrderSeen(V, g)
           S == {i \in Nat : i <= Longest => \E g : Seen(f[i], g, i, d0) /\ Sorted(f[i], g)}
<1>3. 0 \in S
  <2> DEFINE e == FirstVisit(d0.node)
             V == {e}
             g == [x \in V |-> d0]
  <2>1. f[0] = V
    <3>1. 0 \in 0..Longest
      BY <1>2
    <3> QED BY <1>1, <3>1 DEF Goings
  <2>2. e.node = d0.node /\ e.depth = 0 /\ e.way = <<>>
    BY DEF FirstVisit
  <2>3. Len(<<>>) = 0 /\ <<>> \in Seq(Nat)
    OBVIOUS
  <2>4. Sees(e, d0, 0, d0)
    <3>1. Under(d0, d0)
      BY DEF Under
    <3>2. Len(d0.place) \in Nat
      BY Depth
    <3>3. Len(d0.place) - Len(d0.place) = 0 /\ 0 <= Len(d0.place) /\ 0 <= 0
      BY <3>2
    <3> HIDE DEF e
    <3> QED BY <2>2, <2>3, <3>1, <3>3 DEF Sees
  <2>5. Len(e.way) = 0
    BY <2>2, <2>3
  <2>6. d0.place \in d0.places
    BY TreeIs DEF Sound
  <2> HIDE DEF e
  <2>7. g[e] = d0
    OBVIOUS
  <2> HIDE DEF g
  <2>8. WaysApart(V) /\ PlacesApart(V, g) /\ LastOnly(V, g, 0)
    BY DEF WaysApart, PlacesApart, LastOnly
  <2>9. PlacesSeen(V, g, 0, d0) /\ EntriesSeen(V, g, 0, d0)
    BY <2>5, <2>7 DEF PlacesSeen, EntriesSeen
  <2>10. Seen(V, g, 0, d0)
    BY <2>4, <2>7, <2>8, <2>9 DEF Seen
  <2>11. OrderSeen(V, g)
    <3>1. Starts(d0.place, d0.place)
      BY NodeThere, BytesStart, BeginsSelf
    <3>2. ~Before(e.way, e.way)
      BY <2>2, <2>3, BeforeOr
    <3> QED BY <2>7, <3>1, <3>2 DEF OrderSeen
  <2> HIDE DEF V
  <2> QED BY <2>1, <2>10, <2>11
<1>4. ASSUME NEW i \in Nat, i < Longest, i \in S PROVE i + 1 \in S
  <2>1. PICK g : Seen(f[i], g, i, d0) /\ Sorted(f[i], g)
    BY <1>2, <1>4
  <2>2. f[i + 1] = VisitStep(f[i], i + 1)
    <3>1. i + 1 \in 0..Longest /\ i + 1 # 0 /\ (i + 1) - 1 = i
      BY <1>2, <1>4
    <3> QED BY <1>1, <3>1 DEF Goings
  <2>3. Seen(f[i + 1], NextSeen(f[i], f[i + 1], g, i), i + 1, d0)
    BY <2>1, <2>2, SeenOn
  <2>4. Sorted(f[i + 1], NextSeen(f[i], f[i + 1], g, i))
    BY <2>1, <2>2, OrderOn
  <2> HIDE DEF Sorted
  <2> QED BY <2>3, <2>4
<1>5. \A i \in 0..Longest : i \in S
  <2> HIDE DEF S
  <2> QED BY ONLY <1>2, <1>3, <1>4, Upward
<1>6. PICK g : Seen(f[Longest], g, Longest, d0) /\ Sorted(f[Longest], g)
  BY <1>2, <1>5
<1>7. ASSUME NEW e \in f[Longest] PROVE e.node # NULL
  <2>1. Tree(g[e]) /\ g[e].node = e.node
    BY <1>6 DEF Seen, Sees, Under
  <2> QED BY <2>1, NodeThere
<1>8. Visited(d0.node) = f[Longest]
  BY <1>1, <1>7
<1> QED BY <1>6, <1>8

\* The last visits are of leaves.
LEMMA LastLeaves ==
    ASSUME NEW d0, Tree(d0), NEW V, NEW g, Seen(V, g, Longest, d0), NEW e \in V
    PROVE  /\ Tree(g[e]) /\ g[e].node = e.node
           /\ Len(e.way) = Longest => AtEnd(e.node)
           /\ AtEnd(e.node) => \E k, v : LeafSub(g[e], k, v)
           /\ ~AtEnd(e.node) => \E stem, child : Children(g[e], stem, child)
<1>1. Tree(g[e]) /\ g[e].node = e.node /\ Len(e.way) <= Len(g[e].place) /\ e.way \in Seq(Nat)
  BY DEF Seen, Sees, Under
<1>2. ASSUME Len(e.way) = Longest, NEW stem, NEW child, Children(g[e], stem, child) PROVE FALSE
  <2>1. Len(g[e].place) < Longest /\ Len(g[e].place) \in Nat
    BY <1>1, <1>2, Depth
  <2> QED BY <1>1, <1>2, <2>1, LongestIs
<1> QED BY <1>1, <1>2, AtLeaf

\* The leaves that are visited.
LEMMA LeavesBelowIs ==
    ASSUME NEW d0, Tree(d0)
    PROVE  LeavesBelow(d0.node) = {make_leaf(x.key, x.value) : x \in d0.entries}
<1> DEFINE V == Visited(d0.node)
           Leaf(x) == make_leaf(x.key, x.value)
<1>1. PICK g : Seen(V, g, Longest, d0)
  BY VisitedSeen
<1> HIDE DEF V
<1>2. ASSUME NEW e \in V, IS_LEAF(e.node) PROVE \E x \in d0.entries : e.node = Leaf(x)
  <2>1. PICK k, v : LeafSub(g[e], k, v)
    BY <1>1, <1>2, LastLeaves DEF AtEnd
  <2>2. e.node = make_leaf(k, v) /\ EntryOf(k, v) \in g[e].entries
    BY <1>1, <2>1, LastLeaves DEF LeafSub
  <2>3. EntryOf(k, v) \in d0.entries
    BY <1>1, <2>2 DEF Seen, Sees, Under
  <2>4. EntryOf(k, v).key = k /\ EntryOf(k, v).value = v
    BY DEF EntryOf
  <2> QED BY <2>2, <2>3, <2>4
<1>3. ASSUME NEW x \in d0.entries PROVE \E e \in V : IS_LEAF(e.node) /\ e.node = Leaf(x)
  <2>1. PICK e \in V : x \in g[e].entries /\ (AtEnd(e.node) \/ Len(e.way) = Longest)
    BY <1>1 DEF Seen, EntriesSeen
  <2>2. PICK k, v : LeafSub(g[e], k, v)
    BY <1>1, <2>1, LastLeaves
  <2>3. e.node = make_leaf(k, v) /\ x = EntryOf(k, v)
    BY <1>1, <2>1, <2>2, LastLeaves DEF LeafSub
  <2>4. x.key = k /\ x.value = v /\ IS_LEAF(e.node)
    BY <2>3 DEF EntryOf, IS_LEAF, make_leaf
  <2> QED BY <2>3, <2>4
<1>4. LeavesBelow(d0.node) = {e.node : e \in {f \in V : IS_LEAF(f.node)}}
  BY DEF LeavesBelow, V
<1> HIDE DEF Leaf
<1>5. LeavesBelow(d0.node) = {Leaf(x) : x \in d0.entries}
  BY <1>2, <1>3, <1>4
<1> QED BY <1>5 DEF Leaf

\* The inner nodes that are visited.
LEMMA InnerVisitedIs ==
    ASSUME NEW d0, Tree(d0), NEW e \in InnerVisited(d0.node)
    PROVE  \E c, stem, child :
               /\ Under(c, d0) /\ Children(c, stem, child) /\ c.node = e.node
               /\ e.depth = Len(c.place) - Len(d0.place)
<1>1. e \in Visited(d0.node) /\ ~IS_LEAF(e.node)
  BY DEF InnerVisited
<1>2. PICK g : Seen(Visited(d0.node), g, Longest, d0)
  BY VisitedSeen
<1>3. /\ Under(g[e], d0) /\ Tree(g[e]) /\ g[e].node = e.node
      /\ e.depth = Len(g[e].place) - Len(d0.place)
  BY <1>1, <1>2 DEF Seen, Sees, Under
<1>4. ~AtEnd(e.node)
  BY <1>1, <1>3, NodeThere DEF AtEnd
<1>5. PICK stem, child : Children(g[e], stem, child)
  BY <1>3, <1>4, AtLeaf
<1> QED BY <1>3, <1>5

\* There are as many keys and places as keys at most, and twice as many.
LEMMA TreeFinite ==
    ASSUME NEW d0, Tree(d0)
    PROVE  /\ IsFiniteSet(d0.entries) /\ Cardinality(d0.entries) \in 0..Cardinality(Key)
           /\ IsFiniteSet(d0.places)
           /\ Cardinality(d0.places) \in 0..(2 * Cardinality(d0.entries))
<1>1. Sound(d0)
  BY TreeIs
<1>2. IsFiniteSet(Key) /\ Cardinality(Key) \in Nat
  BY KeysAre, FS_CardinalityType
<1>3. IsFiniteSet(d0.entries) /\ Cardinality(d0.entries) \in 0..Cardinality(Key)
  <2> DEFINE f == [x \in d0.entries |-> x.key]
  <2>1. f \in Injection(d0.entries, Key)
    <3>1. \A x \in d0.entries : x.key \in Key
      BY <1>1 DEF Sound
    <3>2. \A x, y \in d0.entries : x.key = y.key => x = y
      BY <1>1 DEF Sound
    <3>3. f \in [d0.entries -> Key]
      BY <3>1
    <3>4. \A x, y \in d0.entries : f[x] = f[y] => x = y
      BY <3>2
    <3> QED BY <3>3, <3>4 DEF Injection, IsInjective
  <2> HIDE DEF f
  <2>2. IsFiniteSet(d0.entries) /\ Cardinality(d0.entries) <= Cardinality(Key)
    BY <1>2, <2>1, FS_Injection
  <2>3. Cardinality(d0.entries) \in Nat
    BY <2>2, FS_CardinalityType
  <2> QED BY <1>2, <2>2, <2>3
<1>4. PICK x, h : Pairing(d0, x, h)
  BY <1>1 DEF Sound
<1>5. h \in Injection(d0.places, d0.entries \X {0, 1})
  BY <1>4 DEF Pairing, Injection, IsInjective
<1>6. IsFiniteSet({0, 1}) /\ Cardinality({0, 1}) = 2
  <2>1. {0, 1} = 0..1
    OBVIOUS
  <2>2. IsFiniteSet(0..1) /\ Cardinality(0..1) = IF 0 > 1 THEN 0 ELSE 1 - 0 + 1
    BY ONLY 0 \in Int, 1 \in Int, FS_Interval
  <2> QED BY <2>1, <2>2
<1>7. /\ IsFiniteSet(d0.entries \X {0, 1})
      /\ Cardinality(d0.entries \X {0, 1}) = Cardinality(d0.entries) * 2
  BY <1>3, <1>6, FS_Product
<1>8. IsFiniteSet(d0.places) /\ Cardinality(d0.places) <= Cardinality(d0.entries) * 2
  BY <1>5, <1>7, FS_Injection
<1>9. Cardinality(d0.places) \in Nat
  BY <1>8, FS_CardinalityType
<1> QED BY <1>2, <1>3, <1>8, <1>9

\* What destroy_node frees.
LEMMA FreedIs ==
    ASSUME NEW d0, Tree(d0)
    PROVE  Freed(d0.node) = Cardinality(d0.places)
<1> DEFINE V == Visited(d0.node)
<1>1. PICK g : Seen(V, g, Longest, d0)
  BY VisitedSeen
<1> HIDE DEF V
<1>2. ASSUME NEW p \in d0.places PROVE \E e \in V : p = g[e].place
  <2>1. PICK e \in V : p = g[e].place \/ (Len(e.way) = Longest /\ p \in g[e].places)
    BY <1>1 DEF Seen, PlacesSeen
  <2>2. ASSUME Len(e.way) = Longest, p \in g[e].places PROVE p = g[e].place
    <3>1. PICK k, v : LeafSub(g[e], k, v)
      BY <1>1, <2>2, LastLeaves
    <3> QED BY <2>2, <3>1 DEF LeafSub
  <2> QED BY <2>1, <2>2
<1> DEFINE f == [p \in d0.places |-> CHOOSE e \in V : p = g[e].place]
<1>3. \A p \in d0.places : f[p] \in V /\ g[f[p]].place = p
  BY <1>2
<1>4. f \in [d0.places -> V]
  BY <1>2
<1> HIDE DEF f
<1>5. \A p, q \in d0.places : f[p] = f[q] => p = q
  BY <1>3
<1>6. \A e \in V : \E p \in d0.places : f[p] = e
  <2> SUFFICES ASSUME NEW e \in V PROVE \E p \in d0.places : f[p] = e
    OBVIOUS
  <2>1. Under(g[e], d0) /\ Sound(g[e])
    BY <1>1, TreeIs DEF Seen, Sees, Under
  <2>2. g[e].place \in d0.places
    BY <2>1 DEF Under, Sound
  <2>3. f[g[e].place] = e
    BY <1>1, <1>3, <2>2 DEF Seen, PlacesApart
  <2> QED BY <2>2, <2>3
<1>7. Cardinality(V) = Cardinality(d0.places)
  BY <1>4, <1>5, <1>6, TreeFinite, Counts
<1> QED BY <1>7 DEF Freed, V

-----------------------------------------------------------------------------
(* Counts.                                                                  *)

\* A set with more places has as many more.
LEMMA CountedMore ==
    ASSUME NEW P, IsFiniteSet(P), NEW Q, NEW count, More(P, Q, count)
    PROVE  Cardinality(Q) = Cardinality(P) + count /\ IsFiniteSet(Q) /\ Cardinality(P) \in Nat
<1>1. Cardinality(P) \in Nat
  BY FS_CardinalityType
<1>2. CASE count = 1 /\ \E z : z \notin P /\ Q = P \union {z}
  <2>1. PICK z : z \notin P /\ Q = P \union {z}
    BY <1>2
  <2>2. IsFiniteSet(P \union {z}) /\ Cardinality(P \union {z}) = Cardinality(P) + 1
    BY <2>1, FS_AddElement
  <2> QED BY <1>1, <1>2, <2>1, <2>2
<1>3. CASE count = 2 /\ TwoMore(P, Q)
  <2>1. PICK x, y : x # y /\ x \notin P /\ y \notin P /\ Q = P \union {x, y}
    BY <1>3 DEF TwoMore
  <2>2. IsFiniteSet(P \union {x}) /\ Cardinality(P \union {x}) = Cardinality(P) + 1
    BY <2>1, FS_AddElement
  <2> DEFINE R == P \union {x}
  <2>3. y \notin R /\ Q = R \union {y}
    BY <2>1
  <2> HIDE DEF R
  <2>4. IsFiniteSet(R \union {y}) /\ Cardinality(R \union {y}) = Cardinality(R) + 1
    BY <2>2, <2>3, FS_AddElement DEF R
  <2>5. Cardinality(R) = Cardinality(P) + 1
    BY <2>2 DEF R
  <2> QED BY <1>1, <1>3, <2>3, <2>4, <2>5
<1> QED BY <1>2, <1>3 DEF More

\* A set with fewer places has as many less.
LEMMA CountedLess ==
    ASSUME NEW P, IsFiniteSet(P), NEW Q, NEW count, Fewer(P, Q, count)
    PROVE  Cardinality(Q) = Cardinality(P) - count
<1>1. Cardinality(P) \in Nat
  BY FS_CardinalityType
<1>2. CASE count = 1 /\ \E x \in P : Q = P \ {x}
  <2>1. PICK x \in P : Q = P \ {x}
    BY <1>2
  <2>2. Cardinality(P \ {x}) = Cardinality(P) - 1
    BY <2>1, FS_RemoveElement
  <2> QED BY <1>2, <2>1, <2>2
<1>3. CASE count = 2 /\ \E x, y \in P : x # y /\ Q = P \ {x, y}
  <2>1. PICK x \in P, y \in P : x # y /\ Q = P \ {x, y}
    BY <1>3
  <2> DEFINE R == P \ {x}
  <2>2. IsFiniteSet(R) /\ Cardinality(R) = Cardinality(P) - 1
    BY <2>1, FS_RemoveElement
  <2>3. y \in R /\ Q = R \ {y}
    BY <2>1
  <2> HIDE DEF R
  <2>4. Cardinality(R \ {y}) = Cardinality(R) - 1
    BY <2>2, <2>3, FS_RemoveElement
  <2>5. Cardinality(Q) = Cardinality(P) - 2
    <3>1. PICK m \in Nat : m = Cardinality(P)
      BY <1>1
    <3>2. Cardinality(R \ {y}) = (m - 1) - 1
      BY <2>2, <2>4, <3>1
    <3>3. (m - 1) - 1 = m - 2
      OBVIOUS
    <3> QED BY <2>3, <3>1, <3>2, <3>3
  <2> QED BY <1>3, <2>5
<1> QED BY <1>2, <1>3 DEF Fewer

-----------------------------------------------------------------------------
(* The invariant.                                                           *)

\* The root of a tree, the size and the blocks that it takes.
Kept(d, t, s, b) ==
    /\ Tree(d) /\ d.place = <<>> /\ d.node = t
    /\ s = Cardinality(d.entries) /\ b = Cardinality(d.places)

\* A root, a size and a number of blocks with what is stored.
Holds(t, s, b, E) ==
    \/ t = Dangling /\ b = 0 /\ E = {}
    \/ t = NULL /\ s = 0 /\ b = 0 /\ E = {}
    \/ \E d : Kept(d, t, s, b) /\ E = d.entries

\* The entries of the leaves below a node.
EntriesOf(t) == {[key |-> l.key, value |-> l.value] : l \in LeavesBelow(t)}

\* Nothing is visited below no node.
LEMMA NothingVisited ==
    Visited(NULL) = {} /\ Freed(NULL) = 0 /\ LeavesBelow(NULL) = {} /\ EntriesOf(NULL) = {}
<1>1. PICK f : /\ Goings(NULL, Longest, f)
               /\ Visited(NULL) = {e \in f[Longest] : e.node # NULL}
  BY GoingsExist
<1>2. Longest \in Nat
  BY LongestIs
<1> DEFINE V == {FirstVisit(NULL)}
           S == {i \in Nat : i <= Longest => f[i] = V}
<1>3. 0 \in S
  <2>1. 0 \in 0..Longest
    BY <1>2
  <2> QED BY <1>1, <2>1 DEF Goings
<1>4. ASSUME NEW i \in Nat, i < Longest, i \in S PROVE i + 1 \in S
  <2>1. i + 1 \in 0..Longest /\ i + 1 # 0 /\ (i + 1) - 1 = i
    BY <1>2, <1>4
  <2>2. f[i + 1] = VisitStep(f[i], i + 1)
    BY <1>1, <2>1 DEF Goings
  <2>3. f[i] = V
    BY <1>2, <1>4
  <2>4. NextTo(FirstVisit(NULL)) = {}
    BY DEF NextTo, FirstVisit, AtEnd
  <2>5. VisitStep(V, i + 1) = V
    BY <2>4 DEF VisitStep
  <2> QED BY <2>2, <2>3, <2>5
<1>5. \A i \in 0..Longest : i \in S
  <2> HIDE DEF S
  <2> QED BY ONLY <1>2, <1>3, <1>4, Upward
<1>6. f[Longest] = V
  BY <1>2, <1>5
<1>7. Visited(NULL) = {}
  BY <1>1, <1>6 DEF FirstVisit
<1>8. Cardinality({}) = 0
  BY FS_EmptySet
<1> QED BY <1>7, <1>8 DEF Freed, LeavesBelow, EntriesOf

\* A tree is neither no node nor freed memory.
LEMMA NeverDangling ==
    /\ NULL # Dangling
    /\ \A d : Tree(d) => d.node # NULL /\ d.node # Dangling
<1>1. NULL # Dangling
  BY DEF NULL, Dangling
<1>2. ASSUME NEW d, Tree(d) PROVE d.node # NULL /\ d.node # Dangling
  <2>1. ASSUME NEW k, NEW v, LeafSub(d, k, v) PROVE d.node # Dangling
    BY <2>1 DEF LeafSub, make_leaf, Dangling
  <2>2. ASSUME NEW stem, NEW child, Children(d, stem, child) PROVE d.node # Dangling
    <3>1. d.node.type \in Layouts
      BY <2>2, TwoPresent DEF Children, InnerSub
    <3> QED BY <3>1 DEF Layouts, Dangling
  <2> QED BY <1>2, <2>1, <2>2, TreeIs, NodeThere
<1> QED BY <1>1, <1>2

\* The entries of a tree are those of the leaves that are visited.
LEMMA EntriesAre ==
    ASSUME NEW d, Tree(d)
    PROVE  EntriesOf(d.node) = d.entries
<1>1. LeavesBelow(d.node) = {make_leaf(x.key, x.value) : x \in d.entries}
  BY LeavesBelowIs
<1>2. \A x \in d.entries : x = EntryOf(x.key, x.value)
  BY TreeIs DEF Sound
<1>3. \A k, v : /\ make_leaf(k, v).key = k /\ make_leaf(k, v).value = v
                /\ EntryOf(k, v) = [key |-> k, value |-> v]
  BY DEF make_leaf, EntryOf
<1>4. ASSUME NEW x \in d.entries PROVE x \in EntriesOf(d.node)
  BY <1>1, <1>2, <1>3, <1>4 DEF EntriesOf
<1>5. ASSUME NEW y \in EntriesOf(d.node) PROVE y \in d.entries
  <2>1. PICK l \in LeavesBelow(d.node) : y = [key |-> l.key, value |-> l.value]
    BY DEF EntriesOf
  <2>2. PICK x \in d.entries : l = make_leaf(x.key, x.value)
    BY <1>1
  <2> QED BY <1>2, <1>3, <2>1, <2>2
<1> QED BY <1>4, <1>5

\* What a tree stores.
Stores(E) ==
    /\ IsFiniteSet(E) /\ Cardinality(E) \in 0..Cardinality(Key)
    /\ \A x \in E : /\ x.key \in Key /\ x.value \in ValuesOf[x.key] /\ x.value \in Value
                    /\ x = EntryOf(x.key, x.value)
    /\ \A x, y \in E : x.key = y.key => x = y

\* What is stored, how large it is and how many blocks it takes can be read from the root.
LEMMA HoldsWhat ==
    ASSUME NEW t, NEW s, NEW b, NEW E, Holds(t, s, b, E)
    PROVE  /\ Stores(E) /\ b \in 0..(2 * Cardinality(Key))
           /\ t = Dangling => b = 0 /\ E = {}
           /\ t # Dangling => s = Cardinality(E) /\ b = Freed(t) /\ EntriesOf(t) = E
<1>1. Cardinality(Key) \in Nat
  BY KeysAre, FS_CardinalityType
<1>2. Stores({}) /\ Cardinality({}) = 0
  <2>1. IsFiniteSet({}) /\ Cardinality({}) = 0
    BY FS_EmptySet
  <2> QED BY <1>1, <2>1 DEF Stores
<1>3. CASE t = Dangling /\ b = 0 /\ E = {}
  BY <1>1, <1>2, <1>3
<1>4. CASE t = NULL /\ s = 0 /\ b = 0 /\ E = {}
  BY <1>1, <1>2, <1>4, NothingVisited, NeverDangling
<1>5. ASSUME NEW d, Kept(d, t, s, b), E = d.entries
      PROVE  /\ Stores(E) /\ b \in 0..(2 * Cardinality(Key))
             /\ t # Dangling /\ s = Cardinality(E) /\ b = Freed(t) /\ EntriesOf(t) = E
  <2>1. Tree(d) /\ d.node = t /\ s = Cardinality(d.entries) /\ b = Cardinality(d.places)
    BY <1>5 DEF Kept
  <2>2. /\ IsFiniteSet(d.entries) /\ Cardinality(d.entries) \in 0..Cardinality(Key)
        /\ Cardinality(d.places) \in 0..(2 * Cardinality(d.entries))
    BY <2>1, TreeFinite
  <2>3. Stores(E)
    <3>1. Sound(d)
      BY <2>1, TreeIs
    <3>2. \A x \in d.entries : x.value \in Value
      BY <3>1, KeysAre DEF Sound
    <3> QED BY <1>5, <2>2, <3>1, <3>2 DEF Stores, Sound
  <2>4. b \in 0..(2 * Cardinality(Key))
    BY <1>1, <2>1, <2>2
  <2> QED BY <1>5, <2>1, <2>3, <2>4, NeverDangling, FreedIs, EntriesAre
<1> QED BY <1>3, <1>4, <1>5 DEF Holds

-----------------------------------------------------------------------------
(* What the calls make of a tree and of what it stores.                     *)

\* What is found of a key, and what the calls make of the entries.
WithKey(E, k) == {x \in E : x.key = k}

Puts(E, E2, k, v, replace, old) ==
    /\ old = Map!ValueIn(WithKey(E, k))
    /\ E2 = IF replace \/ WithKey(E, k) = {}
            THEN (E \ WithKey(E, k)) \union {[key |-> k, value |-> v]} ELSE E

Takes(E, E2, k, old) == old = Map!ValueIn(WithKey(E, k)) /\ E2 = E \ WithKey(E, k)

\* What is found of a key: nothing, or one entry.
LEMMA FoundIs ==
    ASSUME NEW E, NEW k
    PROVE  /\ (\A x \in E : x.key # k) => WithKey(E, k) = {} /\ Map!ValueIn(WithKey(E, k)) = NoValue
           /\ \A x \in E : x.key = k /\ (\A y \in E : y.key = x.key => y = x) =>
                  WithKey(E, k) = {x} /\ Map!ValueIn(WithKey(E, k)) = x.value
<1>1. Map!ValueIn({}) = NoValue
  BY DEF Map!ValueIn
<1>2. ASSUME NEW x PROVE Map!ValueIn({x}) = x.value
  <2>1. (CHOOSE e \in {x} : TRUE) = x
    OBVIOUS
  <2>2. {x} # {}
    OBVIOUS
  <2> QED BY <2>1, <2>2 DEF Map!ValueIn
<1>3. ASSUME \A x \in E : x.key # k PROVE WithKey(E, k) = {}
  BY <1>3 DEF WithKey
<1>4. ASSUME NEW x \in E, x.key = k, \A y \in E : y.key = x.key => y = x
      PROVE  WithKey(E, k) = {x}
  BY <1>4 DEF WithKey
<1> QED BY <1>1, <1>2, <1>3, <1>4

\* A tree that stores E, with another node.
LEMMA KeptTree ==
    ASSUME NEW t, NEW P, NEW E, Tree(Sub(t, <<>>, P, E))
    PROVE  Holds(t, Cardinality(E), Cardinality(P), E)
<1> DEFINE d == Sub(t, <<>>, P, E)
<1>1. d.node = t /\ d.place = <<>> /\ d.places = P /\ d.entries = E /\ Tree(d)
  BY DEF Sub
<1> HIDE DEF d
<1>2. Kept(d, t, Cardinality(E), Cardinality(P)) /\ E = d.entries
  BY <1>1 DEF Kept
<1> QED BY <1>2 DEF Holds

\* What a tree stores.
LEMMA KeptIs ==
    ASSUME NEW d, Tree(d)
    PROVE  /\ \A x \in d.entries : x.key \in Key /\ x.value \in Value /\ x.value # NoValue
                                   /\ x = EntryOf(x.key, x.value)
           /\ \A x, y \in d.entries : x.key = y.key => x = y
           /\ IsFiniteSet(d.entries) /\ IsFiniteSet(d.places)
<1>1. Sound(d)
  BY TreeIs
<1>2. \A x \in d.entries : x.value \in Value
  BY <1>1, KeysAre DEF Sound
<1>3. NoValue \notin Value
  BY KeysAssumption
<1> QED BY <1>1, <1>2, <1>3, TreeFinite DEF Sound

\* One entry in the place of another.
LEMMA Exchanged ==
    ASSUME NEW E, IsFiniteSet(E), NEW x \in E, NEW y, y \notin E \ {x}
    PROVE  Cardinality((E \ {x}) \union {y}) = Cardinality(E)
<1> DEFINE R == E \ {x}
<1>1. IsFiniteSet(R) /\ Cardinality(R) = Cardinality(E) - 1 /\ Cardinality(E) \in Nat
  BY FS_RemoveElement, FS_CardinalityType
<1>2. y \notin R
  OBVIOUS
<1> HIDE DEF R
<1>3. Cardinality(R \union {y}) = Cardinality(R) + 1
  BY <1>1, <1>2, FS_AddElement
<1> QED BY <1>1, <1>3 DEF R

\* The tree after an insert, and what it stores.
InsertDone(t, s, b, E, E2, k, v, replace, r) ==
    /\ Holds(t, IF r.old = NoValue THEN s + 1 ELSE s, b + r.blocks, E2)
    /\ Puts(E, E2, k, v, replace, r.old)
    /\ r.old \in Value \union {NoValue}

\* What an insert makes of a tree, and of what it stores.
LEMMA InsertDoes ==
    ASSUME NEW k \in Key, NEW v \in ValuesOf[k], NEW replace \in BOOLEAN, NEW behind,
           NEW t, NEW s, NEW b, NEW E, Holds(t, s, b, E), t # Dangling,
           NEW e, e = End("insert", t, k, behind),
           NEW r, r = InsertAtEnd(e.node, make_leaf(k, v), e.depth, e.byte, replace)
    PROVE  \E E2 : InsertDone(Written(e.above, r.node), s, b, E, E2, k, v, replace, r)
<1>1. EntryOf(k, v) = [key |-> k, value |-> v]
  BY DEF EntryOf
<1>2. CASE t = NULL /\ s = 0 /\ b = 0 /\ E = {}
  <2> DEFINE l == make_leaf(k, v)
             E2 == {EntryOf(k, v)}
  <2>1. e = Place("insert", NULL, 0, <<>>, k, behind)
    BY <1>2, EndsAtOnce DEF AtEnd
  <2>2. e.node = NULL /\ e.above = <<>>
    BY <2>1 DEF Place
  <2>3. r.node = l /\ r.old = NoValue /\ r.blocks = 1
    BY <2>2 DEF InsertAtEnd, Inserted
  <2>4. Written(e.above, r.node) = l
    BY <2>2, <2>3, WrittenIs
  <2>5. k \in Seq(Byte) /\ <<>> \in Seq(Byte)
    BY KeysAre
  <2>6. Begins(k, <<>>)
    BY <2>5, BeginsSelf
  <2>7. Tree(Sub(l, <<>>, {<<>>}, E2))
    BY ONLY <2>5, <2>6, k \in Key, v \in ValuesOf[k], LeafTree
  <2>8. Holds(l, Cardinality(E2), Cardinality({<<>>}), E2)
    <3> HIDE DEF E2, l
    <3> QED BY <2>7, KeptTree
  <2>9. Cardinality(E2) = 1 /\ Cardinality({<<>>}) = 1
    BY FS_Singleton
  <2>10. Holds(l, 1, 1, E2)
    BY <2>8, <2>9
  <2>11. Puts(E, E2, k, v, replace, NoValue)
    <3>1. WithKey(E, k) = {} /\ Map!ValueIn(WithKey(E, k)) = NoValue
      BY <1>2, FoundIs
    <3>2. E2 = (E \ {}) \union {[key |-> k, value |-> v]}
      BY <1>1, <1>2
    <3> HIDE DEF E2
    <3> QED BY <3>1, <3>2 DEF Puts
  <2> HIDE DEF E2, l
  <2>12. InsertDone(l, s, b, E, E2, k, v, replace, r)
    BY <1>2, <2>3, <2>10, <2>11 DEF InsertDone
  <2> QED BY <2>4, <2>12
<1>3. ASSUME NEW d, Kept(d, t, s, b), E = d.entries
      PROVE  \E E2 : InsertDone(Written(e.above, r.node), s, b, E, E2, k, v, replace, r)
  <2> DEFINE T == Written(e.above, r.node)
  <2>1. Tree(d) /\ d.place = <<>> /\ d.node = t /\ s = Cardinality(E) /\ b = Cardinality(d.places)
    BY <1>3 DEF Kept
  <2>2. InsertMakes(d, T, k, v, replace, r)
    <3>1. e = End("insert", d.node, k, behind)
      BY <2>1
    <3> QED BY ONLY <2>1, <3>1, k \in Key, v \in ValuesOf[k],
                    r = InsertAtEnd(e.node, make_leaf(k, v), e.depth, e.byte, replace), InsertIs
  <2>3. /\ \A x \in E : x.key \in Key /\ x.value \in Value /\ x.value # NoValue
                        /\ x = EntryOf(x.key, x.value)
        /\ \A x, y \in E : x.key = y.key => x = y
        /\ IsFiniteSet(E) /\ IsFiniteSet(d.places)
    BY <1>3, <2>1, KeptIs
  <2> HIDE DEF T
  <2>4. s \in Nat /\ b \in Nat
    BY <2>1, <2>3, FS_CardinalityType
  <2>5. CASE r.blocks = 0 /\ Replaced(d, T, k, v, replace, r.old)
    <3>1. PICK x \in E : /\ x.key = k /\ r.old = x.value
                         /\ Tree(Sub(T, d.place, d.places, (E \ {x}) \union
                                                           {EntryOf(k, IF replace THEN v ELSE x.value)}))
      BY <1>3, <2>5 DEF Replaced
    <3> DEFINE y == EntryOf(k, IF replace THEN v ELSE x.value)
               E2 == (E \ {x}) \union {y}
    <3>2. Holds(T, Cardinality(E2), b, E2)
      <4>1. Tree(Sub(T, <<>>, d.places, E2))
        BY <2>1, <3>1
      <4> HIDE DEF E2
      <4> QED BY <2>1, <4>1, KeptTree
    <3>3. y.key = k
      BY DEF EntryOf
    <3>4. Cardinality(E2) = s
      <4>1. y \notin E \ {x}
        BY <2>3, <3>1, <3>3
      <4> HIDE DEF y
      <4> QED BY <2>1, <2>3, <4>1, Exchanged
    <3>5. r.old # NoValue /\ r.old \in Value
      BY <2>3, <3>1
    <3>6. Puts(E, E2, k, v, replace, r.old)
      <4>1. WithKey(E, k) = {x} /\ Map!ValueIn(WithKey(E, k)) = x.value
        BY <2>3, <3>1, FoundIs
      <4>2. replace => y = [key |-> k, value |-> v]
        BY DEF EntryOf
      <4>3. ~replace => y = x
        BY <2>3, <3>1
      <4>4. E2 = IF replace THEN (E \ {x}) \union {[key |-> k, value |-> v]} ELSE E
        <5> HIDE DEF y
        <5>1. CASE replace
          BY <4>2, <5>1
        <5>2. CASE ~replace
          BY <4>3, <5>2
        <5> QED BY <5>1, <5>2
      <4> HIDE DEF E2
      <4>5. {x} # {}
        OBVIOUS
      <4> QED BY <3>1, <4>1, <4>4, <4>5 DEF Puts
    <3> HIDE DEF E2
    <3>7. b + r.blocks = b
      BY <2>4, <2>5
    <3>8. InsertDone(T, s, b, E, E2, k, v, replace, r)
      BY <3>2, <3>4, <3>5, <3>6, <3>7 DEF InsertDone
    <3> QED BY <3>8 DEF T
  <2>6. CASE r.old = NoValue /\ r.blocks \in 1..2 /\ Grows(d, T, k, v, r.blocks)
    <3> DEFINE E2 == E \union {EntryOf(k, v)}
    <3>1. PICK Q : More(d.places, Q, r.blocks) /\ Tree(Sub(T, <<>>, Q, E2))
      BY <1>3, <2>1, <2>6 DEF Grows
    <3>2. \A x \in E : x.key # k
      BY <1>3, <2>6 DEF Grows
    <3>3. Cardinality(Q) = b + r.blocks
      BY <2>1, <2>3, <3>1, CountedMore
    <3>4. Cardinality(E2) = s + 1
      <4>1. EntryOf(k, v).key = k
        BY DEF EntryOf
      <4>2. EntryOf(k, v) \notin E
        BY <3>2, <4>1
      <4> QED BY <2>1, <2>3, <4>2, FS_AddElement
    <3>5. Puts(E, E2, k, v, replace, NoValue)
      <4>1. WithKey(E, k) = {} /\ Map!ValueIn(WithKey(E, k)) = NoValue
        BY <3>2, FoundIs
      <4>2. E2 = (E \ {}) \union {[key |-> k, value |-> v]}
        BY <1>1
      <4> HIDE DEF E2
      <4> QED BY <4>1, <4>2 DEF Puts
    <3> HIDE DEF E2
    <3>6. Holds(T, s + 1, b + r.blocks, E2)
      BY <3>1, <3>3, <3>4, KeptTree
    <3>7. InsertDone(T, s, b, E, E2, k, v, replace, r)
      BY <2>6, <3>5, <3>6 DEF InsertDone
    <3> QED BY <3>7 DEF T
  <2> QED BY <2>2, <2>5, <2>6 DEF InsertMakes
<1> QED BY <1>2, <1>3 DEF Holds

\* Places and entries are at least as many as are taken.
LEMMA FewerLeft ==
    ASSUME NEW E, IsFiniteSet(E), NEW x \in E
    PROVE  Cardinality(E \ {x}) = Cardinality(E) - 1
  BY FS_RemoveElement

\* The tree after a delete, and what it stores.
DeleteDone(t, s, b, E, E2, k, r) ==
    /\ Holds(t, IF r.old # NoValue THEN s - 1 ELSE s, b - r.blocks, E2)
    /\ Takes(E, E2, k, r.old)
    /\ r.old \in Value \union {NoValue}

\* What a delete makes of a tree, and of what it stores.
LEMMA DeleteDoes ==
    ASSUME NEW k \in Key, NEW behind \in Byte,
           NEW t, NEW s, NEW b, NEW E, Holds(t, s, b, E), t # Dangling,
           NEW e, e = End("delete", t, k, behind),
           NEW r, r = DeleteAtEnd(e.node, k, e.depth, e.byte)
    PROVE  \E E2 : DeleteDone(Written(e.above, r.node), s, b, E, E2, k, r)
<1>2. CASE t = NULL /\ s = 0 /\ b = 0 /\ E = {}
  <2>1. e = Place("delete", NULL, 0, <<>>, k, behind)
    BY <1>2, EndsAtOnce DEF AtEnd
  <2>2. e.node = NULL /\ e.above = <<>>
    BY <2>1 DEF Place
  <2>3. r.node = NULL /\ r.old = NoValue /\ r.blocks = 0
    BY <2>2 DEF DeleteAtEnd, Deleted
  <2>4. Written(e.above, r.node) = NULL
    BY <2>2, <2>3, WrittenIs
  <2>5. Takes(E, {}, k, NoValue)
    <3>1. WithKey(E, k) = {} /\ Map!ValueIn(WithKey(E, k)) = NoValue
      BY <1>2, FoundIs
    <3> QED BY <1>2, <3>1 DEF Takes
  <2>6. Holds(NULL, 0, 0, {})
    BY DEF Holds
  <2>7. DeleteDone(NULL, s, b, E, {}, k, r)
    BY <1>2, <2>3, <2>5, <2>6 DEF DeleteDone
  <2> QED BY <2>4, <2>7
<1>3. ASSUME NEW d, Kept(d, t, s, b), E = d.entries
      PROVE  \E E2 : DeleteDone(Written(e.above, r.node), s, b, E, E2, k, r)
  <2> DEFINE T == Written(e.above, r.node)
  <2>1. Tree(d) /\ d.place = <<>> /\ d.node = t /\ s = Cardinality(E) /\ b = Cardinality(d.places)
    BY <1>3 DEF Kept
  <2>2. DeleteMakes(d, T, k, r)
    <3>1. e = End("delete", d.node, k, behind)
      BY <2>1
    <3> QED BY ONLY <2>1, <3>1, k \in Key, behind \in Byte,
                    r = DeleteAtEnd(e.node, k, e.depth, e.byte), DeleteIs
  <2>3. /\ \A x \in E : x.key \in Key /\ x.value \in Value /\ x.value # NoValue
                        /\ x = EntryOf(x.key, x.value)
        /\ \A x, y \in E : x.key = y.key => x = y
        /\ IsFiniteSet(E) /\ IsFiniteSet(d.places)
    BY <1>3, <2>1, KeptIs
  <2> HIDE DEF T
  <2>4. s \in Nat /\ b \in Nat
    BY <2>1, <2>3, FS_CardinalityType
  <2>5. CASE /\ r.old = NoValue /\ r.blocks = 0 /\ \A x \in d.entries : x.key # k
             /\ Stays(d, T)
    <3>1. Holds(T, s, b, E)
      <4>1. Tree(Sub(T, <<>>, d.places, E))
        BY <1>3, <2>1, <2>5 DEF Stays
      <4> QED BY <2>1, <4>1, KeptTree
    <3>2. Takes(E, E, k, NoValue)
      <4>1. WithKey(E, k) = {} /\ Map!ValueIn(WithKey(E, k)) = NoValue
        BY <1>3, <2>5, FoundIs
      <4> QED BY <4>1 DEF Takes
    <3>3. b - r.blocks = b
      BY <2>4, <2>5
    <3>4. DeleteDone(T, s, b, E, E, k, r)
      BY <2>5, <3>1, <3>2, <3>3 DEF DeleteDone
    <3> QED BY <3>4 DEF T
  <2>6. ASSUME NEW x \in d.entries, x.key = k, r.old = x.value, r.blocks \in 1..2,
               Shrinks(d, T, x, r.blocks)
        PROVE  \E E2 : DeleteDone(T, s, b, E, E2, k, r)
    <3> DEFINE E2 == E \ {x}
    <3>1. r.old # NoValue /\ r.old \in Value
      BY <1>3, <2>3, <2>6
    <3>2. Takes(E, E2, k, r.old)
      <4>1. WithKey(E, k) = {x} /\ Map!ValueIn(WithKey(E, k)) = x.value
        BY <1>3, <2>3, <2>6, FoundIs
      <4> QED BY <2>6, <4>1 DEF Takes
    <3>3. Cardinality(E2) = s - 1
      BY <1>3, <2>1, <2>3, FewerLeft
    <3>4. Holds(T, s - 1, b - r.blocks, E2)
      <4>1. CASE T = NULL /\ d.entries = {x} /\ d.places = {d.place} /\ r.blocks = 1
        <5>1. s = 1 /\ b = 1
          BY <1>3, <2>1, <4>1, FS_Singleton
        <5>2. E2 = {}
          BY <1>3, <4>1
        <5>3. s - 1 = 0 /\ b - r.blocks = 0
          BY <4>1, <5>1
        <5> HIDE DEF E2
        <5> QED BY <4>1, <5>2, <5>3 DEF Holds
      <4>2. CASE OneEntryLess(d, T, x, r.blocks)
        <5>1. PICK Q : Fewer(d.places, Q, r.blocks) /\ Tree(Sub(T, <<>>, Q, E2))
          BY <1>3, <2>1, <4>2 DEF OneEntryLess
        <5>2. Cardinality(Q) = b - r.blocks
          BY <2>1, <2>3, <5>1, CountedLess
        <5> HIDE DEF E2
        <5> QED BY <3>3, <5>1, <5>2, KeptTree
      <4> QED BY <2>6, <4>1, <4>2 DEF Shrinks
    <3> HIDE DEF E2
    <3>5. DeleteDone(T, s, b, E, E2, k, r)
      BY <3>1, <3>2, <3>4 DEF DeleteDone
    <3> QED BY <3>5
  <2> HIDE DEF Stays
  <2>7. \E E2 : DeleteDone(T, s, b, E, E2, k, r)
    BY <2>2, <2>5, <2>6 DEF DeleteMakes, T
  <2> QED BY <2>7 DEF T
<1> QED BY <1>2, <1>3 DEF Holds

-----------------------------------------------------------------------------
(* The invariant and the steps.                                             *)

\* What is allocated and what the size counts is the tree, with some entries.
Shape == \E E : Holds(root, size, blocks, E)

\* The inductive invariant.
Inv ==
    /\ Shape
    /\ call.op \in {"insert", "delete", "clear"} /\ answer \in Value \union {NoValue}

\* What an insert does to the map.
LEMMA InsertStep ==
    ASSUME NEW E, Holds(root, size, blocks, E), NEW k \in Key, NEW v \in ValuesOf[k],
           NEW replace \in BOOLEAN, Insert(k, v, replace)
    PROVE  \E E2 : /\ Holds(root', size', blocks', E2) /\ Puts(E, E2, k, v, replace, answer')
                   /\ answer' \in Value \union {NoValue} /\ root # Dangling
<1>0. PICK behind \in Behind : \E e, r :
          /\ e = End("insert", root, k, behind)
          /\ r = InsertAtEnd(e.node, make_leaf(k, v), e.depth, e.byte, replace)
          /\ root' = Written(e.above, r.node)
          /\ size' = IF r.old = NoValue THEN size + 1 ELSE size
          /\ answer' = r.old
          /\ blocks' = blocks + r.blocks
  BY DEF Insert
<1>1. PICK e, r :
          /\ e = End("insert", root, k, behind)
          /\ r = InsertAtEnd(e.node, make_leaf(k, v), e.depth, e.byte, replace)
          /\ root' = Written(e.above, r.node)
          /\ size' = IF r.old = NoValue THEN size + 1 ELSE size
          /\ answer' = r.old
          /\ blocks' = blocks + r.blocks
  BY <1>0
<1>2. root # Dangling
  BY DEF Insert
<1>3. \E E2 : InsertDone(Written(e.above, r.node), size, blocks, E, E2, k, v, replace, r)
  BY <1>1, <1>2, InsertDoes
<1>4. PICK E2 : InsertDone(root', size, blocks, E, E2, k, v, replace, r)
  BY <1>1, <1>3
<1> QED BY <1>1, <1>2, <1>4 DEF InsertDone

\* What a delete does to the map.
LEMMA DeleteStep ==
    ASSUME NEW E, Holds(root, size, blocks, E), NEW k \in Key, art_delete(k)
    PROVE  \E E2 : /\ Holds(root', size', blocks', E2) /\ Takes(E, E2, k, answer')
                   /\ answer' \in Value \union {NoValue} /\ root # Dangling
<1>0. PICK behind \in Behind : \E e, r :
          /\ e = End("delete", root, k, behind)
          /\ r = DeleteAtEnd(e.node, k, e.depth, e.byte)
          /\ root' = Written(e.above, r.node)
          /\ size' = IF r.old # NoValue THEN size - 1 ELSE size
          /\ answer' = r.old
          /\ blocks' = blocks - r.blocks
  BY DEF art_delete
<1>1. PICK e, r :
          /\ e = End("delete", root, k, behind)
          /\ r = DeleteAtEnd(e.node, k, e.depth, e.byte)
          /\ root' = Written(e.above, r.node)
          /\ size' = IF r.old # NoValue THEN size - 1 ELSE size
          /\ answer' = r.old
          /\ blocks' = blocks - r.blocks
  BY <1>0
<1>2. root # Dangling /\ behind \in Byte
  BY KeysAre DEF art_delete
<1>3. \E E2 : DeleteDone(Written(e.above, r.node), size, blocks, E, E2, k, r)
  BY <1>1, <1>2, DeleteDoes
<1>4. PICK E2 : DeleteDone(root', size, blocks, E, E2, k, r)
  BY <1>1, <1>3
<1> QED BY <1>1, <1>2, <1>4 DEF DeleteDone

\* What making and ending a tree do.
LEMMA ClearStep ==
    ASSUME NEW E, Holds(root, size, blocks, E), art_tree_init \/ art_tree_destroy
    PROVE  Holds(root', size', blocks', {}) /\ call' = NoArguments /\ answer' = NoValue
<1>1. CASE art_tree_init
  <2>1. root = Dangling /\ root' = NULL /\ size' = 0 /\ blocks' = blocks
    BY <1>1 DEF art_tree_init
  <2>2. blocks = 0
    BY <2>1, HoldsWhat
  <2> QED BY <1>1, <2>1, <2>2 DEF art_tree_init, Holds
<1>2. CASE art_tree_destroy
  <2>1. root # Dangling /\ root' = Dangling /\ blocks' = blocks - Freed(root)
    BY <1>2 DEF art_tree_destroy
  <2>2. blocks = Freed(root) /\ blocks \in Nat
    <3>1. Cardinality(Key) \in Nat
      BY KeysAre, FS_CardinalityType
    <3> QED BY <2>1, <3>1, HoldsWhat
  <2>3. blocks' = 0
    BY <2>1, <2>2
  <2> QED BY <1>2, <2>1, <2>3 DEF art_tree_destroy, Holds
<1> QED BY <1>1, <1>2

\* The invariant holds at the start.
LEMMA InvInit == Init => Inv
<1> SUFFICES ASSUME Init
             PROVE  Inv
  OBVIOUS
<1>1. Holds(root, size, blocks, {})
  BY DEF Init, Holds
<1>2. call.op = "clear" /\ answer = NoValue
  BY DEF Init, NoArguments
<1> QED BY <1>1, <1>2 DEF Inv, Shape

\* Every step preserves the invariant.
LEMMA InvNext == Inv /\ [Next]_vars => Inv'
<1> SUFFICES ASSUME Inv, [Next]_vars
             PROVE  Inv'
  OBVIOUS
<1>1. PICK E : Holds(root, size, blocks, E)
  BY DEF Inv, Shape
<1>2. ASSUME NEW k \in Key, NEW v \in ValuesOf[k], art_insert(k, v) PROVE Inv'
  <2>1. PICK E2 : Holds(root', size', blocks', E2) /\ answer' \in Value \union {NoValue}
    BY <1>1, <1>2, InsertStep DEF art_insert
  <2>2. call'.op = "insert"
    BY <1>2 DEF art_insert, InsertOf
  <2> QED BY <2>1, <2>2 DEF Inv, Shape
<1>3. ASSUME NEW k \in Key, NEW v \in ValuesOf[k], art_insert_no_replace(k, v) PROVE Inv'
  <2>1. PICK E2 : Holds(root', size', blocks', E2) /\ answer' \in Value \union {NoValue}
    BY <1>1, <1>3, InsertStep DEF art_insert_no_replace
  <2>2. call'.op = "insert"
    BY <1>3 DEF art_insert_no_replace, InsertOf
  <2> QED BY <2>1, <2>2 DEF Inv, Shape
<1>4. ASSUME NEW k \in Key, art_delete(k) PROVE Inv'
  <2>1. PICK E2 : Holds(root', size', blocks', E2) /\ answer' \in Value \union {NoValue}
    BY <1>1, <1>4, DeleteStep
  <2>2. call'.op = "delete"
    BY <1>4 DEF art_delete
  <2> QED BY <2>1, <2>2 DEF Inv, Shape
<1>5. CASE art_tree_init \/ art_tree_destroy
  <2>1. Holds(root', size', blocks', {}) /\ call' = NoArguments /\ answer' = NoValue
    BY <1>1, <1>5, ClearStep
  <2>2. call'.op = "clear"
    BY <2>1 DEF NoArguments
  <2> QED BY <2>1, <2>2 DEF Inv, Shape
<1>6. CASE UNCHANGED vars
  BY <1>6 DEF vars, Inv, Shape
<1> QED BY <1>2, <1>3, <1>4, <1>5, <1>6 DEF Next

\* The root is always a tree, or none, with what the size and the blocks count.
THEOREM InvAlways == Spec => []Inv
  BY InvInit, InvNext, PTL DEF Spec

-----------------------------------------------------------------------------
(* The theorems.                                                            *)

\* The size counts keys, and the blocks are no more than two for each key.
THEOREM TypeCorrect == Spec => []TypeOK
<1>1. Inv => TypeOK
  <2> SUFFICES ASSUME Inv
               PROVE  TypeOK
    OBVIOUS
  <2>1. PICK E : Holds(root, size, blocks, E)
    BY DEF Inv, Shape
  <2>2. /\ Stores(E) /\ blocks \in 0..(2 * Cardinality(Key))
        /\ root # Dangling => size = Cardinality(E)
    BY <2>1, HoldsWhat
  <2> QED BY <2>2 DEF TypeOK, Inv, Stores
<1> QED BY <1>1, InvAlways, PTL

\* Whatever has been allocated is in the tree where destroy_node finds it.
THEOREM NothingLeaksAlways == Spec => []NothingLeaks
<1>1. Inv => NothingLeaks
  <2> SUFFICES ASSUME Inv
               PROVE  NothingLeaks
    OBVIOUS
  <2>1. PICK E : Holds(root, size, blocks, E)
    BY DEF Inv, Shape
  <2> QED BY <2>1, HoldsWhat DEF NothingLeaks
<1> QED BY <1>1, InvAlways, PTL

\* art_search is exact.
THEOREM SearchAlwaysExact == Spec => []SearchExact
<1>1. Inv => SearchExact
  <2> SUFFICES ASSUME Inv, root # Dangling, NEW k \in Key, NEW behind \in Behind
               PROVE  {v \in {art_search(k, behind)} : v # NoValue} =
                          {e.value : e \in {f \in Entries : f.key = k}}
    BY DEF SearchExact
  <2>1. PICK E : Holds(root, size, blocks, E)
    BY DEF Inv, Shape
  <2>2. Entries = E
    BY <2>1, HoldsWhat DEF Entries, EntriesOf
  <2>3. behind \in Byte
    BY KeysAre
  <2> DEFINE a == art_search(k, behind)
  <2>4. /\ \A x \in E : x.key = k => a = x.value
        /\ (\A x \in E : x.key # k) => a = NoValue
    <3>1. CASE root = NULL /\ E = {}
      <4>1. End("search", root, k, behind) = Place("search", NULL, 0, <<>>, k, behind)
        BY <3>1, EndsAtOnce DEF AtEnd
      <4>2. End("search", root, k, behind).node = NULL
        BY <4>1 DEF Place
      <4>3. a = NoValue
        BY <4>2 DEF art_search
      <4> QED BY <3>1, <4>3
    <3>2. ASSUME NEW d, Kept(d, root, size, blocks), E = d.entries
          PROVE  /\ \A x \in E : x.key = k => a = x.value
                 /\ (\A x \in E : x.key # k) => a = NoValue
      <4>1. Tree(d) /\ d.place = <<>> /\ d.node = root
        BY <3>2 DEF Kept
      <4> QED BY <2>3, <3>2, <4>1, SearchIs
    <3> HIDE DEF a
    <3> QED BY <2>1, <3>1, <3>2 DEF Holds
  <2>5. \A x \in E : x.value # NoValue
    <3>1. \A x \in E : x.value \in Value
      BY <2>1, HoldsWhat DEF Stores
    <3> QED BY <3>1, KeysAre
  <2> HIDE DEF a
  <2>6. {v \in {a} : v # NoValue} = {e.value : e \in {f \in E : f.key = k}}
    <3>1. CASE \E x \in E : x.key = k
      <4>1. PICK x \in E : x.key = k
        BY <3>1
      <4>2. \A y \in E : y.key = k => y.value = x.value
        BY <2>4, <4>1
      <4>3. a = x.value /\ a # NoValue
        BY <2>4, <2>5, <4>1
      <4> QED BY <4>1, <4>2, <4>3
    <3>2. CASE \A x \in E : x.key # k
      BY <2>4, <3>2
    <3> QED BY <3>1, <3>2
  <2> QED BY <2>2, <2>6 DEF a
<1> QED BY <1>1, InvAlways, PTL

\* art_iter_prefix reports every key with the prefix.
THEOREM IterPrefixAlwaysComplete == Spec => []IterPrefixComplete
<1>1. Inv => IterPrefixComplete
  <2> SUFFICES ASSUME Inv, root # Dangling, NEW p \in Prefix, NEW behind \in Behind
               PROVE  WithPrefix(LeavesBelow(root), p) \subseteq Reported(p, behind)
    BY DEF IterPrefixComplete
  <2>1. PICK E : Holds(root, size, blocks, E)
    BY DEF Inv, Shape
  <2>2. CASE root = NULL
    <3>1. WithPrefix(LeavesBelow(root), p) = {}
      BY <2>2, NothingVisited DEF WithPrefix
    <3> QED BY <3>1
  <2>3. ASSUME NEW d, Kept(d, root, size, blocks)
        PROVE  WithPrefix(LeavesBelow(root), p) \subseteq Reported(p, behind)
    <3>1. Tree(d) /\ d.place = <<>> /\ d.node = root
      BY <2>3 DEF Kept
    <3>2. LeavesBelow(root) = {make_leaf(x.key, x.value) : x \in d.entries}
      BY <3>1, LeavesBelowIs
    <3> SUFFICES ASSUME NEW l \in LeavesBelow(root), leaf_prefix_matches(l, p)
                 PROVE  l \in Reported(p, behind)
      BY DEF WithPrefix
    <3>3. PICK x \in d.entries : l = make_leaf(x.key, x.value)
      BY <3>2
    <3>4. Begins(x.key, p)
      <4>1. l.key = x.key
        BY <3>3 DEF make_leaf
      <4> QED BY <4>1 DEF leaf_prefix_matches
    <3>5. PICK c : /\ Under(c, d) /\ IterNode(p, behind) = c.node
                   /\ \A y \in d.entries : Begins(y.key, p) => y \in c.entries
      BY <3>1, <3>4, IterIs
    <3>6. LeavesBelow(c.node) = {make_leaf(y.key, y.value) : y \in c.entries}
      BY <3>5, LeavesBelowIs DEF Under
    <3> QED BY <3>3, <3>4, <3>5, <3>6 DEF Reported
  <2> QED BY <2>1, <2>2, <2>3 DEF Holds
<1> QED BY <1>1, InvAlways, PTL

\* The inner nodes that are visited are those of a tree.
LEMMA InnerIs ==
    ASSUME Inv, root # Dangling, NEW e \in InnerVisited(root)
    PROVE  \E c, stem, child :
               Tree(c) /\ Children(c, stem, child) /\ c.node = e.node /\ e.depth = Len(c.place)
<1>1. PICK E : Holds(root, size, blocks, E)
  BY DEF Inv, Shape
<1>2. root # NULL
  BY NothingVisited DEF InnerVisited
<1>3. PICK d : Kept(d, root, size, blocks)
  BY <1>1, <1>2 DEF Holds
<1>4. Tree(d) /\ d.place = <<>> /\ d.node = root
  BY <1>3 DEF Kept
<1>5. PICK c, stem, child : /\ Under(c, d) /\ Children(c, stem, child) /\ c.node = e.node
                            /\ e.depth = Len(c.place) - Len(d.place)
  BY <1>4, InnerVisitedIs
<1>6. Tree(c) /\ c.place \in Seq(Byte)
  BY <1>5, NodeThere DEF Under
<1>7. Len(c.place) \in Nat /\ Len(d.place) = 0
  BY <1>4, <1>6
<1>8. e.depth = Len(c.place)
  BY <1>5, <1>7
<1> QED BY <1>5, <1>6, <1>8

\* A node in the tree has a number of children that its layout is for.
LEMMA FitsNodes ==
    ASSUME NEW n, Fits(n)
    PROVE  LET count == Cardinality(Present(n))
           IN  /\ n.num_children = count % ByteCount
               /\ count \in CASE n.type = "NODE4" -> 2..Max4
                              [] n.type = "NODE16" -> (Min16 + 1)..Max16
                              [] n.type = "NODE48" -> (Min48 + 1)..Max48
                              [] n.type = "NODE256" -> (Min256 + 1)..ByteCount
               /\ n.type = "NODE48" =>
                      Cardinality({p \in 1..Max48 : n.children[p] # NULL}) = count
<1> DEFINE count == Cardinality(Present(n))
<1>1. PICK C : NULL \notin C /\ WellFormed(n, C)
  BY DEF Fits
<1>2. n.num_children = count % ByteCount
  BY <1>1, PresentCounted
<1>3. n.type = "NODE48" => Cardinality({p \in 1..Max48 : n.children[p] # NULL}) = count
  BY <1>1, IndexedPresent
<1>4. Room(n, count)
  BY DEF Fits
<1>5. n.type \in Layouts
  BY <1>1 DEF WellFormed, Layouts
<1> HIDE DEF count
<1>6. count \in CASE n.type = "NODE4" -> 2..Max4
                  [] n.type = "NODE16" -> (Min16 + 1)..Max16
                  [] n.type = "NODE48" -> (Min48 + 1)..Max48
                  [] n.type = "NODE256" -> (Min256 + 1)..ByteCount
  <2>1. CASE n.type = "NODE4"
    BY <1>4, <2>1 DEF Room
  <2>2. CASE n.type = "NODE16"
    BY <1>4, <2>2 DEF Room
  <2>3. CASE n.type = "NODE48"
    BY <1>4, <2>3 DEF Room
  <2>4. CASE n.type = "NODE256"
    BY <1>4, <2>4 DEF Room
  <2> QED BY <1>5, <2>1, <2>2, <2>3, <2>4 DEF Layouts
<1> QED BY <1>2, <1>3, <1>6 DEF count

\* The layouts fit, and the counters count.
THEOREM NodesAlwaysFit == Spec => []NodesFit
<1>1. Inv => NodesFit
  <2> SUFFICES ASSUME Inv, root # Dangling, NEW e \in InnerVisited(root)
               PROVE  LET n == e.node
                          count == Cardinality(Present(n))
                      IN  /\ n.num_children = count % ByteCount
                          /\ count \in CASE n.type = "NODE4" -> 2..Max4
                                         [] n.type = "NODE16" -> (Min16 + 1)..Max16
                                         [] n.type = "NODE48" -> (Min48 + 1)..Max48
                                         [] n.type = "NODE256" -> (Min256 + 1)..ByteCount
                          /\ n.type = "NODE48" =>
                                Cardinality({p \in 1..Max48 : n.children[p] # NULL}) = count
    BY DEF NodesFit
  <2>1. Fits(e.node)
    BY InnerIs DEF Children, InnerSub
  <2> QED BY <2>1, FitsNodes
<1> QED BY <1>1, InvAlways, PTL

\* What a key has in common with the stem that it begins with.
LEMMA StemOn ==
    ASSUME NEW k \in Seq(Byte), NEW stem \in Seq(Byte), Begins(k, stem), NEW p \in Nat,
           p <= Len(stem)
    PROVE  SubSeq(k, 1, Len(stem)) = stem /\ SubSeq(k, p + 1, Len(stem)) = From(stem, p)
<1> DEFINE m == Len(stem)
           s == SubSeq(k, p + 1, m)
           u == SubSeq(stem, p + 1, m)
<1>1. SubSeq(k, 1, m) = stem /\ m \in Nat /\ m <= Len(k)
  BY DEF Begins
<1>2. \A i \in 1..m : k[i] = stem[i]
  BY BeginsIf
<1>3. /\ s \in Seq(Byte) /\ Len(s) = m - p
      /\ \A x \in 1..(m - p) : s[x] = k[p + x]
  <2> HIDE DEF m
  <2>1. /\ SubSeq(k, p + 1, m) \in Seq(Byte)
        /\ Len(SubSeq(k, p + 1, m)) = IF p <= m THEN m - p ELSE 0
        /\ \A x \in 1..(m - p) : SubSeq(k, p + 1, m)[x] = k[p + x]
    BY <1>1, PartOf
  <2> QED BY <2>1 DEF m
<1>4. /\ u \in Seq(Byte) /\ Len(u) = m - p
      /\ \A x \in 1..(m - p) : u[x] = stem[p + x]
  <2>1. m <= Len(stem)
    BY <1>1
  <2> HIDE DEF m
  <2>2. /\ SubSeq(stem, p + 1, m) \in Seq(Byte)
        /\ Len(SubSeq(stem, p + 1, m)) = IF p <= m THEN m - p ELSE 0
        /\ \A x \in 1..(m - p) : SubSeq(stem, p + 1, m)[x] = stem[p + x]
    BY <1>1, <2>1, PartOf
  <2> QED BY <2>2 DEF m
<1>5. \A x \in 1..(m - p) : k[p + x] = stem[p + x]
  <2> HIDE DEF m
  <2>1. \A x \in 1..(m - p) : p + x \in 1..m
    BY <1>1
  <2> QED BY <1>2, <2>1
<1> HIDE DEF s, u
<1>6. \A i \in 1..Len(s) : s[i] = u[i]
  BY <1>3, <1>4, <1>5
<1>7. s = u
  BY <1>3, <1>4, <1>6, SameSeq
<1> QED BY <1>1, <1>7 DEF s, u, From

\* The way to a leaf is what its key says.
THEOREM PathsAlwaysSpellKeys == Spec => []PathsSpellKeys
<1>1. Inv => PathsSpellKeys
  <2> SUFFICES ASSUME Inv, root # Dangling, NEW e \in InnerVisited(root),
                      NEW b \in Present(e.node), NEW l \in LeavesBelow(find_child(e.node, b))
               PROVE  LET deeper == e.depth + e.node.partial_len
                      IN  /\ deeper < Len(l.key) /\ l.key[deeper + 1] = b
                          /\ e.node.partial = Stored(SubSeq(l.key, e.depth + 1, deeper))
                          /\ SubSeq(l.key, 1, deeper) = SubSeq(minimum(e.node).key, 1, deeper)
    BY DEF PathsSpellKeys
  <2>1. PICK c, stem, child :
            Tree(c) /\ Children(c, stem, child) /\ c.node = e.node /\ e.depth = Len(c.place)
    BY InnerIs
  <2>2. /\ stem \in Seq(Byte) /\ c.place \in Seq(Byte) /\ Len(c.place) <= Len(stem)
        /\ c.node.partial_len = Len(stem) - Len(c.place)
        /\ c.node.partial = Stored(From(stem, Len(c.place)))
        /\ child[b].node = find_child(c.node, b) /\ child[b].place = Append(stem, b)
        /\ Tree(child[b]) /\ b \in Byte
    BY <2>1, NodeThere DEF Children, InnerSub, Begins, Present
  <2>3. e.depth + e.node.partial_len = Len(stem) /\ Len(stem) \in Nat /\ Len(c.place) \in Nat
    <3>1. Len(stem) \in Nat /\ Len(c.place) \in Nat
      BY <2>2
    <3>2. e.node.partial_len = Len(stem) - Len(c.place) /\ e.depth = Len(c.place)
      BY <2>1, <2>2
    <3> QED BY ONLY <3>1, <3>2
  <2>4. PICK x \in child[b].entries : l = make_leaf(x.key, x.value)
    <3>1. LeavesBelow(child[b].node) = {make_leaf(x.key, x.value) : x \in child[b].entries}
      BY <2>2, LeavesBelowIs
    <3> QED BY <2>1, <2>2, <3>1
  <2>5. l.key = x.key
    BY <2>4 DEF make_leaf
  <2>6. x.key \in Seq(Byte) /\ Begins(x.key, Append(stem, b))
    <3>1. Sound(child[b])
      BY <2>2, TreeIs
    <3>2. x.key \in Key /\ Begins(x.key, child[b].place)
      BY <2>4, <3>1 DEF Sound
    <3> QED BY <2>2, <3>2, KeysAre
  <2>7. Begins(x.key, stem) /\ Len(stem) < Len(x.key) /\ x.key[Len(stem) + 1] = b
    BY <2>2, <2>6, BeginsMore
  <2>8. SubSeq(x.key, 1, Len(stem)) = stem
        /\ SubSeq(x.key, Len(c.place) + 1, Len(stem)) = From(stem, Len(c.place))
    BY <2>2, <2>3, <2>6, <2>7, StemOn
  <2>9. PICK y \in c.entries : minimum(c.node) = make_leaf(y.key, y.value)
    BY <2>1, MinimumIs
  <2>10. minimum(e.node).key = y.key
    BY <2>1, <2>9 DEF make_leaf
  <2>11. y.key \in Seq(Byte) /\ Begins(y.key, stem)
    BY <2>1, <2>9, Below
  <2>12. SubSeq(y.key, 1, Len(stem)) = stem
    BY <2>2, <2>3, <2>11, StemOn
  <2>13. e.node.partial = Stored(SubSeq(l.key, e.depth + 1, Len(stem)))
    BY <2>1, <2>2, <2>5, <2>8
  <2>14. SubSeq(l.key, 1, Len(stem)) = SubSeq(minimum(e.node).key, 1, Len(stem))
    BY <2>5, <2>8, <2>10, <2>12
  <2> QED BY <2>3, <2>5, <2>7, <2>13, <2>14
<1> QED BY <1>1, InvAlways, PTL

\* What the map of the tree is.
LEMMA EntriesHeld ==
    ASSUME NEW E, Holds(root, size, blocks, E)
    PROVE  /\ Entries = E
           /\ (IF root = Dangling THEN 0 ELSE size) = Cardinality(E)
<1>1. CASE root = Dangling
  BY <1>1, HoldsWhat, FS_EmptySet DEF Entries
<1>2. CASE root # Dangling
  BY <1>2, HoldsWhat DEF Entries, EntriesOf
<1> QED BY <1>1, <1>2

\* The same after a call.
LEMMA EntriesHeldNext ==
    ASSUME NEW E, Holds(root', size', blocks', E)
    PROVE  /\ Entries' = E
           /\ (IF root' = Dangling THEN 0 ELSE size') = Cardinality(E)
<1>1. CASE root' = Dangling
  <2>1. E = {}
    BY <1>1, HoldsWhat
  <2> QED BY <1>1, <2>1, FS_EmptySet DEF Entries
<1>2. CASE root' # Dangling
  <2>1. size' = Cardinality(E) /\ EntriesOf(root') = E
    BY <1>2, HoldsWhat
  <2> QED BY <1>2, <2>1 DEF Entries, EntriesOf
<1> QED BY <1>1, <1>2

\* The map counts with a cardinality of its own, which is the same.
LEMMA CountedAlike == ASSUME NEW S PROVE Map!Cardinality(S) = Cardinality(S)
  BY Zenon DEF Cardinality, Map!Cardinality

\* An insert is one of the map.
LEMMA InsertMaps ==
    ASSUME Inv, NEW k \in Key, NEW v \in ValuesOf[k], NEW replace \in BOOLEAN,
           call' = InsertOf(k, v, replace), Insert(k, v, replace)
    PROVE  Map!Insert(k, v, replace)
<1>1. PICK E : Holds(root, size, blocks, E)
  BY DEF Inv, Shape
<1>2. PICK E2 : Holds(root', size', blocks', E2) /\ Puts(E, E2, k, v, replace, answer')
  BY <1>1, InsertStep
<1>3. Entries = E /\ Entries' = E2 /\ (IF root' = Dangling THEN 0 ELSE size') = Cardinality(E2)
  BY <1>1, <1>2, EntriesHeld, EntriesHeldNext
<1>4. Map!Of(k) = WithKey(E, k)
  BY <1>3 DEF Map!Of, WithKey
<1>5. call' = Map!InsertOf(k, v, replace)
  BY DEF InsertOf, Map!InsertOf
<1>6. Map!Counted
  BY <1>3, CountedAlike DEF Map!Counted
<1> DEFINE found == WithKey(E, k)
<1>7. /\ answer' = Map!ValueIn(found)
      /\ E2 = IF replace \/ found = {} THEN (E \ found) \union {[key |-> k, value |-> v]} ELSE E
  BY <1>2 DEF Puts
<1> HIDE DEF found
<1>8. \E f \in {Map!Of(k)} :
          /\ answer' = Map!ValueIn(f)
          /\ Entries' = IF replace \/ f = {}
                        THEN (Entries \ f) \union {[key |-> k, value |-> v]} ELSE Entries
  BY <1>3, <1>4, <1>7 DEF found
<1> QED BY <1>5, <1>6, <1>8 DEF Map!Insert

\* A delete is one of the map.
LEMMA DeleteMaps ==
    ASSUME Inv, NEW k \in Key, art_delete(k)
    PROVE  Map!Delete(k)
<1>1. PICK E : Holds(root, size, blocks, E)
  BY DEF Inv, Shape
<1>2. PICK E2 : Holds(root', size', blocks', E2) /\ Takes(E, E2, k, answer')
  BY <1>1, DeleteStep
<1>3. Entries = E /\ Entries' = E2 /\ (IF root' = Dangling THEN 0 ELSE size') = Cardinality(E2)
  BY <1>1, <1>2, EntriesHeld, EntriesHeldNext
<1>4. Map!Of(k) = WithKey(E, k)
  BY <1>3 DEF Map!Of, WithKey
<1>5. call' = Map!DeleteOf(k)
  BY DEF art_delete, Map!DeleteOf
<1>6. Map!Counted
  BY <1>3, CountedAlike DEF Map!Counted
<1>7. answer' = Map!ValueIn(WithKey(E, k)) /\ E2 = E \ WithKey(E, k)
  BY <1>2 DEF Takes
<1>8. \E f \in {Map!Of(k)} : answer' = Map!ValueIn(f) /\ Entries' = Entries \ f
  BY <1>3, <1>4, <1>7
<1> QED BY <1>5, <1>6, <1>8 DEF Map!Delete

\* The start of the tree is that of the map.
LEMMA MapInit == Init => Map!Init
<1> SUFFICES ASSUME Init
             PROVE  Map!Init
  OBVIOUS
<1>1. Entries = {} /\ (IF root = Dangling THEN 0 ELSE size) = 0
  BY DEF Init, Entries
<1>2. call = Map!Cleared /\ answer = NoValue
  BY DEF Init, NoArguments, Map!Cleared
<1> QED BY <1>1, <1>2 DEF Map!Init

\* Every step is a step of the map or none.
LEMMA MapNext == Inv /\ [Next]_vars => [Map!Next]_Map!vars
<1> SUFFICES ASSUME Inv, [Next]_vars
             PROVE  [Map!Next]_Map!vars
  OBVIOUS
<1>1. \A k \in Key : ValuesOf[k] \subseteq Value
  BY KeysAre
<1>2. ASSUME NEW k \in Key, NEW v \in ValuesOf[k], art_insert(k, v) PROVE Map!Next
  <2>1. call' = InsertOf(k, v, TRUE) /\ Insert(k, v, TRUE)
    BY <1>2 DEF art_insert
  <2>2. Map!Insert(k, v, TRUE)
    BY <2>1, InsertMaps
  <2>3. v \in Value
    BY <1>1
  <2> QED BY <2>2, <2>3 DEF Map!Next
<1>3. ASSUME NEW k \in Key, NEW v \in ValuesOf[k], art_insert_no_replace(k, v) PROVE Map!Next
  <2>1. call' = InsertOf(k, v, FALSE) /\ Insert(k, v, FALSE)
    BY <1>3 DEF art_insert_no_replace
  <2>2. Map!Insert(k, v, FALSE)
    BY <2>1, InsertMaps
  <2>3. v \in Value
    BY <1>1
  <2> QED BY <2>2, <2>3 DEF Map!Next
<1>4. ASSUME NEW k \in Key, art_delete(k) PROVE Map!Next
  BY <1>4, DeleteMaps DEF Map!Next
<1>5. CASE art_tree_init \/ art_tree_destroy
  <2>1. PICK E : Holds(root, size, blocks, E)
    BY DEF Inv, Shape
  <2>2. Holds(root', size', blocks', {}) /\ call' = NoArguments /\ answer' = NoValue
    BY <1>5, <2>1, ClearStep
  <2>3. Entries' = {} /\ (IF root' = Dangling THEN 0 ELSE size') = 0
    BY <2>2, EntriesHeldNext, FS_EmptySet
  <2>4. call' = Map!Cleared
    BY <2>2 DEF NoArguments, Map!Cleared
  <2>5. Map!Clear
    BY <2>2, <2>3, <2>4 DEF Map!Clear
  <2> QED BY <2>5 DEF Map!Next
<1>6. CASE UNCHANGED vars
  <2>1. UNCHANGED Map!vars
    BY <1>6 DEF vars, Map!vars, Entries
  <2> QED BY <2>1
<1> QED BY <1>2, <1>3, <1>4, <1>5, <1>6 DEF Next

\* The tree implements the map: each call changes its own key only and returns the value
\* the key had, and the size counts the keys.
THEOREM MapImplemented == Spec => ImplementsMap
<1>1. Spec => Map!Spec
  BY InvAlways, MapInit, MapNext, PTL DEF Spec, Map!Spec
<1> QED BY <1>1 DEF ImplementsMap

-----------------------------------------------------------------------------
(* The order.                                                               *)

\* The leaves of a tree in order are visited in the order of their keys.
LEMMA LeavesInOrder ==
    ASSUME NEW d, Tree(d), Ordered(d.node),
           NEW e \in LeafVisits(d.node), NEW f \in LeafVisits(d.node)
    PROVE  IteratedBefore(e, f) <=> Before(e.node.key, f.node.key)
<1> DEFINE V == Visited(d.node)
<1>1. PICK g : Seen(V, g, Longest, d) /\ OrderSeen(V, g)
  BY VisitedSeen
<1>2. e \in V /\ f \in V /\ IS_LEAF(e.node) /\ IS_LEAF(f.node)
  BY DEF LeafVisits
<1> HIDE DEF V
<1>3. ASSUME NEW x \in V, IS_LEAF(x.node)
      PROVE  /\ x.node.key \in Seq(Nat) /\ g[x].place \in Seq(Nat) /\ x.way \in Seq(Nat)
             /\ Starts(x.node.key, g[x].place) /\ g[x].places = {g[x].place}
             /\ g[x].place \in Seq(Byte) /\ Under(g[x], d) /\ g[x].place \in d.places
  <2>1. PICK k, v : LeafSub(g[x], k, v)
    BY <1>1, <1>3, LastLeaves DEF AtEnd
  <2>2. Under(g[x], d) /\ g[x].node = x.node /\ x.way \in Seq(Nat) /\ g[x].place \in Seq(Byte)
    BY <1>1, NodeThere DEF Seen, Sees, Under
  <2>3. /\ x.node.key = k /\ k \in Seq(Byte) /\ Begins(k, g[x].place)
        /\ g[x].places = {g[x].place}
    BY <2>1, <2>2, KeysAre DEF LeafSub, make_leaf
  <2>4. g[x].place \in d.places
    BY <2>2, <2>3 DEF Under
  <2> QED BY <2>2, <2>3, <2>4, BytesStart
<1>4. ASSUME NEW x \in V, IS_LEAF(x.node), NEW y \in V, IS_LEAF(y.node), Before(x.way, y.way)
      PROVE  Before(x.node.key, y.node.key)
  <2>1. Before(g[x].place, g[y].place)
    BY <1>1, <1>4 DEF OrderSeen
  <2> QED BY <1>3, <1>4, <2>1, BeforeMore
<1>5. ASSUME NEW x \in V, IS_LEAF(x.node), NEW y \in V, IS_LEAF(y.node), Starts(y.way, x.way)
      PROVE  x = y
  <2>1. Starts(g[y].place, g[x].place)
    BY <1>1, <1>5 DEF OrderSeen
  <2>2. Begins(g[y].place, g[x].place)
    BY <1>3, <1>5, <2>1, BytesStart
  <2>3. g[y].place \in g[x].places
    BY <1>3, <1>5, <2>2 DEF Under
  <2>4. g[y].place = g[x].place
    BY <1>3, <1>5, <2>3
  <2> QED BY <1>1, <2>4 DEF Seen, PlacesApart
<1>6. ASSUME Before(e.node.key, f.node.key) PROVE Before(e.way, f.way)
  <2>1. /\ Before(e.way, f.way) \/ Before(f.way, e.way) \/ Starts(e.way, f.way)
           \/ Starts(f.way, e.way)
    BY <1>2, <1>3, BeforeOr
  <2>2. ~Before(f.node.key, e.node.key) /\ e # f
    <3>1. e.node.key \in Seq(Nat) /\ f.node.key \in Seq(Nat)
      BY <1>2, <1>3
    <3> QED BY <1>6, <3>1, BeforeOr
  <2> QED BY <1>2, <1>4, <1>5, <2>1, <2>2
<1> QED BY <1>2, <1>4, <1>6 DEF IteratedBefore

\* The leaves of a tree in order are in order, from the first to the last.
LEMMA OrderedInOrder ==
    ASSUME NEW d, Tree(d), Ordered(d.node), d.node = root
    PROVE  InOrder
<1>0. {minimum(root), maximum(root)} \subseteq LeavesBelow(root)
  BY MinimumIs, MaximumIs, LeavesBelowIs
<1> SUFFICES ASSUME NEW e \in LeafVisits(root)
             PROVE  /\ \A f \in LeafVisits(root) :
                           IteratedBefore(e, f) <=> Before(e.node.key, f.node.key)
                    /\ e.node = minimum(root) \/ Before(minimum(root).key, e.node.key)
                    /\ e.node = maximum(root) \/ Before(e.node.key, maximum(root).key)
  BY <1>0 DEF InOrder
<1>1. \A f \in LeafVisits(root) : IteratedBefore(e, f) <=> Before(e.node.key, f.node.key)
  BY LeavesInOrder
<1>2. e.node \in LeavesBelow(d.node)
  BY DEF LeafVisits, LeavesBelow
<1>3. PICK y \in d.entries : e.node = make_leaf(y.key, y.value)
  BY <1>2, LeavesBelowIs
<1>4. e.node.key = y.key
  BY <1>3 DEF make_leaf
<1>5. PICK x \in d.entries : /\ minimum(d.node) = make_leaf(x.key, x.value)
                             /\ y = x \/ Before(x.key, y.key)
  BY MinimumIs
<1>6. e.node = minimum(root) \/ Before(minimum(root).key, e.node.key)
  <2>1. minimum(root).key = x.key
    BY <1>5 DEF make_leaf
  <2> QED BY <1>3, <1>4, <1>5, <2>1
<1>7. PICK z \in d.entries : /\ maximum(d.node) = make_leaf(z.key, z.value)
                             /\ y = z \/ Before(y.key, z.key)
  BY MaximumIs
<1>8. e.node = maximum(root) \/ Before(e.node.key, maximum(root).key)
  <2>1. maximum(root).key = z.key
    BY <1>7 DEF make_leaf
  <2> QED BY <1>3, <1>4, <1>7, <2>1
<1> QED BY <1>1, <1>6, <1>8

\* A tree of low keys in order, or none.
InShape(t, E) == Low(E) /\ (t # Dangling => Ordered(t))

\* The inductive invariant of the history: without high keys the tree is in order.
HistoryInv == \E E : Holds(root, size, blocks, E) /\ (high \/ InShape(root, E))

\* An insert of a low key keeps the order.
LEMMA InsertSorts ==
    ASSUME NEW E, Holds(root, size, blocks, E), InShape(root, E), NEW k \in Key,
           NEW v \in ValuesOf[k], ~HasHigh(k), NEW replace \in BOOLEAN, Insert(k, v, replace)
    PROVE  Ordered(root')
<1>1. PICK behind \in Behind : \E e, r :
          /\ e = End("insert", root, k, behind)
          /\ r = InsertAtEnd(e.node, make_leaf(k, v), e.depth, e.byte, replace)
          /\ root' = Written(e.above, r.node)
  BY DEF Insert
<1>2. PICK e, r :
          /\ e = End("insert", root, k, behind)
          /\ r = InsertAtEnd(e.node, make_leaf(k, v), e.depth, e.byte, replace)
          /\ root' = Written(e.above, r.node)
  BY <1>1
<1>3. root # Dangling
  BY DEF Insert
<1>4. CASE root = NULL
  <2>1. e = Place("insert", NULL, 0, <<>>, k, behind)
    BY <1>2, <1>4, EndsAtOnce DEF AtEnd
  <2>2. e.node = NULL /\ e.above = <<>>
    BY <2>1 DEF Place
  <2>3. r.node = make_leaf(k, v)
    BY <1>2, <2>2 DEF InsertAtEnd, Inserted
  <2>4. root' = make_leaf(k, v)
    BY <1>2, <2>2, <2>3, WrittenIs
  <2>5. AtEnd(make_leaf(k, v))
    BY DEF AtEnd, IS_LEAF, make_leaf
  <2> QED BY <2>4, <2>5, OrderedIs
<1>5. ASSUME NEW d, Kept(d, root, size, blocks), E = d.entries PROVE Ordered(root')
  <2>1. Tree(d) /\ d.place = <<>> /\ Ordered(d.node) /\ Low(d.entries) /\ d.node = root
    BY <1>3, <1>5 DEF Kept, InShape
  <2>2. e = End("insert", d.node, k, behind)
    BY <1>2, <2>1
  <2>3. Ordered(Written(e.above, r.node))
    BY <1>2, <2>1, <2>2, InsertOrders
  <2> QED BY <1>2, <2>3
<1> QED BY <1>3, <1>4, <1>5 DEF Holds

\* A delete keeps the order.
LEMMA DeleteSorts ==
    ASSUME NEW E, Holds(root, size, blocks, E), InShape(root, E), NEW k \in Key, art_delete(k)
    PROVE  Ordered(root')
<1>1. PICK behind \in Behind : \E e, r :
          /\ e = End("delete", root, k, behind)
          /\ r = DeleteAtEnd(e.node, k, e.depth, e.byte)
          /\ root' = Written(e.above, r.node)
  BY DEF art_delete
<1>2. PICK e, r :
          /\ e = End("delete", root, k, behind)
          /\ r = DeleteAtEnd(e.node, k, e.depth, e.byte)
          /\ root' = Written(e.above, r.node)
  BY <1>1
<1>3. root # Dangling /\ behind \in Byte
  BY KeysAre DEF art_delete
<1>4. CASE root = NULL
  <2>1. e = Place("delete", NULL, 0, <<>>, k, behind)
    BY <1>2, <1>4, EndsAtOnce DEF AtEnd
  <2>2. e.node = NULL /\ e.above = <<>>
    BY <2>1 DEF Place
  <2>3. r.node = NULL
    BY <1>2, <2>2 DEF DeleteAtEnd, Deleted
  <2>4. root' = NULL
    BY <1>2, <2>2, <2>3, WrittenIs
  <2> QED BY <2>4, OrderedIs DEF AtEnd
<1>5. ASSUME NEW d, Kept(d, root, size, blocks) PROVE Ordered(root')
  <2>1. Tree(d) /\ d.place = <<>> /\ Ordered(d.node) /\ d.node = root
    BY <1>3, <1>5 DEF Kept, InShape
  <2>2. e = End("delete", d.node, k, behind)
    BY <1>2, <2>1
  <2>3. Ordered(Written(e.above, r.node))
    BY <1>2, <1>3, <2>1, <2>2, DeleteOrders
  <2> QED BY <1>2, <2>3
<1> QED BY <1>3, <1>4, <1>5 DEF Holds

\* Every step preserves the invariant of the history.
LEMMA HistoryInvNext == HistoryInv /\ [HistoryNext]_<<vars, high>> => HistoryInv'
<1> SUFFICES ASSUME HistoryInv, [HistoryNext]_<<vars, high>>
             PROVE  HistoryInv'
  OBVIOUS
<1>1. PICK E : Holds(root, size, blocks, E) /\ (high \/ InShape(root, E))
  BY DEF HistoryInv
<1>2. \A F : Holds(root', size', blocks', F) /\ (high' \/ InShape(root', F)) => HistoryInv'
  BY DEF HistoryInv
<1>3. ASSUME NEW F, Holds(root', size', blocks', F), root' = Dangling PROVE InShape(root', F)
  BY <1>3, HoldsWhat DEF InShape, Low
<1>4. ASSUME HistoryNext, root' # Dangling, ~high'
      PROVE  ~high /\ InShape(root, E) /\ ~(call'.op = "insert" /\ HasHigh(call'.key))
  BY <1>1, <1>4 DEF HistoryNext
<1>5. ASSUME HistoryNext, NEW k \in Key, NEW v \in ValuesOf[k], NEW replace \in BOOLEAN,
             Insert(k, v, replace), call' = InsertOf(k, v, replace)
      PROVE  HistoryInv'
  <2>1. PICK F : Holds(root', size', blocks', F) /\ Puts(E, F, k, v, replace, answer')
    BY <1>1, <1>5, InsertStep
  <2>2. ASSUME root' # Dangling, ~high' PROVE InShape(root', F)
    <3>1. ~HasHigh(k) /\ InShape(root, E)
      BY <1>4, <1>5, <2>2 DEF InsertOf
    <3>2. Ordered(root')
      BY <1>1, <1>5, <3>1, InsertSorts
    <3>3. \A x \in F : x \in E \/ x = [key |-> k, value |-> v]
      BY <2>1 DEF Puts
    <3>4. Low(F)
      BY <3>1, <3>3 DEF Low, InShape
    <3> QED BY <3>2, <3>4 DEF InShape
  <2> QED BY <1>2, <1>3, <2>1, <2>2
<1>6. ASSUME HistoryNext, NEW k \in Key, art_delete(k) PROVE HistoryInv'
  <2>1. PICK F : Holds(root', size', blocks', F) /\ Takes(E, F, k, answer')
    BY <1>1, <1>6, DeleteStep
  <2>2. ASSUME root' # Dangling, ~high' PROVE InShape(root', F)
    <3>1. InShape(root, E)
      BY <1>4, <1>6, <2>2
    <3>2. Ordered(root')
      BY <1>1, <1>6, <3>1, DeleteSorts
    <3>3. Low(F)
      BY <2>1, <3>1 DEF Low, InShape, Takes
    <3> QED BY <3>2, <3>3 DEF InShape
  <2> QED BY <1>2, <1>3, <2>1, <2>2
<1>7. ASSUME HistoryNext, art_tree_init \/ art_tree_destroy PROVE HistoryInv'
  <2>1. Holds(root', size', blocks', {})
    BY <1>1, <1>7, ClearStep
  <2>2. root' \in {NULL, Dangling}
    BY <1>7 DEF art_tree_init, art_tree_destroy
  <2>3. Ordered(NULL)
    BY OrderedIs DEF AtEnd
  <2>4. InShape(root', {})
    BY <2>2, <2>3 DEF InShape, Low
  <2> QED BY <1>2, <2>1, <2>4
<1>8. CASE UNCHANGED <<vars, high>>
  BY <1>1, <1>8 DEF HistoryInv, vars
<1>9. CASE HistoryNext
  <2>1. Next
    BY <1>9 DEF HistoryNext
  <2> QED BY <1>5, <1>6, <1>7, <1>9, <2>1 DEF Next, art_insert, art_insert_no_replace
<1> QED BY <1>8, <1>9

\* Without high keys art_iter goes through the keys in their order, from art_minimum to
\* art_maximum, whatever has been inserted and removed.
THEOREM OrderedAlwaysWhileLow == HistorySpec => []OrderedWhileLow
<1>1. HistoryInit => HistoryInv
  <2> SUFFICES ASSUME HistoryInit
               PROVE  HistoryInv
    OBVIOUS
  <2>1. root = Dangling /\ Holds(root, size, blocks, {})
    BY DEF HistoryInit, Init, Holds
  <2>2. InShape(root, {})
    BY <2>1 DEF InShape, Low
  <2> QED BY <2>1, <2>2 DEF HistoryInv
<1>2. HistoryInv => OrderedWhileLow
  <2> SUFFICES ASSUME HistoryInv, ~high
               PROVE  InOrder
    BY DEF OrderedWhileLow
  <2>1. PICK E : Holds(root, size, blocks, E) /\ InShape(root, E)
    BY DEF HistoryInv
  <2>2. CASE root \in {NULL, Dangling}
    BY <2>2 DEF InOrder
  <2>3. ASSUME NEW d, Kept(d, root, size, blocks) PROVE InOrder
    <3>1. Tree(d) /\ d.node = root /\ root # Dangling
      BY <2>3, NeverDangling DEF Kept
    <3> QED BY <2>1, <3>1, OrderedInOrder DEF InShape
  <2> QED BY <2>1, <2>2, <2>3 DEF Holds
<1> QED BY <1>1, <1>2, HistoryInvNext, PTL DEF HistorySpec
================================================================================
