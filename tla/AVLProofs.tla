----------------------------- MODULE AVLProofs -----------------------------
(***************************************************************************)
(* AVL for any nodes and keys.                                             *)
(***************************************************************************)
EXTENDS AVL, FiniteSetTheorems, WellFoundedInduction, TLAPS

-----------------------------------------------------------------------------
(* Numbers.                                                                 *)

\* A set of naturals that is not empty has a least member.
LEMMA LeastOfNaturals ==
    ASSUME NEW S \in SUBSET Nat, S # {}
    PROVE  \E m \in S : \A y \in S : m <= y
<1> DEFINE R == OpToRel(<, Nat)
<1>1. IsWellFoundedOn(R, Nat)
  BY NatLessThanWellFounded
<1>2. R = {x \in Nat \X Nat : x[1] < x[2]}
  BY Zenon DEF OpToRel
<1> HIDE DEF R
<1>3. PICK m \in S : \A y \in S : ~(<<y, m>> \in R)
  BY <1>1, WFMin, Zenon
<1>4. \A y \in S : m <= y
  <2> SUFFICES ASSUME NEW y \in S PROVE m <= y
    OBVIOUS
  <2>1. <<y, m>> \in Nat \X Nat /\ <<y, m>>[1] = y /\ <<y, m>>[2] = m
    OBVIOUS
  <2>2. ~(<<y, m>>[1] < <<y, m>>[2])
    BY <1>2, <1>3, <2>1, Zenon
  <2> QED BY <2>1, <2>2
<1> QED BY <1>4

-----------------------------------------------------------------------------
(* Paths.                                                                   *)

N == Cardinality(Node)

LEMMA Count == N \in Nat
  BY NodeAssumption, FS_CardinalityType DEF N

\* f[i] is what Path makes of a node when it has i rounds, for i up to a.
Rounds(step, a, f) ==
    /\ f = [i \in 0..a |-> f[i]]
    /\ \A i \in 0..a :
          f[i] = [m \in Link |-> IF i = 0 \/ m = NULL THEN <<>> ELSE <<m>> \o f[i - 1][step[m]]]

LEMMA RoundsExist ==
    ASSUME NEW step, NEW n \in Nat
    PROVE  \E f : Rounds(step, n, f)
<1> DEFINE Bad == {a \in Nat : \A f : ~Rounds(step, a, f)}
<1>1. Bad = {}
  <2> SUFFICES ASSUME Bad # {} PROVE FALSE
    OBVIOUS
  <2>1. PICK a \in Bad : \A e \in Bad : a <= e
    BY LeastOfNaturals, Zenon
  <2>2. a # 0
    <3> DEFINE first == [m \in Link |-> <<>>]
               f == [i \in 0..0 |-> first]
    <3>1. f[0] = first /\ \A i \in 0..0 : i = 0
      OBVIOUS
    <3>2. Rounds(step, 0, f)
      BY <3>1 DEF Rounds
    <3> QED BY <2>1, <3>2
  <2>3. a - 1 \in Nat /\ a \in Nat /\ a - 1 \notin Bad
    <3>1. a \in Nat /\ a - 1 \in Nat /\ ~(a <= a - 1)
      BY <2>2
    <3> HIDE DEF Bad
    <3> QED BY <2>1, <3>1
  <2>4. PICK f : Rounds(step, a - 1, f)
    BY <2>3
  <2>5. PICK last : last = [m \in Link |-> IF m = NULL THEN <<>> ELSE <<m>> \o f[a - 1][step[m]]]
    BY Zenon
  <2>6. PICK g : g = [i \in 0..a |-> IF i = a THEN last ELSE f[i]]
    BY Zenon
  <2>7. ASSUME NEW i \in 0..a
        PROVE  g[i] = [m \in Link |-> IF i = 0 \/ m = NULL THEN <<>>
                                      ELSE <<m>> \o g[i - 1][step[m]]]
    <3>1. CASE i = a
      <4>1. a - 1 \in 0..a /\ a - 1 # a /\ i # 0
        BY <2>2, <2>3, <3>1
      <4>2. g[i] = last /\ g[i - 1] = f[a - 1]
        BY <2>6, <3>1, <4>1
      <4> QED BY <2>5, <3>1, <4>1, <4>2
    <3>2. CASE i # a
      <4>1. i \in 0..(a - 1)
        BY <2>3, <3>2
      <4>2. f[i] = [m \in Link |-> IF i = 0 \/ m = NULL THEN <<>>
                                   ELSE <<m>> \o f[i - 1][step[m]]]
        BY <2>4, <4>1, Zenon DEF Rounds
      <4>3. i # 0 => i - 1 \in 0..a /\ i - 1 # a
        BY <2>3, <4>1
      <4>4. i # 0 => g[i - 1] = f[i - 1]
        BY <2>6, <4>3
      <4> QED BY <2>6, <3>2, <4>2, <4>4, Zenon
    <3> QED BY <3>1, <3>2
  <2>8. g = [i \in 0..a |-> g[i]]
    BY <2>6
  <2>9. Rounds(step, a, g)
    BY <2>7, <2>8, Zenon DEF Rounds
  <2> QED BY <2>1, <2>9
<1> QED BY <1>1

LEMMA PathRounds ==
    ASSUME NEW step, NEW n
    PROVE  \E f : Rounds(step, N, f) /\ Path(step, n) = f[N][n]
<1> DEFINE A == CHOOSE path :
                   path = [i \in 0..Cardinality(Node) |->
                              [m \in Link |-> IF i = 0 \/ m = NULL THEN <<>>
                                              ELSE <<m>> \o path[i - 1][step[m]]]]
<1>1. Path(step, n) = A[N][n]
  BY DEF Path, N
<1>2. PICK f : Rounds(step, N, f)
  BY Count, RoundsExist
<1>3. f = [i \in 0..N |-> [m \in Link |-> IF i = 0 \/ m = NULL THEN <<>>
                                          ELSE <<m>> \o f[i - 1][step[m]]]]
  BY <1>2, Zenon DEF Rounds
<1>4. A = [i \in 0..N |-> [m \in Link |-> IF i = 0 \/ m = NULL THEN <<>>
                                          ELSE <<m>> \o A[i - 1][step[m]]]]
  BY <1>3, Zenon DEF N
<1> HIDE DEF A
<1>5. Rounds(step, N, A)
  BY <1>4, Zenon DEF Rounds
<1> QED BY <1>1, <1>5

\* A step that goes down a rank leads to NULL.
Leads(step, S, r) ==
    /\ S \subseteq Node
    /\ \A m \in S : /\ r[m] \in 1..N
                    /\ step[m] # NULL => step[m] \in S /\ r[step[m]] < r[m]

\* w goes from n by steps up to where the step leads to NULL.
Walked(step, S, n, w) ==
    /\ w \in Seq(S) /\ Len(w) >= 1 /\ w[1] = n
    /\ step[w[Len(w)]] = NULL
    /\ \A i \in 1..(Len(w) - 1) : w[i + 1] = step[w[i]]

LEMMA OneMore ==
    ASSUME NEW step, NEW S, NEW m \in S, NEW v, Walked(step, S, step[m], v)
    PROVE  Walked(step, S, m, <<m>> \o v)
<1>1. PICK l \in Nat : l = Len(v) /\ l >= 1
  BY DEF Walked
<1>2. PICK w : w = <<m>> \o v
  BY Zenon
<1>3. /\ w \in Seq(S) /\ Len(w) = l + 1 /\ w[1] = m
      /\ \A i \in 1..l : w[i + 1] = v[i]
  BY <1>1, <1>2 DEF Walked
<1>4. step[w[Len(w)]] = NULL
  <2>1. w[l + 1] = v[l]
    BY <1>1, <1>3
  <2> QED BY <1>1, <1>3, <2>1 DEF Walked
<1>5. ASSUME NEW i \in 1..(Len(w) - 1) PROVE w[i + 1] = step[w[i]]
  <2>1. i \in 1..l
    BY <1>1, <1>3
  <2>2. w[i + 1] = v[i]
    BY <1>3, <2>1
  <2>3. CASE i = 1
    BY <1>3, <2>2, <2>3 DEF Walked
  <2>4. CASE i # 1
    <3>1. i - 1 \in 1..l /\ i - 1 \in 1..(Len(v) - 1) /\ (i - 1) + 1 = i
      BY <1>1, <2>1, <2>4
    <3>2. w[i] = v[i - 1]
      BY <1>3, <3>1
    <3>3. v[i] = step[v[i - 1]]
      BY <3>1 DEF Walked
    <3> QED BY <2>2, <3>2, <3>3
  <2> QED BY <2>3, <2>4
<1>6. Len(w) >= 1
  BY <1>1, <1>3
<1>7. Walked(step, S, m, w)
  BY <1>3, <1>4, <1>5, <1>6 DEF Walked
<1> QED BY <1>2, <1>7

LEMMA PathFound ==
    ASSUME NEW step, NEW S, NEW r, Leads(step, S, r), NEW n \in S
    PROVE  Walked(step, S, n, Path(step, n))
<1>1. PICK f : Rounds(step, N, f) /\ Path(step, n) = f[N][n]
  BY PathRounds
<1> DEFINE Bad == {i \in 0..N : \E m \in S : r[m] <= i /\ ~Walked(step, S, m, f[i][m])}
<1>2. Bad = {}
  <2> SUFFICES ASSUME Bad # {} PROVE FALSE
    OBVIOUS
  <2>0. Bad \subseteq Nat
    BY Count
  <2>1. PICK i \in Bad : \A e \in Bad : i <= e
    <3> HIDE DEF Bad
    <3> QED BY <2>0, LeastOfNaturals
  <2>2. PICK m \in S : r[m] <= i /\ ~Walked(step, S, m, f[i][m])
    BY <2>1
  <2>3. r[m] \in 1..N /\ m \in Link /\ m # NULL /\ m \in Node
    BY NodeAssumption DEF Leads, Link
  <2>4. i \in 0..N /\ i # 0 /\ i - 1 \in 0..N /\ i - 1 \in Nat
    BY <2>1, <2>2, <2>3, Count
  <2>5. f[i][m] = <<m>> \o f[i - 1][step[m]]
    <3>1. f[i] = [e \in Link |-> IF i = 0 \/ e = NULL THEN <<>> ELSE <<e>> \o f[i - 1][step[e]]]
      BY <1>1, <2>4, Zenon DEF Rounds
    <3> QED BY <2>3, <2>4, <3>1, Zenon
  <2>6. CASE step[m] = NULL
    <3>1. f[i - 1][NULL] = <<>>
      BY <1>1, <2>4, Zenon DEF Rounds, Link
    <3>2. f[i][m] = <<m>>
      BY <2>5, <2>6, <3>1
    <3>3. Walked(step, S, m, <<m>>)
      BY <2>6 DEF Walked
    <3> QED BY <2>2, <3>2, <3>3
  <2>7. CASE step[m] # NULL
    <3>1. step[m] \in S /\ r[step[m]] < r[m] /\ r[step[m]] \in 1..N
      BY <2>7 DEF Leads
    <3>2. r[step[m]] <= i - 1
      BY <2>2, <2>3, <2>4, <3>1, Count
    <3>3. i - 1 \notin Bad
      <4>1. ~(i <= i - 1)
        BY <2>4, Count
      <4> HIDE DEF Bad
      <4> QED BY <2>1, <4>1
    <3>4. Walked(step, S, step[m], f[i - 1][step[m]])
      BY <2>4, <3>1, <3>2, <3>3
    <3> QED BY <2>2, <2>5, <3>4, OneMore, Zenon
  <2> QED BY <2>6, <2>7
<1>3. N \in 0..N /\ r[n] <= N
  BY Count DEF Leads
<1> QED BY <1>1, <1>2, <1>3

-----------------------------------------------------------------------------
(* Trees.                                                                   *)

LEMMA Sides ==
    ASSUME NEW s \in Side
    PROVE  /\ Opposite(s) \in Side /\ Opposite(s) # s /\ Opposite(Opposite(s)) = s
           /\ Side = {s, Opposite(s)}
  BY DEF Side, Opposite

TreeType(t) ==
    t \in [root : Link, child : [Node -> [Side -> Link]], parent : [Node -> Link],
           height : [Node -> Nat]]

\* The nodes of t on side s of n, when T has those from each node down.
Under(t, T, n, s) == IF t.child[n][s] = NULL THEN {} ELSE T[t.child[n][s]]

\* Nodes and links from n down, T[n] the nodes.
WellLinked(t, L, T, n) ==
    /\ T[n] \subseteq L
    /\ T[n] = {n} \union Under(t, T, n, "left") \union Under(t, T, n, "right")
    /\ Under(t, T, n, "left") \intersect Under(t, T, n, "right") = {}
    /\ \A s \in Side :
          /\ n \notin Under(t, T, n, s)
          /\ t.child[n][s] # NULL => t.child[n][s] \in L /\ t.parent[t.child[n][s]] = n

\* t is a tree of the nodes L.
Tree(t, L, T) ==
    /\ TreeType(t) /\ L \subseteq Node /\ T \in [Node -> SUBSET Node]
    /\ t.root = NULL => L = {}
    /\ t.root # NULL => t.root \in L /\ T[t.root] = L /\ t.parent[t.root] = NULL
    /\ \A n \in L :
          /\ WellLinked(t, L, T, n)
          /\ n # t.root => t.parent[n] \in L /\ \E s \in Side : t.child[t.parent[n]][s] = n

LEMMA Types ==
    ASSUME NEW t, TreeType(t)
    PROVE  /\ t.root \in Link
           /\ \A n \in Node : /\ t.child[n] \in [Side -> Link] /\ t.parent[n] \in Link
                              /\ t.height[n] \in Nat
                              /\ \A s \in Side : t.child[n][s] \in Link
           /\ NULL \notin Node /\ Link = Node \union {NULL}
  BY NodeAssumption DEF TreeType, Link

\* What the tree says of a node and the two sides of it, whichever is which.
LEMMA TwoSides ==
    ASSUME NEW t, NEW L, NEW T, Tree(t, L, T), NEW n \in L, NEW s \in Side
    PROVE  /\ n \in Node /\ n \in T[n] /\ T[n] \subseteq L /\ L \subseteq Node
           /\ T[n] = {n} \union Under(t, T, n, s) \union Under(t, T, n, Opposite(s))
           /\ Under(t, T, n, s) \intersect Under(t, T, n, Opposite(s)) = {}
           /\ n \notin Under(t, T, n, s)
           /\ t.child[n][s] \in Link
           /\ t.child[n][s] = NULL => Under(t, T, n, s) = {}
           /\ t.child[n][s] # NULL =>
                 /\ t.child[n][s] \in L /\ t.child[n][s] \in Node /\ t.child[n][s] # n
                 /\ t.parent[t.child[n][s]] = n
                 /\ Under(t, T, n, s) = T[t.child[n][s]]
                 /\ t.child[n][s] \in T[t.child[n][s]]
                 /\ t.child[n][s] # t.child[n][Opposite(s)]
<1>1. WellLinked(t, L, T, n) /\ n \in Node /\ L \subseteq Node /\ TreeType(t)
  BY DEF Tree
<1>2. /\ T[n] = {n} \union Under(t, T, n, s) \union Under(t, T, n, Opposite(s))
      /\ Under(t, T, n, s) \intersect Under(t, T, n, Opposite(s)) = {}
  BY <1>1 DEF WellLinked, Side, Opposite
<1>3. n \in T[n] /\ T[n] \subseteq L /\ n \notin Under(t, T, n, s)
  BY <1>1, <1>2 DEF WellLinked
<1>4. t.child[n][s] \in Link
  BY <1>1, Types
<1>5. ASSUME t.child[n][s] # NULL
      PROVE  /\ t.child[n][s] \in L /\ t.child[n][s] \in Node /\ t.child[n][s] # n
             /\ t.parent[t.child[n][s]] = n
             /\ Under(t, T, n, s) = T[t.child[n][s]]
             /\ t.child[n][s] \in T[t.child[n][s]]
             /\ t.child[n][s] # t.child[n][Opposite(s)]
  <2>1. PICK c : c = t.child[n][s]
    OBVIOUS
  <2>2. c \in L /\ t.parent[c] = n /\ c \in Node
    BY <1>1, <1>5, <2>1 DEF WellLinked
  <2>3. Under(t, T, n, s) = T[c]
    BY <1>5, <2>1 DEF Under
  <2>4. c \in T[c]
    <3>1. WellLinked(t, L, T, c)
      BY <2>2 DEF Tree
    <3> QED BY <3>1 DEF WellLinked
  <2>5. c # n
    BY <1>3, <2>3, <2>4
  <2>6. c # t.child[n][Opposite(s)]
    <3>1. c \notin Under(t, T, n, Opposite(s))
      BY <1>2, <2>3, <2>4
    <3>2. c # NULL
      BY <1>5, <2>1
    <3> QED BY <2>4, <3>1, <3>2 DEF Under
  <2> QED BY <2>1, <2>2, <2>3, <2>4, <2>5, <2>6
<1>6. t.child[n][s] = NULL => Under(t, T, n, s) = {}
  BY DEF Under
<1> QED BY <1>1, <1>2, <1>3, <1>4, <1>5, <1>6

\* The sizes of trees, for inductions from trees to those under them.
Size(T, n) == Cardinality(T[n])

LEMMA Sizes ==
    ASSUME NEW t, NEW L, NEW T, Tree(t, L, T), NEW n \in L
    PROVE  /\ Size(T, n) \in 1..N
           /\ \A s \in Side : t.child[n][s] # NULL => Size(T, t.child[n][s]) < Size(T, n)
<1>1. ASSUME NEW m \in L
      PROVE  IsFiniteSet(T[m]) /\ Cardinality(T[m]) \in 1..N
  <2>1. m \in T[m] /\ T[m] \subseteq Node
    BY TwoSides DEF Side
  <2>2. IsFiniteSet(T[m]) /\ Cardinality(T[m]) <= N
    BY <2>1, NodeAssumption, FS_Subset DEF N
  <2>3. Cardinality(T[m]) \in Nat /\ Cardinality(T[m]) # 0
    BY <2>1, <2>2, FS_CardinalityType, FS_EmptySet
  <2> QED BY <2>2, <2>3, Count
<1>2. ASSUME NEW s \in Side, t.child[n][s] # NULL
      PROVE  Size(T, t.child[n][s]) < Size(T, n)
  <2>1. PICK c : c = t.child[n][s]
    OBVIOUS
  <2>2. c \in L /\ T[c] \subseteq T[n] /\ n \in T[n] /\ n \notin T[c]
    BY <1>2, <2>1, TwoSides
  <2>3. Cardinality(T[c]) <= Cardinality(T[n]) /\ T[c] # T[n]
    BY <1>1, <2>2, FS_Subset
  <2>4. Cardinality(T[c]) # Cardinality(T[n])
    BY <1>1, <2>2, <2>3, FS_Subset
  <2>5. Cardinality(T[c]) \in Nat /\ Cardinality(T[n]) \in Nat
    BY <1>1, <2>2
  <2> QED BY <2>1, <2>3, <2>4, <2>5 DEF Size
<1> QED BY <1>1, <1>2 DEF Size

\* A set of nodes of the tree has one with no child in the set.
LEMMA LowestIn ==
    ASSUME NEW t, NEW L, NEW T, Tree(t, L, T), NEW A \in SUBSET L, A # {}
    PROVE  \E a \in A : \A s \in Side : t.child[a][s] \notin A
<1>1. NULL \notin L
  BY NodeAssumption DEF Tree
<1> DEFINE sizes == {Size(T, a) : a \in A}
<1>2. sizes \subseteq Nat /\ sizes # {}
  BY Sizes
<1>3. PICK i \in sizes : \A j \in sizes : i <= j
  <2> HIDE DEF sizes
  <2> QED BY <1>2, LeastOfNaturals
<1>4. PICK a \in A : i = Size(T, a)
  BY <1>3
<1>5. ASSUME NEW s \in Side PROVE t.child[a][s] \notin A
  <2> SUFFICES ASSUME t.child[a][s] \in A PROVE FALSE
    OBVIOUS
  <2>1. Size(T, t.child[a][s]) < Size(T, a)
    BY <1>1, <1>4, Sizes
  <2>2. i <= Size(T, t.child[a][s])
    BY <1>3
  <2>3. Size(T, t.child[a][s]) \in Nat /\ i \in Nat
    BY <1>2, <1>3
  <2> QED BY <1>4, <2>1, <2>2, <2>3
<1> QED BY <1>4, <1>5

\* A tree holds the trees of its nodes.
LEMMA Nested ==
    ASSUME NEW t, NEW L, NEW T, Tree(t, L, T), NEW a \in L, NEW m \in T[a]
    PROVE  T[m] \subseteq T[a] /\ m \in L
<1> DEFINE A == {b \in L : \E n \in T[b] : ~(T[n] \subseteq T[b])}
<1>1. A = {}
  <2> SUFFICES ASSUME A # {} PROVE FALSE
    OBVIOUS
  <2>1. PICK b \in A : \A s \in Side : t.child[b][s] \notin A
    <3>1. A \in SUBSET L
      OBVIOUS
    <3> HIDE DEF A
    <3> QED BY <3>1, LowestIn
  <2>2. PICK n \in T[b] : ~(T[n] \subseteq T[b])
    BY <2>1
  <2>3. n # b
    BY <2>2
  <2>4. PICK s \in Side : n \in Under(t, T, b, s)
    <3>1. "left" \in Side /\ Opposite("left") \in Side
      BY DEF Side, Opposite
    <3>2. T[b] = {b} \union Under(t, T, b, "left") \union Under(t, T, b, Opposite("left"))
      BY <2>1, <3>1, TwoSides
    <3> QED BY <2>2, <2>3, <3>1, <3>2
  <2>5. PICK c \in L : c = t.child[b][s] /\ Under(t, T, b, s) = T[c] /\ T[c] \subseteq T[b]
    BY <2>1, <2>4, TwoSides
  <2>6. T[n] \subseteq T[c]
    BY <2>1, <2>4, <2>5
  <2> QED BY <2>2, <2>5, <2>6
<1>2. m \in L
  BY TwoSides DEF Side
<1> QED BY <1>1, <1>2

\* A node of a tree is its root or on one side of it.
LEMMA OnASide ==
    ASSUME NEW t, NEW L, NEW T, Tree(t, L, T), NEW a \in L, NEW m \in T[a], m # a
    PROVE  \E s \in Side : /\ m \in Under(t, T, a, s)
                           /\ t.child[a][s] \in L /\ t.child[a][s] # NULL
                           /\ t.parent[t.child[a][s]] = a
                           /\ Under(t, T, a, s) = T[t.child[a][s]]
<1>1. "left" \in Side /\ Opposite("left") \in Side
  BY DEF Side, Opposite
<1>2. T[a] = {a} \union Under(t, T, a, "left") \union Under(t, T, a, Opposite("left"))
  BY <1>1, TwoSides
<1>3. PICK s \in Side : m \in Under(t, T, a, s)
  BY <1>1, <1>2
<1> QED BY <1>3, TwoSides

\* What the tree says of a child.
Below(t, L, T, n, c) ==
    /\ c \in L /\ c \in T[n] /\ c # n /\ T[c] \subseteq T[n] /\ n \notin T[c]
    /\ t.parent[c] = n

LEMMA ChildIs ==
    ASSUME NEW t, NEW L, NEW T, Tree(t, L, T), NEW n \in L, NEW s \in Side,
           NEW c, c = t.child[n][s], c # NULL
    PROVE  Below(t, L, T, n, c)
<1>1. /\ c \in L /\ c # n /\ c \in T[n] /\ T[c] \subseteq T[n] /\ n \notin T[c]
      /\ t.parent[c] = n
  BY TwoSides
<1> QED BY <1>1 DEF Below

\* No two nodes are in each other's trees.
LEMMA OneAbove ==
    ASSUME NEW t, NEW L, NEW T, Tree(t, L, T), NEW a \in L, NEW m \in T[a], a \in T[m]
    PROVE  m = a
<1> SUFFICES ASSUME m # a PROVE FALSE
  OBVIOUS
<1>1. PICK s \in Side : /\ m \in Under(t, T, a, s) /\ t.child[a][s] \in L
                        /\ Under(t, T, a, s) = T[t.child[a][s]]
  BY OnASide
<1>2. a \notin T[t.child[a][s]]
  BY <1>1, TwoSides
<1>3. T[m] \subseteq T[t.child[a][s]]
  BY <1>1, Nested
<1> QED BY <1>2, <1>3

\* A node is in the trees of those its parent is in, and in its own.
LEMMA Above ==
    ASSUME NEW t, NEW L, NEW T, Tree(t, L, T), NEW a \in L, NEW m \in L, m # t.root
    PROVE  /\ t.parent[m] \in L /\ m \in T[t.parent[m]] /\ t.parent[m] # m
           /\ m \in T[a] <=> m = a \/ t.parent[m] \in T[a]
<1>1. PICK p \in L : p = t.parent[m]
  BY DEF Tree
<1>2. PICK s \in Side : t.child[p][s] = m
  BY <1>1 DEF Tree
<1>3. m # NULL
  BY NodeAssumption DEF Tree
<1>4. m \in T[p] /\ p # m
  BY <1>1, <1>2, <1>3, TwoSides
<1>5. m \in T[m] /\ p \in T[p]
  BY TwoSides DEF Side
<1>6. ASSUME p \in T[a] PROVE m \in T[a]
  BY <1>4, <1>6, Nested
<1> DEFINE A == {b \in L : m \in T[b] /\ m # b /\ p \notin T[b]}
<1>7. A = {}
  <2> SUFFICES ASSUME A # {} PROVE FALSE
    OBVIOUS
  <2>1. PICK b \in A : \A r \in Side : t.child[b][r] \notin A
    <3>1. A \in SUBSET L
      OBVIOUS
    <3> HIDE DEF A
    <3> QED BY <3>1, LowestIn
  <2>2. PICK r \in Side : /\ m \in Under(t, T, b, r)
                          /\ t.child[b][r] \in L /\ t.parent[t.child[b][r]] = b
                          /\ Under(t, T, b, r) = T[t.child[b][r]]
    BY <2>1, OnASide
  <2>3. CASE t.child[b][r] = m
    BY <1>1, <1>5, <2>1, <2>2, <2>3
  <2>4. CASE t.child[b][r] # m
    <3>1. p \in T[t.child[b][r]]
      BY <2>1, <2>2, <2>4
    <3>2. T[t.child[b][r]] \subseteq T[b]
      BY <2>1, <2>2, TwoSides
    <3> QED BY <2>1, <3>1, <3>2
  <2> QED BY <2>3, <2>4
<1> QED BY <1>1, <1>4, <1>5, <1>6, <1>7

-----------------------------------------------------------------------------
(* Order.                                                                   *)

\* a is on side s of b.
Before(s, a, b) == IF s = "left" THEN a < b ELSE b < a

\* What is on a side of a node has keys on that side of its own.
Ordered(t, L, T, K) ==
    \A n \in L : /\ K[n] \in Nat
                 /\ \A s \in Side : \A m \in Under(t, T, n, s) : Before(s, K[m], K[n])

LEMMA Befores ==
    ASSUME NEW s \in Side, NEW a \in Nat, NEW b \in Nat, NEW c \in Nat
    PROVE  /\ Before(s, a, b) => a # b
           /\ Before(s, a, b) <=> Before(Opposite(s), b, a)
           /\ Before(s, a, b) /\ Before(s, b, c) => Before(s, a, c)
           /\ Before(s, a, b) \/ Before(Opposite(s), a, b) \/ a = b
  BY DEF Before, Side, Opposite

\* A node that is not in a tree is on one side of all of it.
LEMMA Apart ==
    ASSUME NEW t, NEW L, NEW T, NEW K, Tree(t, L, T), Ordered(t, L, T, K),
           NEW n \in L, NEW m \in L, m \notin T[n]
    PROVE  \E s \in Side : \A j \in T[n] : Before(s, K[m], K[j])
<1> DEFINE A == {a \in L : m \in T[a] /\ n \in T[a]}
<1>1. A # {}
  <2>1. t.root \in L /\ T[t.root] = L
    BY DEF Tree
  <2> QED BY <2>1
<1>2. PICK a \in A : \A s \in Side : t.child[a][s] \notin A
  <2>1. A \in SUBSET L
    OBVIOUS
  <2> HIDE DEF A
  <2> QED BY <1>1, <2>1, LowestIn
<1>3. a # n
  BY <1>2
<1>4. PICK s \in Side : /\ n \in Under(t, T, a, s) /\ t.child[a][s] \in L
                        /\ Under(t, T, a, s) = T[t.child[a][s]]
  BY <1>2, <1>3, OnASide
<1>5. Opposite(s) \in Side
  BY Sides
<1>6. ASSUME NEW j \in T[n]
      PROVE  /\ Before(s, K[j], K[a]) /\ K[j] \in Nat /\ K[a] \in Nat /\ K[m] \in Nat
             /\ Before(Opposite(s), K[a], K[j])
  <2>1. j \in Under(t, T, a, s)
    BY <1>4, Nested
  <2>2. j \in L
    BY Nested
  <2>3. Before(s, K[j], K[a]) /\ K[j] \in Nat /\ K[a] \in Nat /\ K[m] \in Nat
    BY <1>2, <2>1, <2>2 DEF Ordered
  <2> QED BY <2>3, Befores
<1>7. CASE a = m
  BY <1>5, <1>6, <1>7
<1>8. CASE a # m
  <2>1. PICK r \in Side : /\ m \in Under(t, T, a, r) /\ t.child[a][r] \in L
                          /\ Under(t, T, a, r) = T[t.child[a][r]]
    BY <1>2, <1>8, OnASide
  <2>2. r # s
    BY <1>2, <1>4, <2>1
  <2>3. r = Opposite(s)
    BY <2>2, Sides
  <2>4. Before(Opposite(s), K[m], K[a])
    BY <1>2, <2>1, <2>3 DEF Ordered
  <2>5. ASSUME NEW j \in T[n] PROVE Before(Opposite(s), K[m], K[j])
    BY <1>5, <1>6, <2>4, Befores
  <2> QED BY <1>5, <2>5
<1> QED BY <1>7, <1>8

\* No two nodes have the same key.
LEMMA OwnKeys ==
    ASSUME NEW t, NEW L, NEW T, NEW K, Tree(t, L, T), Ordered(t, L, T, K),
           NEW n \in L, NEW m \in L, K[m] = K[n]
    PROVE  m = n
<1>0. K[m] \in Nat /\ K[n] \in Nat /\ n \in T[n]
  BY TwoSides DEF Ordered, Side
<1>1. CASE m \in T[n]
  <2> SUFFICES ASSUME m # n PROVE FALSE
    OBVIOUS
  <2>1. PICK s \in Side : m \in Under(t, T, n, s)
    BY <1>1, OnASide
  <2>2. Before(s, K[m], K[n])
    BY <2>1 DEF Ordered
  <2> QED BY <1>0, <2>2, Befores
<1>2. CASE m \notin T[n]
  <2>1. PICK s \in Side : \A j \in T[n] : Before(s, K[m], K[j])
    BY <1>2, Apart
  <2> QED BY <1>0, <2>1, Befores
<1> QED BY <1>1, <1>2

-----------------------------------------------------------------------------
(* Ways down and up.                                                        *)

\* A set of places in a sequence has a last one.
LEMMA LastPlace ==
    ASSUME NEW l \in Nat, NEW S \in SUBSET (1..l), S # {}
    PROVE  \E i \in S : \A j \in S : j <= i
<1> DEFINE D == {l - i : i \in S}
<1>1. D \subseteq Nat /\ D # {}
  <2>1. ASSUME NEW i \in S PROVE l - i \in Nat
    <3>1. i \in 1..l
      OBVIOUS
    <3> QED BY <3>1
  <2>2. PICK i : i \in S
    OBVIOUS
  <2>3. l - i \in D
    BY <2>2
  <2> QED BY <2>1, <2>3
<1>2. PICK d \in D : \A e \in D : d <= e
  <2> HIDE DEF D
  <2> QED BY <1>1, LeastOfNaturals
<1>3. PICK i \in S : d = l - i
  BY <1>2
<1>4. ASSUME NEW j \in S PROVE j <= i
  <2>1. l - i <= l - j
    BY <1>2, <1>3, Zenon
  <2>2. i \in Int /\ j \in Int
    OBVIOUS
  <2> QED BY <2>1, <2>2
<1> QED BY <1>4

\* Each node is followed by one of its children.
Descends(step, t, L) ==
    \A m \in L : step[m] = NULL \/ \E s \in Side : step[m] = t.child[m][s]

LEMMA WayDown ==
    ASSUME NEW t, NEW L, NEW T, Tree(t, L, T), NEW step, Descends(step, t, L), NEW n \in L
    PROVE  Walked(step, L, n, Path(step, n))
<1> DEFINE r == [m \in L |-> Size(T, m)]
<1>1. ASSUME NEW m \in L
      PROVE  /\ r[m] \in 1..N
             /\ step[m] # NULL => step[m] \in L /\ r[step[m]] < r[m]
  <2>1. r[m] \in 1..N
    BY Sizes
  <2>2. ASSUME step[m] # NULL PROVE step[m] \in L /\ r[step[m]] < r[m]
    <3>1. PICK s \in Side : step[m] = t.child[m][s]
      BY <2>2 DEF Descends
    <3>2. step[m] \in L
      BY <2>2, <3>1, TwoSides
    <3>3. Size(T, step[m]) < Size(T, m)
      BY <2>2, <3>1, Sizes
    <3> QED BY <3>2, <3>3
  <2> QED BY <2>1, <2>2
<1>2. Leads(step, L, r)
  <2>1. L \subseteq Node
    BY DEF Tree
  <2> HIDE DEF r
  <2> QED BY <1>1, <2>1 DEF Leads
<1> HIDE DEF r
<1> QED BY <1>2, PathFound

\* The nodes of a way down are in one another's trees.
LEMMA WayNested ==
    ASSUME NEW t, NEW L, NEW T, Tree(t, L, T), NEW step, Descends(step, t, L), NEW n \in L,
           NEW w, Walked(step, L, n, w), NEW i \in 1..Len(w), NEW j \in i..Len(w)
    PROVE  /\ w[i] \in L /\ w[j] \in L /\ w[j] \in T[w[i]]
           /\ i < Len(w) => \E s \in Side : w[i + 1] = t.child[w[i]][s]
<1>1. PICK l \in Nat : l = Len(w) /\ l >= 1
  BY DEF Walked
<1>2. \A k \in 1..l : w[k] \in L
  BY <1>1 DEF Walked
<1>3. i \in 1..l /\ j \in i..l
  BY <1>1
<1>4. NULL \notin L
  BY NodeAssumption DEF Tree
<1>5. ASSUME NEW k \in 1..(l - 1)
      PROVE  /\ T[w[k + 1]] \subseteq T[w[k]]
             /\ \E s \in Side : w[k + 1] = t.child[w[k]][s]
  <2>1. k \in 1..(Len(w) - 1) /\ k \in 1..l /\ k + 1 \in 1..l
    BY <1>1
  <2>2. w[k + 1] = step[w[k]] /\ w[k] \in L /\ w[k + 1] \in L
    BY <1>2, <2>1 DEF Walked
  <2>3. PICK s \in Side : w[k + 1] = t.child[w[k]][s]
    BY <1>4, <2>2 DEF Descends
  <2>4. T[w[k + 1]] \subseteq T[w[k]]
    BY <1>4, <2>2, <2>3, TwoSides
  <2> QED BY <2>3, <2>4
<1> DEFINE Bad == {d \in 0..(l - i) : w[i + d] \notin T[w[i]]}
<1>6. Bad = {}
  <2> SUFFICES ASSUME Bad # {} PROVE FALSE
    OBVIOUS
  <2>0. Bad \subseteq Nat
    BY <1>3
  <2>1. PICK d \in Bad : \A e \in Bad : d <= e
    <3> HIDE DEF Bad
    <3> QED BY <2>0, LeastOfNaturals
  <2>2. d # 0
    <3>1. w[i] \in T[w[i]] /\ i + 0 = i
      BY <1>2, <1>3, TwoSides DEF Side
    <3> QED BY <2>1, <3>1
  <2>3. /\ d - 1 \in 0..(l - i) /\ ~(d <= d - 1)
        /\ i + (d - 1) \in 1..(l - 1) /\ (i + (d - 1)) + 1 = i + d /\ i + d \in 1..l
    <3>1. d \in 0..(l - i) /\ d \in Nat /\ l \in Nat /\ i \in Nat /\ i >= 1
      BY <1>3, <2>1
    <3> HIDE DEF Bad
    <3> QED BY ONLY <2>2, <3>1
  <2>4. d - 1 \notin Bad
    <3> HIDE DEF Bad
    <3> QED BY <2>1, <2>3
  <2>5. w[i + (d - 1)] \in T[w[i]]
    BY <2>3, <2>4
  <2>6. T[w[i + d]] \subseteq T[w[i + (d - 1)]] /\ w[i + d] \in T[w[i + d]]
    <3>1. w[i + d] \in T[w[i + d]]
      BY <1>2, <2>3, TwoSides DEF Side
    <3> QED BY <1>5, <2>3, <3>1, Zenon
  <2>7. T[w[i + (d - 1)]] \subseteq T[w[i]]
    <3>1. Tree(t, L, T) /\ w[i] \in L
      BY <1>2, <1>3
    <3> QED BY ONLY <2>5, <3>1, Nested
  <2> QED BY <2>1, <2>6, <2>7, Zenon
<1>7. w[j] \in T[w[i]]
  <2>1. j - i \in 0..(l - i) /\ i + (j - i) = j
    BY <1>3
  <2> QED BY <1>6, <2>1, Zenon
<1>8. i < l => i \in 1..(l - 1)
  BY <1>3
<1>9. j \in 1..l
  BY <1>3
<1> QED BY <1>1, <1>2, <1>3, <1>5, <1>7, <1>8, <1>9

\* Outermost finds the last node of a tree on a side.
LEMMA OutermostIs ==
    ASSUME NEW t, NEW L, NEW T, NEW K, Tree(t, L, T), Ordered(t, L, T, K),
           NEW n \in L, NEW s \in Side
    PROVE  LET e == Outermost(t, n, s)
           IN  /\ e \in T[n] /\ e \in L /\ t.child[e][s] = NULL
               /\ \A m \in T[n] : m # e => Before(s, K[e], K[m])
<1> DEFINE step == [m \in Node |-> t.child[m][s]]
<1>1. \A m \in L : step[m] = t.child[m][s]
  BY DEF Tree
<1>2. Descends(step, t, L)
  BY <1>1 DEF Descends
<1> HIDE DEF step
<1>3. PICK w : w = Path(step, n) /\ Walked(step, L, n, w)
  BY <1>2, WayDown
<1>4. PICK l \in Nat : l = Len(w) /\ l >= 1
  BY <1>3 DEF Walked
<1>5. PICK e : e = w[l]
  OBVIOUS
<1>6. e = Outermost(t, n, s)
  BY <1>3, <1>4, <1>5 DEF Outermost, Last, step
<1>7. w[1] = n /\ \A i \in 1..l : w[i] \in L
  BY <1>3, <1>4 DEF Walked
<1>8. 1 \in 1..l /\ l \in 1..l
  BY <1>4
<1>9. \A i \in 1..l : e \in T[w[i]]
  <2> SUFFICES ASSUME NEW i \in 1..l PROVE e \in T[w[i]]
    OBVIOUS
  <2>1. i \in 1..Len(w) /\ l \in i..Len(w)
    BY <1>4
  <2> QED BY <1>2, <1>3, <1>5, <2>1, WayNested
<1>10. e \in L /\ e \in T[n] /\ t.child[e][s] = NULL
  BY <1>1, <1>3, <1>4, <1>5, <1>7, <1>8, <1>9 DEF Walked
<1>11. ASSUME NEW m \in T[n], m # e PROVE Before(s, K[e], K[m])
  <2>1. m \in L /\ K[m] \in Nat /\ K[e] \in Nat
    BY <1>10, Nested DEF Ordered
  <2> DEFINE S == {i \in 1..l : m \in T[w[i]]}
  <2>2. PICK i \in S : \A j \in S : j <= i
    <3>1. 1 \in S /\ S \in SUBSET (1..l)
      BY <1>7, <1>8
    <3> HIDE DEF S
    <3> QED BY <3>1, LastPlace, Zenon
  <2>3. i \in 1..l /\ m \in T[w[i]] /\ w[i] \in L
    BY <1>7, <2>2
  <2>4. CASE i = l
    <3>1. PICK r \in Side : m \in Under(t, T, e, r) /\ t.child[e][r] # NULL
      BY <1>5, <1>10, <1>11, <2>3, <2>4, OnASide
    <3>2. r = Opposite(s)
      BY <1>10, <3>1, Sides
    <3>3. Before(Opposite(s), K[m], K[e])
      BY <1>10, <3>1, <3>2 DEF Ordered
    <3> QED BY <2>1, <3>3, Befores
  <2>5. CASE i # l
    <3>1. i + 1 \in 1..l /\ i \in 1..(Len(w) - 1) /\ ~(i + 1 <= i)
      BY <1>4, <2>3, <2>5
    <3>2. i + 1 \notin S
      <4> HIDE DEF S
      <4> QED BY <2>2, <3>1
    <3>3. m \notin T[w[i + 1]]
      BY <3>1, <3>2
    <3>4. w[i + 1] = t.child[w[i]][s] /\ w[i + 1] \in L
      BY <1>1, <1>3, <1>7, <2>3, <3>1 DEF Walked
    <3>5. t.child[w[i]][s] # NULL
      BY <3>4, NodeAssumption DEF Tree
    <3>6. Under(t, T, w[i], s) = T[w[i + 1]]
      BY <2>3, <3>4, <3>5, TwoSides
    <3>7. Before(s, K[e], K[w[i]]) /\ K[w[i]] \in Nat
      BY <1>9, <2>3, <3>1, <3>6 DEF Ordered
    <3>8. CASE m = w[i]
      BY <3>7, <3>8
    <3>9. CASE m # w[i]
      <4>1. PICK r \in Side : m \in Under(t, T, w[i], r)
        BY <2>3, <3>9, OnASide
      <4>2. r = Opposite(s)
        BY <3>3, <3>6, <4>1, Sides
      <4>3. Before(Opposite(s), K[m], K[w[i]])
        BY <2>3, <4>1, <4>2 DEF Ordered
      <4>4. Before(s, K[w[i]], K[m])
        BY <2>1, <3>7, <4>3, Befores
      <4> QED BY <2>1, <3>7, <4>4, Befores
    <3> QED BY <3>8, <3>9
  <2> QED BY <2>4, <2>5
<1>12. /\ e \in T[n] /\ e \in L /\ t.child[e][s] = NULL
       /\ \A m \in T[n] : m # e => Before(s, K[e], K[m])
  BY <1>10, <1>11
<1> QED BY <1>6, <1>12

\* A climb visits the nodes in whose trees the first one is, up to the root.
LEMMA ClimbIs ==
    ASSUME NEW t, NEW L, NEW T, Tree(t, L, T), NEW n \in L
    PROVE  LET w == Path(t.parent, n)
           IN  /\ Walked(t.parent, L, n, w)
               /\ w[Len(w)] = t.root
               /\ {w[i] : i \in 1..Len(w)} = {m \in L : n \in T[m]}
<1>0. NULL \notin L /\ t.root \in L /\ t.parent[t.root] = NULL
  BY NodeAssumption DEF Tree
<1> DEFINE r == [m \in L |-> N - Size(T, m) + 1]
<1>1. ASSUME NEW m \in L, t.parent[m] # NULL
      PROVE  /\ t.parent[m] \in L /\ m # t.root
             /\ Size(T, m) < Size(T, t.parent[m])
  <2>1. m # t.root
    BY <1>0, <1>1
  <2>2. t.parent[m] \in L
    BY <2>1, Above
  <2>3. PICK s \in Side : t.child[t.parent[m]][s] = m
    BY <2>1 DEF Tree
  <2>4. Size(T, m) < Size(T, t.parent[m])
    BY <1>0, <2>2, <2>3, Sizes
  <2> QED BY <2>1, <2>2, <2>4
<1>2. ASSUME NEW m \in L
      PROVE  /\ r[m] \in 1..N
             /\ t.parent[m] # NULL => t.parent[m] \in L /\ r[t.parent[m]] < r[m]
  <2>1. Size(T, m) \in 1..N /\ N \in Nat
    BY Count, Sizes
  <2>2. r[m] = N - Size(T, m) + 1
    OBVIOUS
  <2>3. ASSUME t.parent[m] # NULL PROVE t.parent[m] \in L /\ r[t.parent[m]] < r[m]
    <3>1. t.parent[m] \in L /\ Size(T, m) < Size(T, t.parent[m])
      BY <1>1, <2>3
    <3>2. Size(T, t.parent[m]) \in 1..N /\ r[t.parent[m]] = N - Size(T, t.parent[m]) + 1
      BY <3>1, Sizes
    <3> HIDE DEF r
    <3> QED BY <2>1, <2>2, <3>1, <3>2
  <2> HIDE DEF r
  <2> QED BY <2>1, <2>2, <2>3
<1>3. Leads(t.parent, L, r)
  <2>1. L \subseteq Node
    BY DEF Tree
  <2> HIDE DEF r
  <2> QED BY <1>2, <2>1 DEF Leads
<1> HIDE DEF r
<1>4. PICK w : w = Path(t.parent, n) /\ Walked(t.parent, L, n, w)
  BY <1>3, PathFound
<1>5. PICK l \in Nat : l = Len(w) /\ l >= 1
  BY <1>4 DEF Walked
<1>6. /\ w[1] = n /\ \A i \in 1..l : w[i] \in L
      /\ t.parent[w[l]] = NULL /\ \A i \in 1..(l - 1) : w[i + 1] = t.parent[w[i]]
  BY <1>4, <1>5 DEF Walked
<1>7. 1 \in 1..l /\ l \in 1..l
  BY <1>5
<1>8. w[l] = t.root
  <2> SUFFICES ASSUME w[l] # t.root PROVE FALSE
    OBVIOUS
  <2>1. t.parent[w[l]] \in L
    BY <1>6, <1>7, Above
  <2> QED BY <1>0, <1>6, <2>1
<1> DEFINE Bad == {i \in 1..l : n \notin T[w[i]]}
<1>9. Bad = {}
  <2> SUFFICES ASSUME Bad # {} PROVE FALSE
    OBVIOUS
  <2>1. PICK i \in Bad : \A e \in Bad : i <= e
    <3>1. Bad \subseteq Nat
      OBVIOUS
    <3> HIDE DEF Bad
    <3> QED BY <3>1, LeastOfNaturals
  <2>2. i # 1
    <3>1. n \in T[w[1]]
      BY <1>6, TwoSides DEF Side
    <3> QED BY <2>1, <3>1
  <2>3. i - 1 \in 1..(l - 1) /\ (i - 1) + 1 = i /\ i - 1 \in 1..l /\ ~(i <= i - 1)
    BY <2>1, <2>2
  <2>4. i - 1 \notin Bad
    <3> HIDE DEF Bad
    <3> QED BY <2>1, <2>3
  <2>5. n \in T[w[i - 1]] /\ w[i] = t.parent[w[i - 1]] /\ w[i - 1] \in L /\ w[i] \in L
    BY <1>6, <2>1, <2>3, <2>4
  <2>6. w[i - 1] # t.root
    BY <1>0, <2>5
  <2>7. w[i - 1] \in T[w[i]]
    BY <2>5, <2>6, Above
  <2>8. T[w[i - 1]] \subseteq T[w[i]]
    BY <2>5, <2>7, Nested
  <2> QED BY <2>1, <2>5, <2>8
<1> DEFINE A == {m \in L : n \in T[m] /\ \A i \in 1..l : w[i] # m}
<1>10. A = {}
  <2> SUFFICES ASSUME A # {} PROVE FALSE
    OBVIOUS
  <2>1. PICK a \in A : \A s \in Side : t.child[a][s] \notin A
    <3>1. A \in SUBSET L
      OBVIOUS
    <3> HIDE DEF A
    <3> QED BY <3>1, LowestIn
  <2>2. n # a
    BY <1>6, <1>7, <2>1
  <2>3. PICK s \in Side : /\ n \in Under(t, T, a, s) /\ t.child[a][s] \in L
                          /\ t.parent[t.child[a][s]] = a
                          /\ Under(t, T, a, s) = T[t.child[a][s]]
    BY <2>1, <2>2, OnASide
  <2>4. PICK i \in 1..l : w[i] = t.child[a][s]
    BY <2>1, <2>3
  <2>5. t.parent[w[i]] = a /\ a # NULL
    BY <1>0, <2>1, <2>3, <2>4
  <2>6. i \in 1..(l - 1) /\ i + 1 \in 1..l
    BY <1>6, <2>5, <1>5
  <2> QED BY <1>6, <2>1, <2>5, <2>6
<1>11. {w[i] : i \in 1..l} = {m \in L : n \in T[m]}
  BY <1>6, <1>9, <1>10
<1> QED BY <1>4, <1>5, <1>8, <1>11

-----------------------------------------------------------------------------
(* What the assignments do to the links.                                    *)

ChildSet(t, n, s, c, u) ==
    /\ TreeType(u) /\ u.root = t.root /\ u.parent = t.parent /\ u.height = t.height
    /\ \A m \in Node, r \in Side : u.child[m][r] = IF m = n /\ r = s THEN c ELSE t.child[m][r]

LEMMA SetChildIs ==
    ASSUME NEW t, TreeType(t), NEW n \in Node, NEW s \in Side, NEW c \in Link,
           NEW u, u = SetChild(t, n, s, c)
    PROVE  ChildSet(t, n, s, c, u)
<1>1. /\ t.child \in [Node -> [Side -> Link]] /\ t.root \in Link
      /\ t.parent \in [Node -> Link] /\ t.height \in [Node -> Nat]
  BY DEF TreeType
<1>2. u = [t EXCEPT !.child[n][s] = c]
  BY DEF SetChild
<1>3. PICK ch : ch = [t.child EXCEPT ![n][s] = c]
  BY Zenon
<1>4. /\ u = [root |-> t.root, child |-> ch, parent |-> t.parent, height |-> t.height]
  BY <1>2, <1>3, Zenon DEF TreeType
<1>5. /\ ch \in [Node -> [Side -> Link]]
      /\ \A m \in Node, r \in Side : ch[m][r] = IF m = n /\ r = s THEN c ELSE t.child[m][r]
  BY <1>1, <1>3
<1>6. /\ u.root = t.root /\ u.parent = t.parent /\ u.height = t.height /\ u.child = ch
  BY <1>4
<1>7. TreeType(u)
  BY <1>1, <1>4, <1>5 DEF TreeType
<1> QED BY <1>5, <1>6, <1>7 DEF ChildSet

ParentSet(t, n, p, u) ==
    /\ TreeType(u) /\ u.root = t.root /\ u.child = t.child /\ u.height = t.height
    /\ \A m \in Node : u.parent[m] = IF m = n THEN p ELSE t.parent[m]

LEMMA SetParentIs ==
    ASSUME NEW t, TreeType(t), NEW n \in Link, NEW p \in Link,
           NEW u, u = SetParent(t, n, p)
    PROVE  ParentSet(t, n, p, u)
<1>1. CASE n = NULL
  BY <1>1, NodeAssumption DEF SetParent, ParentSet
<1>2. CASE n # NULL
  <2>1. n \in Node
    BY <1>2 DEF Link
  <2>2. u = [t EXCEPT !.parent = [@ EXCEPT ![n] = p]]
    BY <1>2 DEF SetParent
  <2> QED BY <2>1, <2>2, Zenon DEF TreeType, ParentSet
<1> QED BY <1>1, <1>2

\* The link to a node is the root or the one of its parent that leads to it.
LEMMA SetLinkIs ==
    ASSUME NEW t, NEW L, NEW T, Tree(t, L, T), NEW n \in L, NEW m \in Link,
           NEW u, u = SetLink(t, n, m)
    PROVE  /\ TreeType(u) /\ u.parent = t.parent /\ u.height = t.height
           /\ u.root = IF n = t.root THEN m ELSE t.root
           /\ \A a \in L, s \in Side :
                 u.child[a][s] = IF t.child[a][s] = n THEN m ELSE t.child[a][s]
<1>0. n \in Node /\ L \subseteq Node /\ TreeType(t) /\ t.root \in L /\ NULL \notin Node
  BY NodeAssumption DEF Tree
<1>1. n = t.root <=> t.parent[n] = NULL
  BY <1>0, Above DEF Tree
<1>2. CASE n = t.root
  <2>1. u = [t EXCEPT !.root = m]
    BY <1>1, <1>2 DEF SetLink
  <2>2. /\ TreeType(u) /\ u.parent = t.parent /\ u.height = t.height /\ u.root = m
        /\ u.child = t.child
    BY <1>0, <2>1 DEF TreeType
  <2>3. ASSUME NEW a \in L, NEW s \in Side PROVE t.child[a][s] # n
    <3>1. t.parent[n] = NULL /\ n # NULL /\ a # NULL
      BY <1>0, <1>1, <1>2
    <3> QED BY <3>1, TwoSides
  <2> QED BY <1>2, <2>2, <2>3
<1>3. CASE n # t.root
  <2>1. PICK p \in L : p = t.parent[n]
    BY <1>3, Above
  <2>2. PICK r \in Side : t.child[p][r] = n
    BY <1>3, <2>1 DEF Tree
  <2>3. \A a \in L, s \in Side : t.child[a][s] = n <=> a = p /\ s = r
    <3> SUFFICES ASSUME NEW a \in L, NEW s \in Side, t.child[a][s] = n PROVE a = p /\ s = r
      BY <2>2
    <3>1. t.parent[n] = a /\ t.child[a][s] # t.child[a][Opposite(s)]
      BY <1>0, TwoSides
    <3>2. a = p
      BY <2>1, <3>1
    <3>3. r # Opposite(s)
      BY <2>2, <3>1, <3>2
    <3> QED BY <3>2, <3>3, Sides
  <2>4. SideOf(t, n) = r
    <3>1. "left" \in Side /\ r \in {"left", "right"}
      BY DEF Side
    <3>2. t.child[p]["left"] = n <=> r = "left"
      BY <2>3, <3>1
    <3> QED BY <2>1, <3>1, <3>2 DEF SideOf
  <2>5. u = SetChild(t, p, r, m)
    BY <1>1, <1>3, <2>1, <2>4 DEF SetLink
  <2>6. /\ TreeType(u) /\ u.root = t.root /\ u.parent = t.parent /\ u.height = t.height
        /\ \A a \in Node, s \in Side :
              u.child[a][s] = IF a = p /\ s = r THEN m ELSE t.child[a][s]
    <3>1. ChildSet(t, p, r, m, u)
      BY <1>0, <2>5, SetChildIs
    <3> QED BY <3>1 DEF ChildSet
  <2> QED BY <1>0, <1>3, <2>3, <2>6
<1> QED BY <1>2, <1>3

\* A height is one more than the greater of those below.
Higher(a, b) == IF a > b THEN a ELSE b
HeightFrom(t, n) == 1 + Higher(GetHeight(t, t.child[n]["left"]), GetHeight(t, t.child[n]["right"]))

LEMMA HeightsAre ==
    ASSUME NEW t, TreeType(t), NEW n \in Node, NEW s \in Side
    PROVE  /\ GetHeight(t, t.child[n][s]) \in Nat /\ HeightFrom(t, n) \in Nat
           /\ HeightFrom(t, n) = 1 + Higher(GetHeight(t, t.child[n][s]),
                                            GetHeight(t, t.child[n][Opposite(s)]))
<1>1. ASSUME NEW r \in Side PROVE GetHeight(t, t.child[n][r]) \in Nat
  BY Types DEF GetHeight
<1>2. "left" \in Side /\ "right" \in Side
  BY DEF Side
<1>3. PICK a \in Nat : a = GetHeight(t, t.child[n]["left"])
  BY <1>1, <1>2
<1>4. PICK b \in Nat : b = GetHeight(t, t.child[n]["right"])
  BY <1>1, <1>2
<1>5. HeightFrom(t, n) = 1 + Higher(a, b) /\ Higher(a, b) = Higher(b, a) /\ Higher(a, b) \in Nat
  BY <1>3, <1>4 DEF HeightFrom, Higher
<1> QED BY <1>1, <1>3, <1>4, <1>5 DEF Side, Opposite

LEMMA RecalculateIs ==
    ASSUME NEW t, TreeType(t), NEW n \in Node, NEW u, u = RecalculateHeight(t, n)
    PROVE  /\ TreeType(u) /\ u.root = t.root /\ u.child = t.child /\ u.parent = t.parent
           /\ \A m \in Node : u.height[m] = IF m = n THEN HeightFrom(t, n) ELSE t.height[m]
<1>1. u = [t EXCEPT !.height = [@ EXCEPT ![n] = HeightFrom(t, n)]]
  BY DEF RecalculateHeight, HeightFrom, Higher
<1>2. HeightFrom(t, n) \in Nat
  BY HeightsAre DEF Side
<1> QED BY <1>1, <1>2, Zenon DEF TreeType

-----------------------------------------------------------------------------
(* What the operations do to the tree.                                      *)

\* Trees with the same links between the same nodes.
SameLinks(t, u, L) ==
    /\ u.root = t.root
    /\ \A n \in L : u.parent[n] = t.parent[n] /\ \A s \in Side : u.child[n][s] = t.child[n][s]

LEMMA SameTree ==
    ASSUME NEW t, NEW L, NEW T, NEW K, Tree(t, L, T), Ordered(t, L, T, K),
           NEW u, TreeType(u), SameLinks(t, u, L), NEW J, \A n \in L : J[n] = K[n]
    PROVE  Tree(u, L, T) /\ Ordered(u, L, T, J)
<1>0. "left" \in Side /\ "right" \in Side
  BY DEF Side
<1>1. ASSUME NEW n \in L, NEW s \in Side PROVE Under(u, T, n, s) = Under(t, T, n, s)
  BY DEF Under, SameLinks
<1>2. ASSUME NEW n \in L PROVE WellLinked(u, L, T, n)
  <2>1. WellLinked(t, L, T, n)
    BY DEF Tree
  <2>2. ASSUME NEW s \in Side, u.child[n][s] # NULL
        PROVE  u.child[n][s] \in L /\ u.parent[u.child[n][s]] = n
    <3>1. u.child[n][s] = t.child[n][s]
      BY DEF SameLinks
    <3>2. t.child[n][s] \in L /\ t.parent[t.child[n][s]] = n
      BY <2>1, <2>2, <3>1 DEF WellLinked
    <3> QED BY <3>1, <3>2 DEF SameLinks
  <2> QED BY <1>0, <1>1, <2>1, <2>2 DEF WellLinked
<1>3. ASSUME NEW n \in L, n # u.root
      PROVE  u.parent[n] \in L /\ \E s \in Side : u.child[u.parent[n]][s] = n
  BY <1>3 DEF Tree, SameLinks
<1>4. Tree(u, L, T)
  BY <1>2, <1>3 DEF Tree, SameLinks
<1>5. Ordered(u, L, T, J)
  <2> SUFFICES ASSUME NEW n \in L
               PROVE  /\ J[n] \in Nat
                      /\ \A s \in Side : \A m \in Under(u, T, n, s) : Before(s, J[m], J[n])
    BY DEF Ordered
  <2>1. ASSUME NEW s \in Side, NEW m \in Under(u, T, n, s) PROVE Before(s, J[m], J[n])
    <3>1. m \in Under(t, T, n, s) /\ m \in L
      BY <1>1, TwoSides
    <3> QED BY <3>1 DEF Ordered
  <2> QED BY <2>1 DEF Ordered
<1> QED BY <1>4, <1>5

\* The child c takes the place of n, which has no other: the code's *link = c with the
\* parent of c, if there is one.
Spliced(t, n, c) == SetParent(SetLink(t, n, c), c, t.parent[n])

SplicedLinks(t, L, n, c, u) ==
    /\ TreeType(u) /\ u.height = t.height
    /\ u.root = IF n = t.root THEN c ELSE t.root
    /\ \A a \in L, r \in Side : u.child[a][r] = IF t.child[a][r] = n THEN c ELSE t.child[a][r]
    /\ \A m \in Node : u.parent[m] = IF m = c THEN t.parent[n] ELSE t.parent[m]

Without(T, n) == [m \in Node |-> T[m] \ {n}]

LEMMA SpliceLinks ==
    ASSUME NEW t, NEW L, NEW T, Tree(t, L, T), NEW n \in L, NEW s \in Side,
           NEW c, c = t.child[n][s], NEW u, u = Spliced(t, n, c)
    PROVE  SplicedLinks(t, L, n, c, u)
<1>1. c \in Link /\ t.parent[n] \in Link
  BY TwoSides, Types DEF Tree
<1>2. PICK v : v = SetLink(t, n, c)
  OBVIOUS
<1>3. /\ TreeType(v) /\ v.parent = t.parent /\ v.height = t.height
      /\ v.root = IF n = t.root THEN c ELSE t.root
      /\ \A a \in L, r \in Side :
            v.child[a][r] = IF t.child[a][r] = n THEN c ELSE t.child[a][r]
  BY <1>1, <1>2, SetLinkIs
<1>4. u = SetParent(v, c, t.parent[n])
  BY <1>2 DEF Spliced
<1>5. /\ TreeType(u) /\ u.root = v.root /\ u.child = v.child /\ u.height = v.height
      /\ \A m \in Node : u.parent[m] = IF m = c THEN t.parent[n] ELSE v.parent[m]
  <2>1. ParentSet(v, c, t.parent[n], u)
    BY <1>1, <1>3, <1>4, SetParentIs
  <2> QED BY <2>1 DEF ParentSet
<1> QED BY <1>3, <1>5 DEF SplicedLinks

LEMMA SpliceTree ==
    ASSUME NEW t, NEW L, NEW T, NEW K, Tree(t, L, T), Ordered(t, L, T, K),
           NEW n \in L, NEW s \in Side, t.child[n][Opposite(s)] = NULL,
           NEW c, c = t.child[n][s], NEW u, u = Spliced(t, n, c)
    PROVE  Tree(u, L \ {n}, Without(T, n)) /\ Ordered(u, L \ {n}, Without(T, n), K)
<1> DEFINE V == Without(T, n)
           M == L \ {n}
<1>0. "left" \in Side /\ "right" \in Side /\ Opposite(s) \in Side
  BY DEF Side, Opposite
<1>1. /\ TreeType(u)
      /\ u.root = IF n = t.root THEN c ELSE t.root
      /\ \A a \in L, r \in Side :
            u.child[a][r] = IF t.child[a][r] = n THEN c ELSE t.child[a][r]
      /\ \A m \in Node : u.parent[m] = IF m = c THEN t.parent[n] ELSE t.parent[m]
  BY SpliceLinks DEF SplicedLinks
<1>2. /\ L \subseteq Node /\ n \in Node /\ NULL \notin Node /\ c \in Link
      /\ \A m \in Node : V[m] = T[m] \ {n}
      /\ V \in [Node -> SUBSET Node] /\ T \in [Node -> SUBSET Node]
  <2>1. V \in [Node -> SUBSET Node]
    BY DEF Without, Tree
  <2>2. \A m \in Node : V[m] = T[m] \ {n}
    BY DEF Without
  <2> QED BY <2>1, <2>2, TwoSides, NodeAssumption, Zenon DEF Tree
<1> HIDE DEF V
<1>3. T[n] = {n} \union Under(t, T, n, s) /\ n \notin Under(t, T, n, s)
  <2>1. T[n] = {n} \union Under(t, T, n, s) \union Under(t, T, n, Opposite(s))
    BY TwoSides
  <2>2. Under(t, T, n, Opposite(s)) = {}
    BY DEF Under
  <2> QED BY <2>1, <2>2, TwoSides
<1>4. c = NULL => T[n] \ {n} = {}
  BY <1>3, TwoSides, Zenon
<1>5. c # NULL => c \in M /\ V[c] = T[n] \ {n} /\ t.parent[c] = n
  <2> SUFFICES ASSUME c # NULL PROVE c \in M /\ V[c] = T[n] \ {n} /\ t.parent[c] = n
    OBVIOUS
  <2>1. c \in L /\ c # n /\ Under(t, T, n, s) = T[c] /\ t.parent[c] = n /\ c \in Node
    BY TwoSides
  <2> QED BY <1>2, <1>3, <2>1
<1>6. ASSUME NEW a \in M, NEW r \in Side
      PROVE  /\ Under(u, V, a, r) = Under(t, T, a, r) \ {n}
             /\ u.child[a][r] # NULL => u.child[a][r] \in M /\ u.parent[u.child[a][r]] = a
  <2>1. CASE t.child[a][r] = n
    <3>1. u.child[a][r] = c /\ Under(t, T, a, r) = T[n] /\ t.parent[n] = a
      BY <1>1, <1>2, <2>1, TwoSides
    <3>2. CASE c = NULL
      BY <1>4, <3>1, <3>2 DEF Under
    <3>3. CASE c # NULL
      <4>1. Under(u, V, a, r) = V[c]
        BY <3>1, <3>3 DEF Under
      <4>2. u.parent[c] = t.parent[n]
        BY <1>1, <1>2, <1>5, <3>3
      <4> QED BY <1>5, <3>1, <3>3, <4>1, <4>2
    <3> QED BY <3>2, <3>3
  <2>2. CASE t.child[a][r] # n /\ t.child[a][r] # NULL
    <3>1. PICK b \in M : b = t.child[a][r] /\ b \in Node /\ t.parent[b] = a /\ Under(t, T, a, r) = T[b]
      BY <2>2, TwoSides
    <3>2. u.child[a][r] = b /\ b # NULL
      BY <1>1, <1>2, <2>2, <3>1
    <3>3. Under(u, V, a, r) = V[b]
      BY <3>2 DEF Under
    <3>4. b # c
      BY <1>2, <1>5, <3>1
    <3>5. u.parent[b] = a
      BY <1>1, <3>1, <3>4
    <3> QED BY <1>2, <3>1, <3>2, <3>3, <3>5
  <2>3. CASE t.child[a][r] = NULL
    <3>1. u.child[a][r] = NULL
      BY <1>1, <1>2, <2>3
    <3> QED BY <2>3, <3>1 DEF Under
  <2> QED BY <2>1, <2>2, <2>3
<1>7. ASSUME NEW a \in M PROVE WellLinked(u, M, V, a)
  <2>1. WellLinked(t, L, T, a) /\ a # n /\ a \in Node
    BY <1>2 DEF Tree
  <2>2. /\ Under(u, V, a, "left") = Under(t, T, a, "left") \ {n}
        /\ Under(u, V, a, "right") = Under(t, T, a, "right") \ {n}
    BY <1>0, <1>6
  <2>3. V[a] = T[a] \ {n}
    BY <1>2, <2>1
  <2>4. \A r \in Side : a \notin Under(u, V, a, r)
    BY <1>6, <2>1 DEF WellLinked
  <2>5. V[a] = {a} \union Under(u, V, a, "left") \union Under(u, V, a, "right")
    <3>1. T[a] = {a} \union Under(t, T, a, "left") \union Under(t, T, a, "right")
      BY <2>1 DEF WellLinked
    <3> QED BY ONLY <2>1, <2>2, <2>3, <3>1
  <2>6. /\ V[a] \subseteq M
        /\ Under(u, V, a, "left") \intersect Under(u, V, a, "right") = {}
    <3>1. T[a] \subseteq L /\ Under(t, T, a, "left") \intersect Under(t, T, a, "right") = {}
      BY <2>1 DEF WellLinked
    <3> QED BY <2>2, <2>3, <3>1
  <2> QED BY <1>6, <2>4, <2>5, <2>6 DEF WellLinked
<1>8. ASSUME NEW a \in M, a # u.root
      PROVE  u.parent[a] \in M /\ \E r \in Side : u.child[u.parent[a]][r] = a
  <2>0. a \in Node /\ a \in L /\ a # n
    BY <1>2
  <2>1. CASE a = c
    <3>1. n # t.root
      BY <1>1, <1>8, <2>1
    <3>2. PICK p \in L : p = t.parent[n] /\ p # n
      BY <3>1, Above
    <3>3. PICK r \in Side : t.child[p][r] = n
      BY <3>1, <3>2 DEF Tree
    <3>4. u.child[p][r] = c
      BY <1>1, <3>2, <3>3
    <3>5. u.parent[a] = p
      BY <1>1, <2>0, <2>1, <3>2
    <3> QED BY <2>1, <3>2, <3>4, <3>5
  <2>2. CASE a # c
    <3>1. a # t.root
      BY <1>1, <1>8, <2>0, <2>2
    <3>2. PICK p \in L : p = t.parent[a]
      BY <2>0, <3>1, Above
    <3>3. PICK r \in Side : t.child[p][r] = a
      BY <2>0, <3>1, <3>2 DEF Tree
    <3>4. p # n
      <4> SUFFICES ASSUME p = n PROVE FALSE
        OBVIOUS
      <4>1. r = s \/ r = Opposite(s)
        BY Sides
      <4> QED BY <1>2, <2>0, <2>2, <3>3, <4>1
    <3>5. u.child[p][r] = a /\ u.parent[a] = p
      BY <1>1, <2>0, <2>2, <3>2, <3>3
    <3> QED BY <3>2, <3>4, <3>5
  <2> QED BY <2>1, <2>2
<1>9. /\ u.root = NULL => M = {}
      /\ u.root # NULL => u.root \in M /\ V[u.root] = M /\ u.parent[u.root] = NULL
  <2>0. t.root \in L /\ T[t.root] = L /\ t.parent[t.root] = NULL
    BY DEF Tree
  <2>1. CASE n = t.root
    <3>1. u.root = c /\ T[n] = L /\ t.parent[n] = NULL
      BY <1>1, <2>0, <2>1
    <3>2. c # NULL => u.parent[c] = NULL
      BY <1>1, <1>2, <1>5, <3>1
    <3> QED BY <1>4, <1>5, <3>1, <3>2
  <2>2. CASE n # t.root
    <3>1. u.root = t.root /\ t.root \in M /\ t.root \in Node
      BY <1>1, <1>2, <2>0, <2>2
    <3>2. t.root # c
      BY <1>2, <1>5, <2>0, <3>1
    <3>3. u.parent[t.root] = NULL
      BY <1>1, <2>0, <3>1, <3>2
    <3> QED BY <1>2, <2>0, <3>1, <3>3
  <2> QED BY <2>1, <2>2
<1>10. Tree(u, M, V)
  BY <1>1, <1>2, <1>7, <1>8, <1>9, Zenon DEF Tree
<1>11. Ordered(u, M, V, K)
  BY <1>6 DEF Ordered
<1> QED BY <1>10, <1>11 DEF V

\* v is put in the place of n.
Replaced(t, n, v, p) ==
    LET up == SetParent(SetLink(t, n, v), v, p)
        left == SetParent(SetChild(up, v, "left", up.child[n]["left"]), up.child[n]["left"], v)
    IN  SetParent(SetChild(left, v, "right", left.child[n]["right"]), left.child[n]["right"], v)

ReplacedIn(T, n, v) ==
    [m \in Node |-> IF m = v THEN (T[n] \ {n}) \union {v}
                    ELSE IF n \in T[m] THEN (T[m] \ {n}) \union {v} ELSE T[m]]

\* The key of v is among the others where that of n is.
Fits(L, K, n, v) ==
    /\ K[v] \in Nat
    /\ \A m \in L \ {n}, s \in Side : Before(s, K[m], K[n]) => Before(s, K[m], K[v])

LEMMA ReplaceLinks ==
    ASSUME NEW t, NEW L, NEW T, Tree(t, L, T), NEW n \in L, NEW v \in Node, v \notin L,
           NEW u, u = Replaced(t, n, v, t.parent[n])
    PROVE  /\ TreeType(u) /\ u.height = t.height
           /\ u.root = IF n = t.root THEN v ELSE t.root
           /\ \A a \in L, r \in Side :
                 u.child[a][r] = IF t.child[a][r] = n THEN v ELSE t.child[a][r]
           /\ \A r \in Side : u.child[v][r] = t.child[n][r]
           /\ u.parent[v] = t.parent[n]
           /\ \A m \in L : u.parent[m] = IF \E r \in Side : t.child[n][r] = m THEN v
                                         ELSE t.parent[m]
<1>0. /\ "left" \in Side /\ "right" \in Side /\ Side = {"left", "right"} /\ v \in Link
      /\ TreeType(t) /\ L \subseteq Node /\ n \in Node /\ t.parent[n] \in Link /\ NULL \notin Node
  BY NodeAssumption, Types DEF Side, Tree, Link
<1>1. PICK x : x = SetLink(t, n, v)
  OBVIOUS
<1>2. /\ TreeType(x) /\ x.parent = t.parent /\ x.height = t.height
      /\ x.root = IF n = t.root THEN v ELSE t.root
      /\ \A a \in L, r \in Side :
            x.child[a][r] = IF t.child[a][r] = n THEN v ELSE t.child[a][r]
  BY <1>0, <1>1, SetLinkIs
<1>3. PICK up : up = SetParent(x, v, t.parent[n])
  OBVIOUS
<1>4. /\ TreeType(up) /\ up.root = x.root /\ up.child = x.child /\ up.height = x.height
      /\ \A m \in Node : up.parent[m] = IF m = v THEN t.parent[n] ELSE x.parent[m]
  <2>1. ParentSet(x, v, t.parent[n], up)
    BY <1>0, <1>2, <1>3, SetParentIs
  <2> QED BY <2>1 DEF ParentSet
<1>5. \A r \in Side : up.child[n][r] = t.child[n][r] /\ t.child[n][r] \in Link /\ t.child[n][r] # v
  <2> SUFFICES ASSUME NEW r \in Side
               PROVE  up.child[n][r] = t.child[n][r] /\ t.child[n][r] \in Link /\ t.child[n][r] # v
    OBVIOUS
  <2>1. t.child[n][r] # n
    BY <1>0, TwoSides
  <2>2. t.child[n][r] # NULL => t.child[n][r] \in L
    BY TwoSides
  <2> QED BY <1>0, <1>2, <1>4, <2>1, <2>2, Types
<1> PICK l : l = t.child[n]["left"]
  OBVIOUS
<1> PICK e : e = t.child[n]["right"]
  OBVIOUS
<1>100. l \in Link /\ e \in Link /\ l # v /\ e # v
  BY <1>0, <1>5
<1>6. PICK y : y = SetChild(up, v, "left", l)
  OBVIOUS
<1>7. /\ TreeType(y) /\ y.root = up.root /\ y.parent = up.parent /\ y.height = up.height
      /\ \A m \in Node, r \in Side :
            y.child[m][r] = IF m = v /\ r = "left" THEN l ELSE up.child[m][r]
  <2>1. TreeType(up) /\ "left" \in Side /\ l \in Link
    BY <1>0, <1>4, <1>100
  <2>2. ChildSet(up, v, "left", l, y)
    BY <1>6, <2>1, SetChildIs
  <2> QED BY <2>2 DEF ChildSet
<1>8. PICK left : left = SetParent(y, l, v)
  OBVIOUS
<1>9. /\ TreeType(left) /\ left.root = y.root /\ left.child = y.child /\ left.height = y.height
      /\ \A m \in Node : left.parent[m] = IF m = l THEN v ELSE y.parent[m]
  <2>1. TreeType(y) /\ v \in Link /\ l \in Link
    BY <1>0, <1>7, <1>100
  <2>2. ParentSet(y, l, v, left)
    BY <1>8, <2>1, SetParentIs
  <2> QED BY <2>2 DEF ParentSet
<1>10. left.child[n]["right"] = e
  BY <1>0, <1>5, <1>7, <1>9
<1>11. PICK z : z = SetChild(left, v, "right", e)
  OBVIOUS
<1>12. /\ TreeType(z) /\ z.root = left.root /\ z.parent = left.parent /\ z.height = left.height
       /\ \A m \in Node, r \in Side :
             z.child[m][r] = IF m = v /\ r = "right" THEN e ELSE left.child[m][r]
  <2>1. TreeType(left) /\ "right" \in Side /\ e \in Link
    BY <1>0, <1>9, <1>100
  <2>2. ChildSet(left, v, "right", e, z)
    BY <1>11, <2>1, SetChildIs
  <2> QED BY <2>2 DEF ChildSet
<1>13. u = SetParent(z, e, v)
  <2>1. up.child[n]["left"] = l
    BY <1>0, <1>5
  <2> QED BY <1>1, <1>3, <1>6, <1>8, <1>10, <1>11, <2>1, Zenon DEF Replaced
<1>14. /\ TreeType(u) /\ u.root = z.root /\ u.child = z.child /\ u.height = z.height
       /\ \A m \in Node : u.parent[m] = IF m = e THEN v ELSE z.parent[m]
  <2>1. TreeType(z) /\ v \in Link /\ e \in Link
    BY <1>0, <1>12, <1>100
  <2>2. ParentSet(z, e, v, u)
    BY <1>13, <2>1, SetParentIs
  <2> QED BY <2>2 DEF ParentSet
<1>15. /\ u.height = t.height
       /\ u.root = IF n = t.root THEN v ELSE t.root
  BY <1>2, <1>4, <1>7, <1>9, <1>12, <1>14
<1>16. \A a \in L, r \in Side : u.child[a][r] = IF t.child[a][r] = n THEN v ELSE t.child[a][r]
  <2> SUFFICES ASSUME NEW a \in L, NEW r \in Side
               PROVE  u.child[a][r] = IF t.child[a][r] = n THEN v ELSE t.child[a][r]
    OBVIOUS
  <2>1. u.child[a][r] = x.child[a][r]
    BY <1>0, <1>4, <1>7, <1>9, <1>12, <1>14
  <2> QED BY <1>2, <2>1
<1>17. \A r \in Side : u.child[v][r] = t.child[n][r]
  BY <1>0, <1>7, <1>9, <1>12, <1>14, <1>100
<1>18. u.parent[v] = t.parent[n]
  BY <1>0, <1>4, <1>100, <1>7, <1>9, <1>12, <1>14
<1>19. \A m \in L : u.parent[m] = IF \E r \in Side : t.child[n][r] = m THEN v ELSE t.parent[m]
  <2> SUFFICES ASSUME NEW m \in L
               PROVE  u.parent[m] = IF \E r \in Side : t.child[n][r] = m THEN v ELSE t.parent[m]
    OBVIOUS
  <2>1. u.parent[m] = IF m = t.child[n]["right"] THEN v
                      ELSE IF m = t.child[n]["left"] THEN v ELSE t.parent[m]
    BY <1>0, <1>2, <1>4, <1>7, <1>9, <1>12, <1>14
  <2> QED BY <1>0, <2>1
<1> QED BY <1>14, <1>15, <1>16, <1>17, <1>18, <1>19

LEMMA ReplaceTree ==
    ASSUME NEW t, NEW L, NEW T, NEW K, Tree(t, L, T), Ordered(t, L, T, K),
           NEW n \in L, NEW v \in Node, v \notin L, Fits(L, K, n, v),
           NEW u, u = Replaced(t, n, v, t.parent[n])
    PROVE  /\ Tree(u, (L \ {n}) \union {v}, ReplacedIn(T, n, v))
           /\ Ordered(u, (L \ {n}) \union {v}, ReplacedIn(T, n, v), K)
<1> DEFINE V == ReplacedIn(T, n, v)
           M == (L \ {n}) \union {v}
<1>0. "left" \in Side /\ "right" \in Side
  BY DEF Side
<1>1. /\ TreeType(u)
      /\ u.root = IF n = t.root THEN v ELSE t.root
      /\ \A a \in L, r \in Side :
            u.child[a][r] = IF t.child[a][r] = n THEN v ELSE t.child[a][r]
      /\ \A r \in Side : u.child[v][r] = t.child[n][r]
      /\ u.parent[v] = t.parent[n]
      /\ \A m \in L : u.parent[m] = IF \E r \in Side : t.child[n][r] = m THEN v
                                    ELSE t.parent[m]
  BY ReplaceLinks
<1>2. /\ L \subseteq Node /\ n \in Node /\ NULL \notin Node
      /\ V \in [Node -> SUBSET Node] /\ T \in [Node -> SUBSET Node]
      /\ V[v] = (T[n] \ {n}) \union {v}
      /\ \A m \in L : V[m] = IF n \in T[m] THEN (T[m] \ {n}) \union {v} ELSE T[m]
  <2>1. V \in [Node -> SUBSET Node]
    BY DEF ReplacedIn, Tree
  <2>2. V[v] = (T[n] \ {n}) \union {v}
    BY DEF ReplacedIn
  <2>3. \A m \in L : m \in Node /\ m # v
    BY DEF Tree
  <2>4. \A m \in L : V[m] = IF n \in T[m] THEN (T[m] \ {n}) \union {v} ELSE T[m]
    BY <2>3 DEF ReplacedIn
  <2> QED BY <2>1, <2>2, <2>4, NodeAssumption, Zenon DEF Tree
<1> HIDE DEF V
<1>3. ASSUME NEW a \in L \ {n}, NEW r \in Side
      PROVE  /\ Under(u, V, a, r) = IF n \in Under(t, T, a, r)
                                    THEN (Under(t, T, a, r) \ {n}) \union {v} ELSE Under(t, T, a, r)
             /\ u.child[a][r] # NULL => u.child[a][r] \in M /\ u.parent[u.child[a][r]] = a
  <2>1. CASE t.child[a][r] = n
    <3>1. u.child[a][r] = v /\ Under(t, T, a, r) = T[n] /\ t.parent[n] = a /\ n \in T[n]
      BY <1>1, <1>2, <2>1, TwoSides
    <3>2. Under(u, V, a, r) = V[v]
      BY <1>2, <3>1 DEF Under
    <3> QED BY <1>1, <1>2, <3>1, <3>2
  <2>2. CASE t.child[a][r] # n /\ t.child[a][r] # NULL
    <3>1. PICK b \in L \ {n} : b = t.child[a][r] /\ t.parent[b] = a /\ Under(t, T, a, r) = T[b]
      BY <2>2, TwoSides
    <3>2. u.child[a][r] = b /\ b # NULL
      BY <1>1, <1>2, <2>2, <3>1
    <3>3. Under(u, V, a, r) = V[b]
      BY <3>2 DEF Under
    <3>4. ~\E q \in Side : t.child[n][q] = b
      <4> SUFFICES ASSUME NEW q \in Side, t.child[n][q] = b PROVE FALSE
        OBVIOUS
      <4>1. t.parent[b] = n
        BY <3>2, TwoSides
      <4> QED BY <3>1, <4>1
    <3>5. u.parent[b] = a
      BY <1>1, <3>1, <3>4
    <3> QED BY <1>2, <3>1, <3>2, <3>3, <3>5, Zenon
  <2>3. CASE t.child[a][r] = NULL
    <3>1. u.child[a][r] = NULL
      BY <1>1, <1>2, <2>3
    <3> QED BY <2>3, <3>1 DEF Under
  <2> QED BY <2>1, <2>2, <2>3
<1>4. ASSUME NEW r \in Side
      PROVE  /\ Under(u, V, v, r) = Under(t, T, n, r)
             /\ u.child[v][r] # NULL => u.child[v][r] \in M /\ u.parent[u.child[v][r]] = v
  <2>1. u.child[v][r] = t.child[n][r]
    BY <1>1
  <2>2. CASE t.child[n][r] = NULL
    BY <2>1, <2>2 DEF Under
  <2>3. CASE t.child[n][r] # NULL
    <3>1. PICK b \in L \ {n} : b = t.child[n][r] /\ Under(t, T, n, r) = T[b] /\ n \notin T[b]
      BY <2>3, TwoSides
    <3>2. Under(u, V, v, r) = V[b]
      BY <2>1, <2>3, <3>1 DEF Under
    <3>3. V[b] = T[b] /\ u.parent[b] = v
      BY <1>1, <1>2, <3>1, Zenon
    <3> QED BY <2>1, <3>1, <3>2, <3>3
  <2> QED BY <2>2, <2>3
<1>5. ASSUME NEW a \in L \ {n} PROVE WellLinked(u, M, V, a)
  <2>1. WellLinked(t, L, T, a) /\ a # n /\ a # v /\ a \in Node
    BY <1>2 DEF Tree
  <2>2. ASSUME NEW r \in Side
        PROVE  Under(u, V, a, r) = IF n \in Under(t, T, a, r)
                                   THEN (Under(t, T, a, r) \ {n}) \union {v} ELSE Under(t, T, a, r)
    BY <1>3
  <2>3. V[a] = IF n \in T[a] THEN (T[a] \ {n}) \union {v} ELSE T[a]
    BY <1>2
  <2>4. v \notin T[a] /\ T[a] \subseteq L
    BY <2>1 DEF WellLinked
  <2>5. T[a] = {a} \union Under(t, T, a, "left") \union Under(t, T, a, "right")
    BY <2>1 DEF WellLinked
  <2>6. V[a] \subseteq M
    BY <2>3, <2>4
  <2>7. V[a] = {a} \union Under(u, V, a, "left") \union Under(u, V, a, "right")
    <3>1. /\ Under(u, V, a, "left") = IF n \in Under(t, T, a, "left")
                THEN (Under(t, T, a, "left") \ {n}) \union {v} ELSE Under(t, T, a, "left")
          /\ Under(u, V, a, "right") = IF n \in Under(t, T, a, "right")
                THEN (Under(t, T, a, "right") \ {n}) \union {v} ELSE Under(t, T, a, "right")
      BY <1>0, <2>2
    <3> QED BY ONLY <2>1, <2>3, <2>5, <3>1
  <2>8. Under(u, V, a, "left") \intersect Under(u, V, a, "right") = {}
    <3>1. Under(t, T, a, "left") \intersect Under(t, T, a, "right") = {}
      BY <2>1 DEF WellLinked
    <3> QED BY <1>0, <2>2, <2>4, <2>5, <3>1, Zenon
  <2>9. \A r \in Side : a \notin Under(u, V, a, r)
    BY <2>1, <2>2, Zenon DEF WellLinked
  <2>10. \A r \in Side : u.child[a][r] # NULL =>
            u.child[a][r] \in M /\ u.parent[u.child[a][r]] = a
    BY <1>3, Zenon
  <2> QED BY <2>6, <2>7, <2>8, <2>9, <2>10 DEF WellLinked
<1>6. WellLinked(u, M, V, v)
  <2>1. WellLinked(t, L, T, n)
    BY DEF Tree
  <2>2. /\ Under(u, V, v, "left") = Under(t, T, n, "left")
        /\ Under(u, V, v, "right") = Under(t, T, n, "right")
    BY <1>0, <1>4
  <2>3. v \notin T[n] /\ T[n] \subseteq L
    BY <2>1 DEF WellLinked
  <2>4. V[v] \subseteq M
    BY <1>2, <2>3
  <2>5. V[v] = {v} \union Under(u, V, v, "left") \union Under(u, V, v, "right")
    BY <1>0, <1>2, <2>1, <2>2 DEF WellLinked
  <2>6. \A r \in Side : v \notin Under(u, V, v, r)
    <3>1. \A r \in Side : Under(t, T, n, r) \subseteq T[n]
      BY TwoSides
    <3> QED BY <1>4, <2>3, <3>1
  <2>7. Under(u, V, v, "left") \intersect Under(u, V, v, "right") = {}
    BY <2>1, <2>2 DEF WellLinked
  <2> QED BY <1>4, <2>4, <2>5, <2>6, <2>7 DEF WellLinked
<1>7. ASSUME NEW a \in M, a # u.root
      PROVE  u.parent[a] \in M /\ \E r \in Side : u.child[u.parent[a]][r] = a
  <2>1. CASE a = v
    <3>1. n # t.root
      BY <1>1, <1>7, <2>1
    <3>2. PICK p \in L : p = t.parent[n] /\ p # n
      BY <3>1, Above
    <3>3. PICK r \in Side : t.child[p][r] = n
      BY <3>1, <3>2 DEF Tree
    <3>4. u.child[p][r] = v
      BY <1>1, <3>2, <3>3
    <3> QED BY <1>1, <2>1, <3>2, <3>4
  <2>2. CASE a # v
    <3>0. a \in L /\ a # n
      BY <2>2
    <3>1. a # t.root
      BY <1>1, <1>7, <3>0
    <3>2. PICK p \in L : p = t.parent[a]
      BY <3>0, <3>1, Above
    <3>3. PICK r \in Side : t.child[p][r] = a
      BY <3>0, <3>1, <3>2 DEF Tree
    <3>4. CASE p = n
      <4>1. u.parent[a] = v /\ u.child[v][r] = a
        BY <1>1, <3>0, <3>3, <3>4
      <4> QED BY <4>1
    <3>5. CASE p # n
      <4>1. ~\E q \in Side : t.child[n][q] = a
        <5> SUFFICES ASSUME NEW q \in Side, t.child[n][q] = a PROVE FALSE
          OBVIOUS
        <5>1. t.parent[a] = n
          BY <1>2, <3>0, TwoSides
        <5> QED BY <3>2, <3>5, <5>1
      <4>2. u.parent[a] = p /\ u.child[p][r] = a
        BY <1>1, <3>0, <3>2, <3>3, <4>1
      <4> QED BY <3>5, <4>2
    <3> QED BY <3>4, <3>5
  <2> QED BY <2>1, <2>2
<1>8. /\ u.root = NULL => M = {}
      /\ u.root # NULL => u.root \in M /\ V[u.root] = M /\ u.parent[u.root] = NULL
  <2>0. t.root \in L /\ T[t.root] = L /\ t.parent[t.root] = NULL
    BY DEF Tree
  <2>1. CASE n = t.root
    BY <1>1, <1>2, <2>0, <2>1
  <2>2. CASE n # t.root
    <3>1. u.root = t.root /\ t.root \in L \ {n} /\ n \in T[t.root]
      BY <1>1, <2>0, <2>2
    <3>2. ~\E q \in Side : t.child[n][q] = t.root
      <4> SUFFICES ASSUME NEW q \in Side, t.child[n][q] = t.root PROVE FALSE
        OBVIOUS
      <4>1. t.parent[t.root] = n
        BY <1>2, <2>0, TwoSides
      <4> QED BY <1>2, <2>0, <4>1
    <3>3. u.parent[t.root] = NULL
      BY <1>1, <2>0, <3>2
    <3> QED BY <1>2, <2>0, <3>1, <3>3, Zenon
  <2> QED BY <2>1, <2>2
<1>9. Tree(u, M, V)
  <2>1. M \subseteq Node
    BY <1>2
  <2>2. \A a \in M : WellLinked(u, M, V, a)
    BY <1>5, <1>6
  <2> QED BY <1>1, <1>2, <1>7, <1>8, <2>1, <2>2, Zenon DEF Tree
<1>10. ASSUME NEW a \in M
       PROVE  /\ K[a] \in Nat
              /\ \A r \in Side : \A m \in Under(u, V, a, r) : Before(r, K[m], K[a])
  <2>1. K[a] \in Nat
    BY DEF Ordered, Fits
  <2>2. ASSUME NEW r \in Side, NEW m \in Under(u, V, a, r) PROVE Before(r, K[m], K[a])
    <3>1. CASE a = v
      <4>1. m \in Under(t, T, n, r) /\ m \in L \ {n}
        BY <1>4, <2>2, <3>1, TwoSides
      <4>2. Before(r, K[m], K[n])
        BY <4>1 DEF Ordered
      <4> QED BY <3>1, <4>1, <4>2 DEF Fits
    <3>2. CASE a # v /\ m = v
      <4>1. a \in L \ {n} /\ v \notin Under(t, T, a, r)
        <5>1. a \in L
          BY <3>2
        <5> QED BY <3>2, <5>1, TwoSides
      <4>2. n \in Under(t, T, a, r)
        BY <1>3, <2>2, <3>2, <4>1, Zenon
      <4>3. Before(r, K[n], K[a]) /\ K[n] \in Nat /\ K[v] \in Nat
        BY <4>1, <4>2 DEF Ordered, Fits
      <4>4. Before(Opposite(r), K[a], K[n]) /\ Opposite(r) \in Side
        BY <2>1, <4>3, Befores, Sides
      <4>5. Before(Opposite(r), K[a], K[v])
        BY <4>1, <4>4 DEF Fits
      <4> QED BY <2>1, <3>2, <4>3, <4>5, Befores
    <3>3. CASE a # v /\ m # v
      <4>1. a \in L \ {n}
        BY <3>3
      <4>2. m \in Under(t, T, a, r)
        <5>1. Under(u, V, a, r) = IF n \in Under(t, T, a, r)
                                  THEN (Under(t, T, a, r) \ {n}) \union {v} ELSE Under(t, T, a, r)
          BY <1>3, <4>1
        <5> QED BY <2>2, <3>3, <5>1
      <4> QED BY <4>1, <4>2 DEF Ordered
    <3> QED BY <3>1, <3>2, <3>3
  <2> QED BY <2>1, <2>2
<1>11. Ordered(u, M, V, K)
  BY <1>10 DEF Ordered
<1> QED BY <1>9, <1>11 DEF V

\* What Rotate leaves: c is above n, which has the child of c between them.
RotatedLinks(t, L, n, s, c, u) ==
    /\ TreeType(u)
    /\ u.root = IF n = t.root THEN c ELSE t.root
    /\ u.child[n][s] = t.child[n][s] /\ u.child[n][Opposite(s)] = t.child[c][s]
    /\ u.child[c][s] = n /\ u.child[c][Opposite(s)] = t.child[c][Opposite(s)]
    /\ \A a \in L \ {n, c}, r \in Side :
          u.child[a][r] = IF t.child[a][r] = n THEN c ELSE t.child[a][r]
    /\ u.parent[c] = t.parent[n] /\ u.parent[n] = c
    /\ \A m \in L \ {n, c} : u.parent[m] = IF m = t.child[c][s] THEN n ELSE t.parent[m]

LEMMA RotateLinks ==
    ASSUME NEW t, NEW L, NEW T, Tree(t, L, T), NEW n \in L, NEW s \in Side,
           NEW c, c = t.child[n][Opposite(s)], c # NULL, NEW u, u = Rotate(t, n, s)
    PROVE  /\ RotatedLinks(t, L, n, s, c, u)
           /\ \A m \in Node \ {n, c} : u.height[m] = t.height[m]
           /\ u.height[n] = HeightFrom(u, n) /\ u.height[c] = HeightFrom(u, c)
<1> PICK o : o = Opposite(s)
  OBVIOUS
<1>0. /\ o \in Side /\ o # s /\ Opposite(o) = s /\ Side = {s, o}
      /\ TreeType(t) /\ L \subseteq Node /\ NULL \notin Node /\ n \in Node /\ n \in Link
  BY Sides, NodeAssumption DEF Tree, Link
<1>1. /\ c \in L /\ c \in Node /\ c # n /\ t.parent[c] = n /\ c # t.child[n][s] /\ c \in Link
      /\ t.child[n][o] = c
  BY <1>0, TwoSides DEF Link
<1> PICK i : i = t.child[c][s]
  OBVIOUS
<1>2. i \in Link /\ i # c /\ i # n
  <2>1. i \in Link /\ (i # NULL => i # c /\ t.parent[i] = c)
    BY <1>0, <1>1, TwoSides
  <2>2. t.parent[n] # c
    <3> SUFFICES ASSUME t.parent[n] = c PROVE FALSE
      OBVIOUS
    <3>1. n # t.root
      BY <1>0, <1>1 DEF Tree
    <3>2. n \in T[c]
      BY <3>1, Above
    <3>3. c \in T[n]
      BY <1>0, <1>1, TwoSides
    <3> QED BY <1>1, <3>2, <3>3, OneAbove
  <2>3. i # n
    BY <1>0, <2>1, <2>2
  <2> QED BY <1>0, <1>1, <2>1, <2>3
<1>3. PICK out : out = Spliced(t, n, c)
  OBVIOUS
<1>4. /\ TreeType(out) /\ out.height = t.height
      /\ out.root = IF n = t.root THEN c ELSE t.root
      /\ \A a \in L, r \in Side :
            out.child[a][r] = IF t.child[a][r] = n THEN c ELSE t.child[a][r]
      /\ \A m \in Node : out.parent[m] = IF m = c THEN t.parent[n] ELSE t.parent[m]
  <2>1. SplicedLinks(t, L, n, c, out)
    BY <1>0, <1>1, <1>3, SpliceLinks
  <2> QED BY <2>1 DEF SplicedLinks
<1>5. PICK x : x = SetChild(out, n, o, i)
  OBVIOUS
<1>6. /\ TreeType(x) /\ x.root = out.root /\ x.parent = out.parent /\ x.height = out.height
      /\ \A m \in Node, r \in Side :
            x.child[m][r] = IF m = n /\ r = o THEN i ELSE out.child[m][r]
  <2>1. TreeType(out) /\ n \in Node /\ o \in Side /\ i \in Link
    BY <1>0, <1>2, <1>4
  <2>2. ChildSet(out, n, o, i, x)
    BY <1>5, <2>1, SetChildIs
  <2> QED BY <2>2 DEF ChildSet
<1>7. PICK down : down = SetParent(x, i, n)
  OBVIOUS
<1>8. /\ TreeType(down) /\ down.root = x.root /\ down.child = x.child /\ down.height = x.height
      /\ \A m \in Node : down.parent[m] = IF m = i THEN n ELSE x.parent[m]
  <2>1. TreeType(x) /\ i \in Link /\ n \in Link
    BY <1>0, <1>2, <1>6
  <2>2. ParentSet(x, i, n, down)
    BY <1>7, <2>1, SetParentIs
  <2> QED BY <2>2 DEF ParentSet
<1>9. PICK y : y = SetChild(down, c, s, n)
  OBVIOUS
<1>10. /\ TreeType(y) /\ y.root = down.root /\ y.parent = down.parent /\ y.height = down.height
       /\ \A m \in Node, r \in Side :
             y.child[m][r] = IF m = c /\ r = s THEN n ELSE down.child[m][r]
  <2>1. TreeType(down) /\ c \in Node /\ n \in Link
    BY <1>0, <1>1, <1>8
  <2>2. ChildSet(down, c, s, n, y)
    BY <1>9, <2>1, SetChildIs
  <2> QED BY <2>2 DEF ChildSet
<1>11. PICK up : up = SetParent(y, n, c)
  OBVIOUS
<1>12. /\ TreeType(up) /\ up.root = y.root /\ up.child = y.child /\ up.height = y.height
       /\ \A m \in Node : up.parent[m] = IF m = n THEN c ELSE y.parent[m]
  <2>1. TreeType(y) /\ c \in Link /\ n \in Link
    BY <1>0, <1>1, <1>10
  <2>2. ParentSet(y, n, c, up)
    BY <1>11, <2>1, SetParentIs
  <2> QED BY <2>2 DEF ParentSet
<1>13. PICK z : z = RecalculateHeight(up, n)
  OBVIOUS
<1>14. /\ TreeType(z) /\ z.root = up.root /\ z.child = up.child /\ z.parent = up.parent
       /\ \A m \in Node : z.height[m] = IF m = n THEN HeightFrom(up, n) ELSE up.height[m]
  <2>1. TreeType(up) /\ n \in Node
    BY <1>0, <1>12
  <2> QED BY <1>13, <2>1, RecalculateIs
<1>15. u = RecalculateHeight(z, c)
  <2>1. out = SetParent(SetLink(t, n, c), c, t.parent[n])
    BY <1>3 DEF Spliced
  <2> QED BY <2>1, <1>5, <1>7, <1>9, <1>11, <1>13, Zenon DEF Rotate
<1>16. /\ TreeType(u) /\ u.root = z.root /\ u.child = z.child /\ u.parent = z.parent
       /\ \A m \in Node : u.height[m] = IF m = c THEN HeightFrom(z, c) ELSE z.height[m]
  <2>1. TreeType(z) /\ c \in Node
    BY <1>1, <1>14
  <2> QED BY <1>15, <2>1, RecalculateIs
<1>17. \A a \in L, r \in Side :
          u.child[a][r] = IF a = c /\ r = s THEN n ELSE IF a = n /\ r = o THEN i
                          ELSE IF t.child[a][r] = n THEN c ELSE t.child[a][r]
  <2> SUFFICES ASSUME NEW a \in L, NEW r \in Side
               PROVE  u.child[a][r] = IF a = c /\ r = s THEN n ELSE IF a = n /\ r = o THEN i
                                      ELSE IF t.child[a][r] = n THEN c ELSE t.child[a][r]
    OBVIOUS
  <2>1. a \in Node
    BY <1>0
  <2>2. u.child[a][r] = y.child[a][r]
    BY <1>12, <1>14, <1>16
  <2>3. y.child[a][r] = IF a = c /\ r = s THEN n ELSE x.child[a][r]
    BY <1>8, <1>10, <2>1
  <2>4. x.child[a][r] = IF a = n /\ r = o THEN i ELSE out.child[a][r]
    BY <1>6, <2>1
  <2> QED BY <1>4, <2>2, <2>3, <2>4
<1>18. \A m \in L : u.parent[m] = IF m = n THEN c ELSE IF m = i THEN n
                                  ELSE IF m = c THEN t.parent[n] ELSE t.parent[m]
  <2> SUFFICES ASSUME NEW m \in L
               PROVE  u.parent[m] = IF m = n THEN c ELSE IF m = i THEN n
                                    ELSE IF m = c THEN t.parent[n] ELSE t.parent[m]
    OBVIOUS
  <2>1. m \in Node
    BY <1>0
  <2>2. u.parent[m] = up.parent[m]
    BY <1>14, <1>16
  <2>3. up.parent[m] = IF m = n THEN c ELSE down.parent[m]
    BY <1>10, <1>12, <2>1
  <2>4. down.parent[m] = IF m = i THEN n ELSE out.parent[m]
    BY <1>6, <1>8, <2>1
  <2> QED BY <1>4, <2>1, <2>2, <2>3, <2>4
<1>19. RotatedLinks(t, L, n, s, c, u)
  <2>1. u.root = IF n = t.root THEN c ELSE t.root
    BY <1>4, <1>6, <1>8, <1>10, <1>12, <1>14, <1>16
  <2>2. t.child[n][s] # n /\ t.child[c][o] # n
    <3>1. t.child[n][s] # n
      BY <1>0, TwoSides
    <3>2. t.parent[n] # c
      <4> SUFFICES ASSUME t.parent[n] = c PROVE FALSE
        OBVIOUS
      <4>1. n # t.root
        BY <1>0, <1>1 DEF Tree
      <4>2. n \in T[c]
        BY <4>1, Above
      <4>3. c \in T[n]
        BY <1>0, <1>1, TwoSides
      <4> QED BY <1>1, <4>2, <4>3, OneAbove
    <3> QED BY <1>0, <1>1, <3>1, <3>2, TwoSides
  <2>3. /\ u.child[n][s] = t.child[n][s] /\ u.child[n][o] = i
        /\ u.child[c][s] = n /\ u.child[c][o] = t.child[c][o]
    BY <1>0, <1>1, <1>17, <2>2
  <2>4. \A a \in L \ {n, c}, r \in Side :
           u.child[a][r] = IF t.child[a][r] = n THEN c ELSE t.child[a][r]
    BY <1>17
  <2>5. u.parent[c] = t.parent[n] /\ u.parent[n] = c
    BY <1>1, <1>2, <1>18
  <2>6. \A m \in L \ {n, c} : u.parent[m] = IF m = i THEN n ELSE t.parent[m]
    BY <1>18
  <2> QED BY <1>16, <2>1, <2>3, <2>4, <2>5, <2>6 DEF RotatedLinks
<1>20. \A m \in Node \ {n, c} : u.height[m] = t.height[m]
  <2> SUFFICES ASSUME NEW m \in Node \ {n, c} PROVE u.height[m] = t.height[m]
    OBVIOUS
  <2>1. m \in Node
    OBVIOUS
  <2>2. u.height[m] = up.height[m]
    BY <1>14, <1>16, <2>1
  <2> QED BY <1>4, <1>6, <1>8, <1>10, <1>12, <2>2
<1>21. u.height[n] = HeightFrom(u, n)
  <2>1. u.height[n] = HeightFrom(up, n) /\ u.child = up.child
    BY <1>0, <1>1, <1>14, <1>16
  <2>2. ASSUME NEW r \in Side PROVE GetHeight(u, u.child[n][r]) = GetHeight(up, up.child[n][r])
    <3>1. u.child[n][r] = t.child[n][s] \/ u.child[n][r] = i
      BY <1>0, <1>19 DEF RotatedLinks
    <3>2. u.child[n][r] # n /\ u.child[n][r] # c /\ u.child[n][r] \in Link
      <4>1. PICK z0 : z0 = t.child[n][s]
        OBVIOUS
      <4>2. z0 # NULL => z0 # n
        <5>1. z0 # NULL => Below(t, L, T, n, z0)
          BY <4>1, ChildIs
        <5> QED BY <5>1 DEF Below
      <4>3. z0 \in Link
        BY <1>0, <4>1, Types
      <4> QED BY <1>0, <1>1, <1>2, <3>1, <4>1, <4>2, <4>3, Zenon
    <3>3. u.child[n][r] # NULL => u.height[u.child[n][r]] = up.height[u.child[n][r]]
      BY <1>14, <1>16, <3>2 DEF Link
    <3> QED BY <2>1, <3>3 DEF GetHeight
  <2> QED BY <2>1, <2>2 DEF HeightFrom, Side
<1>22. u.height[c] = HeightFrom(u, c)
  <2>1. u.height[c] = HeightFrom(z, c) /\ u.child = z.child
    BY <1>1, <1>16
  <2>2. ASSUME NEW r \in Side PROVE GetHeight(u, u.child[c][r]) = GetHeight(z, z.child[c][r])
    <3>1. u.child[c][r] = n \/ u.child[c][r] = t.child[c][o]
      BY <1>0, <1>19 DEF RotatedLinks
    <3>2. u.child[c][r] # c /\ u.child[c][r] \in Link
      <4>1. t.child[c][o] # c /\ t.child[c][o] \in Link
        <5>1. PICK z0 : z0 = t.child[c][o]
          OBVIOUS
        <5>2. Tree(t, L, T) /\ c \in L /\ o \in Side /\ TreeType(t) /\ c \in Node
          BY <1>0, <1>1
        <5>3. z0 # NULL => Below(t, L, T, c, z0)
          BY ONLY <5>1, <5>2, ChildIs
        <5>4. z0 \in Link
          BY ONLY <5>1, <5>2, Types
        <5>5. NULL # c
          BY <1>0, <1>1, Zenon
        <5> QED BY ONLY <5>1, <5>3, <5>4, <5>5 DEF Below
      <4> QED BY <1>0, <1>1, <3>1, <4>1
    <3>3. u.child[c][r] # NULL => u.height[u.child[c][r]] = z.height[u.child[c][r]]
      BY <1>16, <3>2 DEF Link
    <3> QED BY <2>1, <3>3 DEF GetHeight
  <2> QED BY <2>1, <2>2 DEF HeightFrom, Side
<1> QED BY <1>19, <1>20, <1>21, <1>22

\* What WellLinked says of both sides, said of a side and the other.
LEMMA LinkedBy ==
    ASSUME NEW t, NEW L, NEW T, NEW n, NEW s \in Side,
           T[n] \subseteq L,
           T[n] = {n} \union Under(t, T, n, s) \union Under(t, T, n, Opposite(s)),
           Under(t, T, n, s) \intersect Under(t, T, n, Opposite(s)) = {},
           \A r \in Side :
              /\ n \notin Under(t, T, n, r)
              /\ t.child[n][r] # NULL => t.child[n][r] \in L /\ t.parent[t.child[n][r]] = n
    PROVE  WellLinked(t, L, T, n)
<1>1. (s = "left" /\ Opposite(s) = "right") \/ (s = "right" /\ Opposite(s) = "left")
  BY DEF Side, Opposite
<1> QED BY <1>1 DEF WellLinked

Turned(t, T, n, s, c) ==
    [m \in Node |-> IF m = c THEN T[n]
                    ELSE IF m = n THEN {n} \union Under(t, T, n, s) \union Under(t, T, c, s)
                    ELSE T[m]]

LEMMA RotateTree ==
    ASSUME NEW t, NEW L, NEW T, NEW K, Tree(t, L, T), Ordered(t, L, T, K),
           NEW n \in L, NEW s \in Side, NEW c, c = t.child[n][Opposite(s)], c # NULL,
           NEW u, RotatedLinks(t, L, n, s, c, u)
    PROVE  Tree(u, L, Turned(t, T, n, s, c)) /\ Ordered(u, L, Turned(t, T, n, s, c), K)
<1> DEFINE V == Turned(t, T, n, s, c)
<1> PICK o : o = Opposite(s)
  OBVIOUS
<1>0. /\ o \in Side /\ o # s /\ Opposite(o) = s /\ Side = {s, o}
      /\ TreeType(t) /\ L \subseteq Node /\ NULL \notin Node /\ n \in Node /\ NULL \notin L
  BY Sides, NodeAssumption DEF Tree
<1>1. /\ c \in L /\ c \in Node /\ c # n /\ t.parent[c] = n /\ c # t.child[n][s]
      /\ t.child[n][o] = c /\ Under(t, T, n, o) = T[c] /\ t.child[n][s] # n
  BY <1>0, TwoSides
<1>2. /\ TreeType(u)
      /\ u.root = IF n = t.root THEN c ELSE t.root
      /\ u.child[n][s] = t.child[n][s] /\ u.child[n][o] = t.child[c][s]
      /\ u.child[c][s] = n /\ u.child[c][o] = t.child[c][o]
      /\ \A a \in L \ {n, c}, r \in Side :
            u.child[a][r] = IF t.child[a][r] = n THEN c ELSE t.child[a][r]
      /\ u.parent[c] = t.parent[n] /\ u.parent[n] = c
      /\ \A m \in L \ {n, c} : u.parent[m] = IF m = t.child[c][s] THEN n ELSE t.parent[m]
  BY DEF RotatedLinks
<1>3. /\ V[c] = T[n] /\ V[n] = {n} \union Under(t, T, n, s) \union Under(t, T, c, s)
      /\ \A m \in L \ {n, c} : V[m] = T[m]
      /\ V \in [Node -> SUBSET Node]
  <2>1. /\ V[c] = T[n] /\ V[n] = {n} \union Under(t, T, n, s) \union Under(t, T, c, s)
        /\ \A m \in L \ {n, c} : V[m] = T[m]
    BY <1>0, <1>1 DEF Turned
  <2>2. T[n] \subseteq Node /\ T[c] \subseteq Node /\ T \in [Node -> SUBSET Node]
    BY <1>0, <1>1 DEF Tree
  <2>3. Under(t, T, n, s) \subseteq T[n] /\ Under(t, T, c, s) \subseteq T[c]
    BY <1>0, <1>1, TwoSides
  <2>4. {n} \union Under(t, T, n, s) \union Under(t, T, c, s) \subseteq Node
    BY <1>0, <2>2, <2>3
  <2>5. V \in [Node -> SUBSET Node]
    BY <2>2, <2>4 DEF Turned
  <2> QED BY <2>1, <2>5
<1> HIDE DEF V
<1>4. t.child[c][s] # n /\ t.child[c][o] # n
  <2>1. t.parent[n] # c
    <3> SUFFICES ASSUME t.parent[n] = c PROVE FALSE
      OBVIOUS
    <3>1. n # t.root
      BY <1>0, <1>1 DEF Tree
    <3>2. n \in T[c]
      BY <3>1, Above
    <3>3. c \in T[n]
      BY <1>0, <1>1, TwoSides
    <3> QED BY <1>1, <3>2, <3>3, OneAbove
  <2> QED BY <1>0, <1>1, <2>1, TwoSides
<1>5. ASSUME NEW a \in L, NEW r \in Side, t.child[a][r] # NULL, t.child[a][r] \notin {n, c}
      PROVE  /\ t.child[a][r] \in L \ {n, c} /\ t.parent[t.child[a][r]] = a
             /\ V[t.child[a][r]] = Under(t, T, a, r)
             /\ u.parent[t.child[a][r]] = IF a = c /\ r = s THEN n ELSE a
  <2>1. PICK b : b = t.child[a][r]
    OBVIOUS
  <2>2. b \in L \ {n, c} /\ t.parent[b] = a /\ Under(t, T, a, r) = T[b]
    BY <1>5, <2>1, TwoSides
  <2>3. V[b] = T[b]
    BY <1>3, <2>2
  <2>4. b = t.child[c][s] <=> a = c /\ r = s
    <3>1. ASSUME b = t.child[c][s] PROVE a = c /\ r = s
      <4>1. t.parent[b] = c /\ b # t.child[c][o]
        BY <1>0, <1>1, <1>5, <2>1, <3>1, TwoSides
      <4>2. a = c
        BY <2>2, <4>1
      <4> QED BY <1>0, <2>1, <4>1, <4>2
    <3> QED BY <2>1, <3>1
  <2>5. u.parent[b] = IF b = t.child[c][s] THEN n ELSE t.parent[b]
    BY <1>2, <2>2
  <2> QED BY <2>1, <2>2, <2>3, <2>4, <2>5
<1>6. ASSUME NEW a \in L \ {n, c}, NEW r \in Side
      PROVE  /\ Under(u, V, a, r) = Under(t, T, a, r)
             /\ u.child[a][r] # NULL => u.child[a][r] \in L /\ u.parent[u.child[a][r]] = a
  <2>1. t.child[a][r] # c
    BY <1>0, <1>1, TwoSides
  <2>2. CASE t.child[a][r] = n
    <3>0. u.child[a][r] = c
      BY <1>2, <2>2
    <3>1. u.child[a][r] = c /\ Under(t, T, a, r) = T[n] /\ t.parent[n] = a
      BY <1>0, <2>2, <3>0, TwoSides
    <3>2. Under(u, V, a, r) = V[c]
      BY <1>0, <1>1, <3>1 DEF Under
    <3> QED BY <1>1, <1>2, <1>3, <3>1, <3>2
  <2>3. CASE t.child[a][r] # n /\ t.child[a][r] # NULL
    <3>1. u.child[a][r] = t.child[a][r]
      BY <1>2, <2>3
    <3>2. t.child[a][r] \in L /\ V[t.child[a][r]] = Under(t, T, a, r) /\ u.parent[t.child[a][r]] = a
      BY <1>5, <2>1, <2>3
    <3>3. Under(u, V, a, r) = V[t.child[a][r]]
      BY <2>3, <3>1 DEF Under
    <3> QED BY <3>1, <3>2, <3>3
  <2>4. CASE t.child[a][r] = NULL
    <3>1. u.child[a][r] = NULL
      BY <1>0, <1>2, <2>4
    <3> QED BY <2>4, <3>1 DEF Under
  <2> QED BY <2>2, <2>3, <2>4
<1>7. /\ Under(u, V, n, s) = Under(t, T, n, s)
      /\ u.child[n][s] # NULL => u.child[n][s] \in L /\ u.parent[u.child[n][s]] = n
  <2>1. CASE t.child[n][s] # NULL
    <3>1. /\ t.child[n][s] \in L /\ V[t.child[n][s]] = Under(t, T, n, s)
          /\ u.parent[t.child[n][s]] = n
      BY <1>1, <1>5, <2>1
    <3> QED BY <1>2, <2>1, <3>1 DEF Under
  <2>2. CASE t.child[n][s] = NULL
    BY <1>2, <2>2 DEF Under
  <2> QED BY <2>1, <2>2
<1>8. /\ Under(u, V, n, o) = Under(t, T, c, s)
      /\ u.child[n][o] # NULL => u.child[n][o] \in L /\ u.parent[u.child[n][o]] = n
  <2>1. CASE t.child[c][s] # NULL
    <3>1. t.child[c][s] # c
      BY <1>1, <2>1, TwoSides
    <3>2. /\ t.child[c][s] \in L /\ V[t.child[c][s]] = Under(t, T, c, s)
          /\ u.parent[t.child[c][s]] = n
      BY <1>1, <1>4, <1>5, <2>1, <3>1
    <3> QED BY <1>2, <2>1, <3>2 DEF Under
  <2>2. CASE t.child[c][s] = NULL
    BY <1>2, <2>2 DEF Under
  <2> QED BY <2>1, <2>2
<1>9. /\ Under(u, V, c, s) = V[n]
      /\ u.child[c][s] \in L /\ u.parent[u.child[c][s]] = c
  BY <1>0, <1>2 DEF Under
<1>10. /\ Under(u, V, c, o) = Under(t, T, c, o)
       /\ u.child[c][o] # NULL => u.child[c][o] \in L /\ u.parent[u.child[c][o]] = c
  <2>1. CASE t.child[c][o] # NULL
    <3>1. t.child[c][o] # c
      BY <1>0, <1>1, <2>1, TwoSides
    <3>2. /\ t.child[c][o] \in L /\ V[t.child[c][o]] = Under(t, T, c, o)
          /\ u.parent[t.child[c][o]] = c
      BY <1>0, <1>1, <1>4, <1>5, <2>1, <3>1
    <3> QED BY <1>2, <2>1, <3>2 DEF Under
  <2>2. CASE t.child[c][o] = NULL
    BY <1>2, <2>2 DEF Under
  <2> QED BY <2>1, <2>2
<1>11. /\ T[n] = {n} \union Under(t, T, n, s) \union T[c] /\ n \notin T[c]
       /\ Under(t, T, n, s) \intersect T[c] = {} /\ T[n] \subseteq L /\ n \notin Under(t, T, n, s)
       /\ T[c] = {c} \union Under(t, T, c, s) \union Under(t, T, c, o)
       /\ Under(t, T, c, s) \intersect Under(t, T, c, o) = {}
       /\ c \notin Under(t, T, c, s) /\ c \notin Under(t, T, c, o)
  <2>1. /\ T[n] = {n} \union Under(t, T, n, s) \union T[c]
        /\ Under(t, T, n, s) \intersect T[c] = {} /\ T[n] \subseteq L /\ n \notin Under(t, T, n, s)
    BY <1>1, TwoSides
  <2>2. n \notin T[c]
    BY <1>0, <1>1, TwoSides
  <2>3. /\ T[c] = {c} \union Under(t, T, c, s) \union Under(t, T, c, o)
        /\ Under(t, T, c, s) \intersect Under(t, T, c, o) = {} /\ c \notin Under(t, T, c, s)
    BY <1>1, TwoSides
  <2>4. c \notin Under(t, T, c, o)
    BY <1>0, <1>1, TwoSides
  <2> QED BY <2>1, <2>2, <2>3, <2>4
<1>12. WellLinked(u, L, V, n)
  <2>1. V[n] \subseteq L
    BY <1>3, <1>11
  <2>2. V[n] = {n} \union Under(u, V, n, s) \union Under(u, V, n, Opposite(s))
    BY <1>3, <1>7, <1>8
  <2>3. Under(u, V, n, s) \intersect Under(u, V, n, Opposite(s)) = {}
    BY <1>7, <1>8, <1>11
  <2>4. ASSUME NEW r \in Side
        PROVE  /\ n \notin Under(u, V, n, r)
               /\ u.child[n][r] # NULL => u.child[n][r] \in L /\ u.parent[u.child[n][r]] = n
    BY <1>0, <1>7, <1>8, <1>11
  <2> QED BY <2>1, <2>2, <2>3, <2>4, LinkedBy
<1>13. WellLinked(u, L, V, c)
  <2>0. /\ Under(u, V, c, s) = {n} \union Under(t, T, n, s) \union Under(t, T, c, s)
        /\ Under(u, V, c, Opposite(s)) = Under(t, T, c, o) /\ V[c] = T[n]
        /\ Under(t, T, c, o) \subseteq T[c]
    BY <1>3, <1>9, <1>10, <1>11, Zenon
  <2>1. V[c] \subseteq L
    BY <1>3, <1>11
  <2>2. V[c] = {c} \union Under(u, V, c, s) \union Under(u, V, c, Opposite(s))
    BY <1>11, <2>0
  <2>3. Under(u, V, c, s) \intersect Under(u, V, c, Opposite(s)) = {}
    BY <1>11, <2>0
  <2>5. c \notin Under(u, V, c, s) /\ c \notin Under(u, V, c, o)
    BY <1>1, <1>10, <1>11, <2>0
  <2>4. ASSUME NEW r \in Side
        PROVE  /\ c \notin Under(u, V, c, r)
               /\ u.child[c][r] # NULL => u.child[c][r] \in L /\ u.parent[u.child[c][r]] = c
    BY <1>0, <1>9, <1>10, <2>5
  <2> QED BY <2>1, <2>2, <2>3, <2>4, LinkedBy
<1>14. ASSUME NEW a \in L \ {n, c} PROVE WellLinked(u, L, V, a)
  <2>1. WellLinked(t, L, T, a) /\ V[a] = T[a]
    BY <1>3 DEF Tree
  <2>2. "left" \in Side /\ "right" \in Side
    BY DEF Side
  <2> QED BY <1>6, <2>1, <2>2 DEF WellLinked
<1>15. ASSUME NEW a \in L, a # u.root
       PROVE  u.parent[a] \in L /\ \E r \in Side : u.child[u.parent[a]][r] = a
  <2>1. CASE a = n
    BY <1>1, <1>2, <2>1
  <2>2. CASE a = c
    <3>1. n # t.root
      BY <1>2, <1>15, <2>2
    <3>2. PICK p \in L : p = t.parent[n] /\ p # n
      BY <3>1, Above
    <3>3. PICK r \in Side : t.child[p][r] = n
      BY <3>1, <3>2 DEF Tree
    <3>4. p # c
      BY <1>0, <1>4, <3>3
    <3>5. u.child[p][r] = c /\ u.parent[a] = p
      BY <1>2, <2>2, <3>2, <3>3, <3>4
    <3> QED BY <2>2, <3>2, <3>5
  <2>3. CASE a \notin {n, c}
    <3>1. a # t.root
      BY <1>2, <1>15, <2>3
    <3>2. PICK p \in L : p = t.parent[a]
      BY <3>1, Above
    <3>3. PICK r \in Side : t.child[p][r] = a
      BY <3>1, <3>2 DEF Tree
    <3>4. u.parent[a] = IF p = c /\ r = s THEN n ELSE p
      BY <1>0, <1>5, <2>3, <3>3
    <3>5. CASE p = n
      <4>1. r = s
        BY <1>0, <1>1, <2>3, <3>3, <3>5
      <4> QED BY <1>1, <1>2, <3>3, <3>4, <3>5, <4>1
    <3>6. CASE p = c
      <4>1. CASE r = s
        BY <1>0, <1>2, <3>3, <3>4, <3>6, <4>1
      <4>2. CASE r = o
        BY <1>0, <1>1, <1>2, <3>3, <3>4, <3>6, <4>2
      <4> QED BY <1>0, <4>1, <4>2
    <3>7. CASE p \notin {n, c}
      <4>1. u.child[p][r] = a /\ u.parent[a] = p
        BY <1>2, <2>3, <3>2, <3>3, <3>4, <3>7
      <4> QED BY <3>2, <4>1
    <3> QED BY <3>5, <3>6, <3>7
  <2> QED BY <2>1, <2>2, <2>3
<1>16. u.root \in L /\ V[u.root] = L /\ u.parent[u.root] = NULL
  <2>0. t.root \in L /\ T[t.root] = L /\ t.parent[t.root] = NULL
    BY DEF Tree
  <2>1. CASE n = t.root
    BY <1>1, <1>2, <1>3, <2>0, <2>1, Zenon
  <2>2. CASE n # t.root
    <3>1. t.root # c
      BY <1>0, <1>1, <2>0
    <3>2. t.root \in L \ {n, c} /\ u.root = t.root
      BY <1>2, <2>0, <2>2, <3>1
    <3>3. t.root # t.child[c][s]
      BY <1>0, <1>1, <2>0, TwoSides
    <3> QED BY <1>2, <1>3, <2>0, <3>2, <3>3
  <2> QED BY <2>1, <2>2
<1>17. Tree(u, L, V)
  <2>1. \A a \in L : WellLinked(u, L, V, a)
    BY <1>12, <1>13, <1>14
  <2> QED BY <1>0, <1>2, <1>3, <1>15, <1>16, <2>1, Zenon DEF Tree
<1>18. ASSUME NEW a \in L, NEW r \in Side, NEW m \in Under(u, V, a, r)
       PROVE  Before(r, K[m], K[a])
  <2>0. \A b \in L, q \in Side : \A j \in Under(t, T, b, q) : Before(q, K[j], K[b])
    BY DEF Ordered
  <2>1. CASE a \notin {n, c}
    BY <1>6, <1>18, <2>0, <2>1
  <2>2. CASE a = n /\ r = s
    BY <1>7, <1>18, <2>0, <2>2
  <2>3. CASE a = n /\ r = o
    <3>1. m \in Under(t, T, n, o)
      BY <1>1, <1>8, <1>11, <1>18, <2>3
    <3> QED BY <2>0, <2>3, <3>1
  <2>4. CASE a = c /\ r = o
    BY <1>1, <1>10, <1>18, <2>0, <2>4
  <2>5. CASE a = c /\ r = s
    <3>1. m = n \/ m \in Under(t, T, n, s) \/ m \in Under(t, T, c, s)
      BY <1>3, <1>9, <1>18, <2>5
    <3>2. CASE m \in Under(t, T, c, s)
      BY <1>1, <2>0, <2>5, <3>2
    <3>3. Before(o, K[c], K[n]) /\ K[c] \in Nat /\ K[n] \in Nat
      BY <1>0, <1>1, <1>11, <2>0 DEF Ordered
    <3>4. Before(s, K[n], K[c])
      BY <1>0, <3>3, Befores
    <3>5. CASE m \in Under(t, T, n, s)
      <4>1. Before(s, K[m], K[n]) /\ m \in L
        BY <1>11, <2>0, <3>5
      <4>2. K[m] \in Nat
        BY <4>1 DEF Ordered
      <4> QED BY <2>5, <3>3, <3>4, <4>1, <4>2, Befores
    <3> QED BY <2>5, <3>1, <3>2, <3>4, <3>5
  <2> QED BY <1>0, <2>1, <2>2, <2>3, <2>4, <2>5
<1>19. Ordered(u, L, V, K)
  <2>1. \A a \in L : K[a] \in Nat
    BY DEF Ordered
  <2> QED BY <1>18, <2>1 DEF Ordered
<1> QED BY <1>17, <1>19 DEF V

-----------------------------------------------------------------------------
(* The searches.                                                            *)

\* Where a search for k goes from a node, and Way of any tree and keys.
Turn(t, K, k) ==
    [n \in Node |-> IF k = K[n] THEN NULL
                    ELSE t.child[n][IF k < K[n] THEN "left" ELSE "right"]]
WayIn(t, K, k) == Path(Turn(t, K, k), t.root)

\* w goes from the root to k or to where it would hang, on the side of k at each node.
Searched(t, L, T, K, k, w) ==
    /\ w \in Seq(L) /\ Len(w) >= 1 /\ w[1] = t.root
    /\ \A i \in 1..Len(w), j \in 1..Len(w) : i < j =>
          \E s \in Side : /\ Before(s, k, K[w[i]])
                          /\ t.child[w[i]][s] = w[i + 1] /\ w[j] \in Under(t, T, w[i], s)
    /\ \/ K[w[Len(w)]] = k
       \/ \E s \in Side : Before(s, k, K[w[Len(w)]]) /\ t.child[w[Len(w)]][s] = NULL

LEMMA TurnIs ==
    ASSUME NEW t, NEW K, NEW k \in Nat, NEW n \in Node, K[n] \in Nat
    PROVE  \/ K[n] = k /\ Turn(t, K, k)[n] = NULL
           \/ \E s \in Side : Before(s, k, K[n]) /\ Turn(t, K, k)[n] = t.child[n][s]
<1>0. K[n] \in Nat /\ n \in Node
  OBVIOUS
<1>1. CASE k = K[n]
  BY <1>0, <1>1 DEF Turn
<1>2. CASE k < K[n]
  <2>1. Turn(t, K, k)[n] = t.child[n]["left"]
    BY <1>0, <1>2 DEF Turn
  <2> QED BY <1>2, <2>1 DEF Before, Side
<1>3. CASE k > K[n]
  <2>1. Turn(t, K, k)[n] = t.child[n]["right"]
    BY <1>0, <1>3 DEF Turn
  <2>2. Before("right", k, K[n])
    BY <1>0, <1>3 DEF Before
  <2> QED BY <2>1, <2>2 DEF Side
<1> QED BY <1>0, <1>1, <1>2, <1>3

LEMMA WayIs ==
    ASSUME NEW t, NEW L, NEW T, NEW K, Tree(t, L, T), Ordered(t, L, T, K), NEW k \in Nat,
           L # {}
    PROVE  Searched(t, L, T, K, k, WayIn(t, K, k))
<1>0. /\ L \in SUBSET Node /\ t.root \in L /\ NULL \notin L /\ \A m \in L : K[m] \in Nat
  BY NodeAssumption DEF Tree, Ordered
<1> PICK step : step = Turn(t, K, k)
  OBVIOUS
<1>1. \A n \in L : \/ K[n] = k /\ step[n] = NULL
                   \/ \E s \in Side : Before(s, k, K[n]) /\ step[n] = t.child[n][s]
  <2> SUFFICES ASSUME NEW n \in L
               PROVE  \/ K[n] = k /\ step[n] = NULL
                      \/ \E s \in Side : Before(s, k, K[n]) /\ step[n] = t.child[n][s]
    OBVIOUS
  <2>1. \/ K[n] = k /\ Turn(t, K, k)[n] = NULL
        \/ \E s \in Side : Before(s, k, K[n]) /\ Turn(t, K, k)[n] = t.child[n][s]
    <3>1. n \in Node /\ K[n] \in Nat
      BY <1>0
    <3> QED BY <3>1, TurnIs
  <2> QED BY <2>1
<1>2. Descends(step, t, L)
  BY <1>1 DEF Descends
<1>3. PICK w : w = Path(step, t.root) /\ Walked(step, L, t.root, w)
  BY <1>0, <1>2, WayDown
<1>4. PICK l \in Nat : l = Len(w) /\ l >= 1
  BY <1>3 DEF Walked
<1>5. /\ w \in Seq(L) /\ w[1] = t.root /\ \A i \in 1..l : w[i] \in L
      /\ step[w[l]] = NULL /\ \A i \in 1..(l - 1) : w[i + 1] = step[w[i]]
  BY <1>3, <1>4 DEF Walked
<1>6. ASSUME NEW i \in 1..l, NEW j \in 1..l, i < j
      PROVE  \E s \in Side : /\ Before(s, k, K[w[i]])
                             /\ t.child[w[i]][s] = w[i + 1] /\ w[j] \in Under(t, T, w[i], s)
  <2>1. i \in 1..(l - 1) /\ i + 1 \in 1..l /\ j \in (i + 1)..l
    BY <1>6
  <2>2. w[i + 1] = step[w[i]] /\ w[i] \in L /\ w[i + 1] \in L
    BY <1>5, <2>1
  <2>3. PICK s \in Side : Before(s, k, K[w[i]]) /\ step[w[i]] = t.child[w[i]][s]
    BY <1>0, <1>1, <2>2
  <2>4. Under(t, T, w[i], s) = T[w[i + 1]]
    BY <1>0, <2>2, <2>3, TwoSides
  <2>5. w[j] \in T[w[i + 1]]
    <3>1. i + 1 \in 1..Len(w) /\ j \in (i + 1)..Len(w)
      BY <1>4, <2>1
    <3> QED BY <1>0, <1>2, <1>3, <3>1, WayNested
  <2> QED BY <2>2, <2>3, <2>4, <2>5
<1>7. \/ K[w[l]] = k
      \/ \E s \in Side : Before(s, k, K[w[l]]) /\ t.child[w[l]][s] = NULL
  <2>1. w[l] \in L
    BY <1>4, <1>5
  <2> QED BY <1>1, <1>5, <2>1
<1> QED BY <1>3, <1>4, <1>5, <1>6, <1>7 DEF Searched, WayIn

\* A node that is not on the way is beyond one that is, seen from k.
LEMMA Beyond ==
    ASSUME NEW t, NEW L, NEW T, NEW K, Tree(t, L, T), Ordered(t, L, T, K), NEW k \in Nat,
           NEW w, Searched(t, L, T, K, k, w), NEW m \in L
    PROVE  \E i \in 1..Len(w) :
              /\ m \in T[w[i]]
              /\ \/ m = w[i]
                 \/ \E s \in Side : /\ m \in Under(t, T, w[i], s) /\ Before(s, K[m], K[w[i]])
                                    /\ K[w[i]] = k \/ Before(s, K[w[i]], k)
                                    /\ i < Len(w) => w[i + 1] # t.child[w[i]][s]
<1>1. PICK l \in Nat : l = Len(w) /\ l >= 1
  BY DEF Searched
<1>2. /\ w[1] = t.root /\ \A i \in 1..l : w[i] \in L
      /\ \A i \in 1..l, j \in 1..l : i < j =>
            \E s \in Side : /\ Before(s, k, K[w[i]])
                            /\ t.child[w[i]][s] = w[i + 1] /\ w[j] \in Under(t, T, w[i], s)
      /\ \/ K[w[l]] = k
         \/ \E s \in Side : Before(s, k, K[w[l]]) /\ t.child[w[l]][s] = NULL
  BY <1>1, SMTT(30) DEF Searched
<1> DEFINE S == {i \in 1..l : m \in T[w[i]]}
<1>3. PICK i \in S : \A j \in S : j <= i
  <2>1. T[t.root] = L /\ 1 \in 1..l
    BY <1>1 DEF Tree
  <2>2. 1 \in S /\ S \in SUBSET (1..l)
    BY <1>2, <2>1
  <2> HIDE DEF S
  <2> QED BY <2>2, LastPlace, Zenon
<1>4. i \in 1..l /\ m \in T[w[i]] /\ w[i] \in L /\ K[w[i]] \in Nat /\ K[m] \in Nat
  BY <1>2, <1>3 DEF Ordered
<1>5. CASE m = w[i]
  BY <1>1, <1>4, <1>5
<1>6. CASE m # w[i]
  <2>1. PICK s \in Side : m \in Under(t, T, w[i], s) /\ t.child[w[i]][s] # NULL
                          /\ Under(t, T, w[i], s) = T[t.child[w[i]][s]]
    BY <1>4, <1>6, OnASide
  <2>2. Before(s, K[m], K[w[i]])
    BY <1>4, <2>1 DEF Ordered
  <2>3. CASE i < l
    <3>1. i + 1 \in 1..l /\ ~(i + 1 <= i) /\ i < i + 1
      BY <1>4, <2>3
    <3>2. m \notin T[w[i + 1]]
      <4>1. i + 1 \notin S
        <5> HIDE DEF S
        <5> QED BY <1>3, <3>1
      <4> QED BY <3>1, <4>1
    <3>3. PICK q \in Side : Before(q, k, K[w[i]]) /\ t.child[w[i]][q] = w[i + 1]
      BY <1>2, <1>4, <3>1
    <3>4. q # s
      BY <2>1, <3>2, <3>3
    <3>5. q = Opposite(s) /\ Opposite(Opposite(s)) = s
      BY <3>4, Sides
    <3>6. Before(s, K[w[i]], k)
      BY <1>4, <3>3, <3>5, Befores
    <3>7. w[i + 1] # t.child[w[i]][s]
      BY <2>1, <3>2
    <3> QED BY <1>1, <1>4, <2>1, <2>2, <3>6, <3>7
  <2>4. CASE i = l
    <3>1. ~(i < Len(w))
      BY <1>1, <2>4
    <3>2. CASE K[w[l]] = k
      BY <1>1, <1>4, <2>1, <2>2, <2>4, <3>1, <3>2
    <3>3. CASE K[w[l]] # k
      <4>1. PICK q \in Side : Before(q, k, K[w[l]]) /\ t.child[w[l]][q] = NULL
        BY <1>2, <3>3
      <4>2. q = Opposite(s) /\ Opposite(Opposite(s)) = s
        BY <2>1, <2>4, <4>1, Sides
      <4>3. Before(s, K[w[i]], k)
        BY <1>4, <2>4, <4>1, <4>2, Befores
      <4> QED BY <1>1, <1>4, <2>1, <2>2, <3>1, <4>3
    <3> QED BY <3>2, <3>3
  <2> QED BY <1>4, <2>3, <2>4
<1> QED BY <1>5, <1>6

LEMMA MaxIs ==
    ASSUME NEW l \in Nat, NEW S \in SUBSET (1..l), S # {}
    PROVE  Max(S) \in S /\ \A j \in S : j <= Max(S)
<1>1. \E i \in S : \A j \in S : j <= i
  BY LastPlace, Zenon
<1>2. \E i \in S : \A j \in S : i >= j
  BY <1>1
<1> QED BY <1>2, Zenon DEF Max

\* LastOnWay of any keys and way.
LastIn(K, w, keys) ==
    LET on == {i \in DOMAIN w : K[w[i]] \in keys}
    IN  IF on = {} THEN NULL ELSE w[Max(on)]

LEMMA LastInIs ==
    ASSUME NEW K, NEW L, NEW w \in Seq(L), NEW keys, NEW e, e = LastIn(K, w, keys)
    PROVE  \/ e = NULL /\ \A i \in 1..Len(w) : K[w[i]] \notin keys
           \/ \E x \in 1..Len(w) : /\ e = w[x] /\ K[w[x]] \in keys
                                   /\ \A i \in 1..Len(w) : K[w[i]] \in keys => i <= x
<1> DEFINE on == {i \in DOMAIN w : K[w[i]] \in keys}
<1>1. DOMAIN w = 1..Len(w) /\ Len(w) \in Nat
  OBVIOUS
<1>2. CASE on = {}
  BY <1>1, <1>2 DEF LastIn
<1>3. CASE on # {}
  <2>1. on \in SUBSET (1..Len(w))
    BY <1>1
  <2>2. Max(on) \in on /\ \A j \in on : j <= Max(on)
    <3> HIDE DEF on
    <3> QED BY <1>1, <1>3, <2>1, MaxIs, Zenon
  <2>3. e = w[Max(on)]
    BY <1>3 DEF LastIn
  <2> QED BY <1>1, <2>2, <2>3, Zenon
<1> QED BY <1>2, <1>3

\* The last node on the way whose key is k or beyond it on a side is the nearest.
LEMMA NearestFound ==
    ASSUME NEW t, NEW L, NEW T, NEW K, Tree(t, L, T), Ordered(t, L, T, K), NEW k \in Nat,
           NEW w, Searched(t, L, T, K, k, w), NEW s \in Side, NEW keys,
           \A m \in L : K[m] \in keys <=> K[m] = k \/ Before(s, K[m], k),
           NEW e, e = LastIn(K, w, keys)
    PROVE  \/ e = NULL /\ \A m \in L : K[m] \notin keys
           \/ /\ e \in L /\ K[e] \in keys
              /\ \A m \in L : K[m] \in keys => m = e \/ Before(s, K[m], K[e])
<1>1. PICK l \in Nat : l = Len(w) /\ l >= 1
  BY DEF Searched
<1>2. /\ w \in Seq(L) /\ \A i \in 1..l : w[i] \in L /\ K[w[i]] \in Nat
      /\ \A m \in L : K[m] \in Nat
      /\ \A i \in 1..l, j \in 1..l : i < j =>
            \E q \in Side : Before(q, k, K[w[i]]) /\ w[j] \in Under(t, T, w[i], q)
  BY <1>1 DEF Searched, Ordered
<1>3. ASSUME NEW m \in L, K[m] \in keys, \A i \in 1..l : m # w[i]
      PROVE  \E i \in 1..l : K[w[i]] \in keys /\ Before(s, K[m], K[w[i]])
  <2>1. PICK i \in 1..l, r \in Side : /\ Before(r, K[m], K[w[i]])
                                      /\ K[w[i]] = k \/ Before(r, K[w[i]], k)
    BY <1>1, <1>3, Beyond
  <2>2. Before(r, K[m], k) /\ K[m] \in Nat /\ K[w[i]] \in Nat /\ w[i] \in L
    BY <1>2, <2>1, Befores
  <2>3. r = s
    <3> SUFFICES ASSUME r # s PROVE FALSE
      OBVIOUS
    <3>1. r = Opposite(s)
      BY Sides
    <3>2. Before(s, k, K[m])
      BY <2>2, <3>1, Befores, Sides
    <3>3. K[m] # k /\ ~Before(s, K[m], k)
      <4>1. K[m] # k
        BY <2>2, Befores
      <4>2. ~(K[m] < k /\ k < K[m])
        BY <2>2
      <4> QED BY <3>2, <4>1, <4>2 DEF Before
    <3> QED BY <1>3, <3>3
  <2> QED BY <2>1, <2>2, <2>3
<1>4. ASSUME NEW i \in 1..l, NEW j \in 1..l, i < j, K[w[i]] \in keys
      PROVE  Before(s, K[w[i]], K[w[j]])
  <2>1. PICK q \in Side : Before(q, k, K[w[i]]) /\ w[j] \in Under(t, T, w[i], q)
    BY <1>2, <1>4
  <2>2. K[w[i]] \in Nat /\ w[i] \in L /\ w[j] \in L /\ K[w[j]] \in Nat
    BY <1>2
  <2>3. K[w[i]] # k
    BY <2>1, <2>2, Befores
  <2>4. Before(s, K[w[i]], k)
    BY <1>4, <2>2, <2>3
  <2>5. q # s
    <3>1. ~(K[w[i]] < k /\ k < K[w[i]])
      BY <2>2
    <3> QED BY <2>1, <2>4, <3>1 DEF Before
  <2>6. Before(q, K[w[j]], K[w[i]])
    BY <2>1, <2>2 DEF Ordered
  <2>7. q = Opposite(s) /\ Opposite(q) = s
    BY <2>5, Sides
  <2> QED BY <2>2, <2>6, <2>7, Befores
<1>5. CASE e = NULL /\ \A i \in 1..l : K[w[i]] \notin keys
  <2>1. ASSUME NEW m \in L, K[m] \in keys PROVE FALSE
    BY <1>3, <1>5, <2>1
  <2> QED BY <1>5, <2>1
<1>6. CASE \E x \in 1..l : /\ e = w[x] /\ K[w[x]] \in keys
                           /\ \A i \in 1..l : K[w[i]] \in keys => i <= x
  <2>1. PICK x \in 1..l : /\ e = w[x] /\ K[w[x]] \in keys
                          /\ \A i \in 1..l : K[w[i]] \in keys => i <= x
    BY <1>6
  <2>2. ASSUME NEW i \in 1..l, K[w[i]] \in keys PROVE i = x \/ Before(s, K[w[i]], K[e])
    <3>1. i <= x
      BY <2>1, <2>2
    <3>2. i = x \/ i < x
      BY <3>1
    <3> QED BY <1>4, <2>1, <2>2, <3>2
  <2>3. ASSUME NEW m \in L, K[m] \in keys PROVE m = e \/ Before(s, K[m], K[e])
    <3>1. CASE \E i \in 1..l : m = w[i]
      BY <2>1, <2>2, <2>3, <3>1
    <3>2. CASE \A i \in 1..l : m # w[i]
      <4>1. PICK i \in 1..l : K[w[i]] \in keys /\ Before(s, K[m], K[w[i]])
        BY <1>3, <2>3, <3>2
      <4>2. K[m] \in Nat /\ K[w[i]] \in Nat /\ K[e] \in Nat
        BY <1>2, <2>1
      <4> QED BY <2>1, <2>2, <4>1, <4>2, Befores
    <3> QED BY <3>1, <3>2
  <2> QED BY <1>2, <2>1, <2>3
<1> QED BY <1>1, <1>2, <1>5, <1>6, LastInIs, SMTT(30)

\* A search for a key finds the node that has it.
LEMMA KeyFound ==
    ASSUME NEW t, NEW L, NEW T, NEW K, Tree(t, L, T), Ordered(t, L, T, K), NEW k \in Nat,
           NEW w, Searched(t, L, T, K, k, w), NEW e, e = LastIn(K, w, {k})
    PROVE  \/ e = NULL /\ \A m \in L : K[m] # k
           \/ e \in L /\ K[e] = k
<1>1. PICK l \in Nat : l = Len(w) /\ l >= 1
  BY DEF Searched
<1>2. w \in Seq(L) /\ \A i \in 1..l : w[i] \in L /\ K[w[i]] \in Nat
  BY <1>1 DEF Searched, Ordered
<1>3. ASSUME NEW m \in L, K[m] = k PROVE \E i \in 1..l : K[w[i]] = k
  <2>1. PICK i \in 1..l :
           \/ m = w[i]
           \/ \E r \in Side : /\ Before(r, K[m], K[w[i]])
                              /\ K[w[i]] = k \/ Before(r, K[w[i]], k)
    BY <1>1, Beyond
  <2>2. ASSUME NEW r \in Side, Before(r, K[m], K[w[i]]), Before(r, K[w[i]], k) PROVE FALSE
    <3>1. Before(r, k, k)
      BY <1>2, <1>3, <2>2, Befores
    <3> QED BY <3>1, Befores
  <2> QED BY <1>3, <2>1, <2>2
<1>4. \/ e = NULL /\ \A i \in 1..l : K[w[i]] # k
      \/ \E x \in 1..l : e = w[x] /\ K[w[x]] = k
  <2>1. \/ e = NULL /\ \A i \in 1..l : K[w[i]] \notin {k}
        \/ \E x \in 1..l : e = w[x] /\ K[w[x]] \in {k}
    BY <1>1, <1>2, LastInIs
  <2> QED BY <2>1
<1> QED BY <1>2, <1>3, <1>4, Zenon

-----------------------------------------------------------------------------
(* A new leaf.                                                              *)

\* n hangs on side s of p, or alone.
HungLinks(t, L, n, p, s, u) ==
    /\ TreeType(u)
    /\ \A r \in Side : u.child[n][r] = NULL
    /\ u.root = IF p = NULL THEN n ELSE t.root
    /\ \A a \in L, r \in Side : u.child[a][r] = IF a = p /\ r = s THEN n ELSE t.child[a][r]
    /\ u.parent[n] = p
    /\ \A m \in L : u.parent[m] = t.parent[m]

HungIn(T, n, p) ==
    [m \in Node |-> IF m = n THEN {n} ELSE IF p \in T[m] THEN T[m] \union {n} ELSE T[m]]

\* The key of n is where it hangs.
Hangs(t, L, T, K, n, p, s) ==
    /\ Before(s, K[n], K[p])
    /\ \A a \in L, r \in Side : p \in Under(t, T, a, r) => Before(r, K[n], K[a])

LEMMA HangTree ==
    ASSUME NEW t, NEW L, NEW T, NEW K, Tree(t, L, T), Ordered(t, L, T, K),
           NEW n \in Node, n \notin L, K[n] \in Nat, NEW p \in L, NEW s \in Side,
           t.child[p][s] = NULL, Hangs(t, L, T, K, n, p, s),
           NEW u, HungLinks(t, L, n, p, s, u)
    PROVE  Tree(u, L \union {n}, HungIn(T, n, p)) /\ Ordered(u, L \union {n}, HungIn(T, n, p), K)
<1> DEFINE V == HungIn(T, n, p)
           M == L \union {n}
<1>0. /\ L \subseteq Node /\ NULL \notin Node /\ p \in Node /\ p # NULL /\ p # n
      /\ "left" \in Side /\ "right" \in Side
  BY NodeAssumption DEF Tree, Side
<1>1. /\ TreeType(u)
      /\ \A r \in Side : u.child[n][r] = NULL
      /\ u.root = t.root
      /\ \A a \in L, r \in Side : u.child[a][r] = IF a = p /\ r = s THEN n ELSE t.child[a][r]
      /\ u.parent[n] = p
      /\ \A m \in L : u.parent[m] = t.parent[m]
  BY <1>0 DEF HungLinks
<1>2. /\ V \in [Node -> SUBSET Node] /\ V[n] = {n}
      /\ \A m \in L : V[m] = IF p \in T[m] THEN T[m] \union {n} ELSE T[m]
  <2>1. T \in [Node -> SUBSET Node]
    BY DEF Tree
  <2>2. V \in [Node -> SUBSET Node]
    BY <2>1 DEF HungIn
  <2>3. V[n] = {n}
    BY DEF HungIn
  <2>4. \A m \in L : V[m] = IF p \in T[m] THEN T[m] \union {n} ELSE T[m]
    BY <1>0 DEF HungIn
  <2> QED BY <2>2, <2>3, <2>4
<1> HIDE DEF V
<1>3. ASSUME NEW a \in L, NEW r \in Side
      PROVE  /\ Under(u, V, a, r) = IF (a = p /\ r = s) \/ p \in Under(t, T, a, r)
                                    THEN Under(t, T, a, r) \union {n} ELSE Under(t, T, a, r)
             /\ u.child[a][r] # NULL => u.child[a][r] \in M /\ u.parent[u.child[a][r]] = a
  <2>1. CASE a = p /\ r = s
    <3>1. u.child[a][r] = n /\ n # NULL
      BY <1>0, <1>1, <2>1
    <3>2. Under(u, V, a, r) = {n}
      BY <1>2, <3>1 DEF Under
    <3>3. Under(t, T, a, r) = {}
      BY <2>1 DEF Under
    <3> QED BY <1>1, <2>1, <3>1, <3>2, <3>3
  <2>2. CASE ~(a = p /\ r = s) /\ t.child[a][r] = NULL
    <3>1. u.child[a][r] = NULL
      BY <1>1, <2>2
    <3>2. Under(u, V, a, r) = {} /\ Under(t, T, a, r) = {}
      BY <2>2, <3>1 DEF Under
    <3> QED BY <2>2, <3>1, <3>2
  <2>3. CASE ~(a = p /\ r = s) /\ t.child[a][r] # NULL
    <3>1. PICK b \in L : b = t.child[a][r] /\ t.parent[b] = a /\ Under(t, T, a, r) = T[b]
      BY <2>3, TwoSides
    <3>2. u.child[a][r] = b /\ b # NULL /\ u.parent[b] = a
      BY <1>0, <1>1, <2>3, <3>1
    <3>3. Under(u, V, a, r) = V[b]
      BY <3>2 DEF Under
    <3> QED BY <1>2, <2>3, <3>1, <3>2, <3>3, Zenon
  <2> QED BY <2>1, <2>2, <2>3
<1>4. ASSUME NEW a \in L PROVE WellLinked(u, M, V, a)
  <2>1. WellLinked(t, L, T, a)
    BY DEF Tree
  <2>2. /\ T[a] \subseteq L
        /\ T[a] = {a} \union Under(t, T, a, "left") \union Under(t, T, a, "right")
        /\ Under(t, T, a, "left") \intersect Under(t, T, a, "right") = {}
        /\ \A r \in Side : a \notin Under(t, T, a, r)
    BY <2>1 DEF WellLinked
  <2>3. V[a] = IF p \in T[a] THEN T[a] \union {n} ELSE T[a]
    BY <1>2
  <2>4. s = "left" \/ s = "right"
    BY DEF Side
  <2>5. /\ Under(u, V, a, "left") = IF (a = p /\ s = "left") \/ p \in Under(t, T, a, "left")
              THEN Under(t, T, a, "left") \union {n} ELSE Under(t, T, a, "left")
        /\ Under(u, V, a, "right") = IF (a = p /\ s = "right") \/ p \in Under(t, T, a, "right")
              THEN Under(t, T, a, "right") \union {n} ELSE Under(t, T, a, "right")
    BY <1>0, <1>3
  <2>6. V[a] = {a} \union Under(u, V, a, "left") \union Under(u, V, a, "right")
    BY ONLY <2>2, <2>3, <2>4, <2>5
  <2>7. Under(u, V, a, "left") \intersect Under(u, V, a, "right") = {}
    BY <1>0, <2>2, <2>4, <2>5
  <2>8. \A r \in Side : a \notin Under(u, V, a, r)
    BY <1>0, <1>3, <2>2
  <2>9. V[a] \subseteq M
    BY <2>2, <2>3
  <2> QED BY <1>3, <2>6, <2>7, <2>8, <2>9 DEF WellLinked
<1>5. \A r \in Side : Under(u, V, n, r) = {}
  BY <1>1 DEF Under
<1>6. WellLinked(u, M, V, n)
  BY <1>0, <1>1, <1>2, <1>5 DEF WellLinked
<1>7. ASSUME NEW a \in M, a # u.root
      PROVE  u.parent[a] \in M /\ \E r \in Side : u.child[u.parent[a]][r] = a
  <2>1. CASE a = n
    BY <1>1, <2>1
  <2>2. CASE a # n
    <3>1. a \in L /\ a # t.root
      BY <1>1, <1>7, <2>2
    <3>2. PICK q \in L : q = t.parent[a]
      BY <3>1, Above
    <3>3. PICK r \in Side : t.child[q][r] = a
      BY <3>1, <3>2 DEF Tree
    <3>4. ~(q = p /\ r = s)
      BY <1>0, <3>1, <3>3
    <3> QED BY <1>1, <3>1, <3>2, <3>3, <3>4
  <2> QED BY <2>1, <2>2
<1>8. u.root \in M /\ V[u.root] = M /\ u.parent[u.root] = NULL
  <2>1. t.root \in L /\ T[t.root] = L /\ t.parent[t.root] = NULL
    BY DEF Tree
  <2>2. V[t.root] = L \union {n}
    BY <1>2, <2>1, Zenon
  <2> QED BY <1>1, <2>1, <2>2
<1>9. Tree(u, M, V)
  <2>1. M \subseteq Node /\ \A a \in M : WellLinked(u, M, V, a)
    BY <1>0, <1>4, <1>6
  <2>2. u.root # NULL
    BY <1>0, <1>8
  <2> QED BY <1>1, <1>2, <1>7, <1>8, <2>1, <2>2, Zenon DEF Tree
<1>10. ASSUME NEW a \in M
       PROVE  /\ K[a] \in Nat
              /\ \A r \in Side : \A m \in Under(u, V, a, r) : Before(r, K[m], K[a])
  <2>1. K[a] \in Nat
    BY DEF Ordered
  <2>2. ASSUME NEW r \in Side, NEW m \in Under(u, V, a, r) PROVE Before(r, K[m], K[a])
    <3>1. a # n /\ a \in L
      BY <1>5, <2>2
    <3>2. CASE m \in Under(t, T, a, r)
      BY <3>1, <3>2 DEF Ordered
    <3>3. CASE m \notin Under(t, T, a, r)
      <4>1. m = n /\ ((a = p /\ r = s) \/ p \in Under(t, T, a, r))
        BY <1>3, <2>2, <3>1, <3>3
      <4> QED BY <3>1, <4>1 DEF Hangs
    <3> QED BY <3>2, <3>3
  <2> QED BY <2>1, <2>2
<1>11. Ordered(u, M, V, K)
  BY <1>10 DEF Ordered
<1> QED BY <1>9, <1>11 DEF V

LEMMA HangAlone ==
    ASSUME NEW t, NEW L, NEW T, NEW K, Tree(t, L, T), L = {}, NEW n \in Node, K[n] \in Nat,
           NEW s, NEW u, HungLinks(t, L, n, NULL, s, u)
    PROVE  Tree(u, {n}, [m \in Node |-> {n}]) /\ Ordered(u, {n}, [m \in Node |-> {n}], K)
<1>0. "left" \in Side /\ "right" \in Side
  BY DEF Side
<1> DEFINE V == [m \in Node |-> {n}]
<1>1. /\ TreeType(u) /\ u.root = n /\ u.parent[n] = NULL
      /\ \A r \in Side : u.child[n][r] = NULL /\ Under(u, V, n, r) = {}
  BY DEF HungLinks, Under
<1>2. V \in [Node -> SUBSET Node] /\ V[n] = {n}
  OBVIOUS
<1> HIDE DEF V
<1>3. WellLinked(u, {n}, V, n)
  <2>1. Under(u, V, n, "left") = {} /\ Under(u, V, n, "right") = {}
    BY <1>0, <1>1
  <2> QED BY <1>1, <1>2, <2>1 DEF WellLinked
<1>5. Tree(u, {n}, V)
  <2>1. \A a \in {n} : a = n
    OBVIOUS
  <2>2. {n} \subseteq Node /\ n # NULL
    BY NodeAssumption
  <2>3. \A a \in {n} : WellLinked(u, {n}, V, a)
    BY <1>3, <2>1
  <2>4. \A a \in {n} : a = u.root
    BY <1>1, <2>1
  <2> QED BY <1>1, <1>2, <2>2, <2>3, <2>4 DEF Tree
<1>6. Ordered(u, {n}, V, K)
  <2> SUFFICES ASSUME NEW a \in {n}
               PROVE  K[a] \in Nat /\ \A r \in Side : Under(u, V, a, r) = {}
    BY DEF Ordered
  <2>1. a = n
    OBVIOUS
  <2> QED BY <1>1, <2>1
<1> QED BY <1>5, <1>6 DEF V

\* Where the search for a new key ends is where the key hangs.
LEMMA WayEnds ==
    ASSUME NEW t, NEW L, NEW T, NEW K, Tree(t, L, T), Ordered(t, L, T, K), NEW k \in Nat,
           NEW w, Searched(t, L, T, K, k, w), \A m \in L : K[m] # k,
           NEW p, p = w[Len(w)], NEW s, s = (IF k < K[p] THEN "left" ELSE "right")
    PROVE  /\ p \in L /\ s \in Side /\ t.child[p][s] = NULL /\ Before(s, k, K[p])
           /\ \A a \in L, r \in Side : p \in Under(t, T, a, r) => Before(r, k, K[a])
<1>1. PICK l \in Nat : l = Len(w) /\ l >= 1
  BY DEF Searched
<1>2. l \in 1..l /\ p = w[l] /\ p \in L /\ K[p] \in Nat /\ K[p] # k
  BY <1>1 DEF Searched, Ordered
<1>3. PICK q \in Side : Before(q, k, K[p]) /\ t.child[p][q] = NULL
  BY <1>1, <1>2 DEF Searched
<1>4. q = s
  BY <1>2, <1>3 DEF Before, Side
<1>5. ASSUME NEW a \in L, NEW r \in Side, p \in Under(t, T, a, r) PROVE Before(r, k, K[a])
  <2>0. a # p /\ p \in T[a]
    BY <1>5, TwoSides
  <2>1. PICK i \in 1..l :
           /\ a \in T[w[i]]
           /\ \/ a = w[i]
              \/ \E e \in Side : /\ a \in Under(t, T, w[i], e)
                                 /\ i < Len(w) => w[i + 1] # t.child[w[i]][e]
    BY <1>1, Beyond
  <2>2. i # l
    <3> SUFFICES ASSUME i = l PROVE FALSE
      OBVIOUS
    <3>1. a \in T[p]
      BY <1>2, <2>1
    <3> QED BY <1>2, <2>0, <3>1, OneAbove
  <2>3. i < l /\ i \in 1..l
    BY <2>1, <2>2
  <2>4. w[i] \in L
    BY <1>1, <2>3 DEF Searched
  <2>5. PICK e \in Side : Before(e, k, K[w[i]]) /\ t.child[w[i]][e] = w[i + 1]
                          /\ p \in Under(t, T, w[i], e)
    BY <1>1, <1>2, <2>3 DEF Searched
  <2>6. a = w[i]
    <3> SUFFICES ASSUME a # w[i] PROVE FALSE
      OBVIOUS
    <3>1. PICK f \in Side : a \in Under(t, T, w[i], f) /\ w[i + 1] # t.child[w[i]][f]
      BY <1>1, <2>1, <2>3
    <3>2. f = Opposite(e)
      BY <2>5, <3>1, Sides
    <3>3. Under(t, T, w[i], f) = T[t.child[w[i]][f]] /\ t.child[w[i]][f] \in L
      BY <2>4, <3>1, TwoSides
    <3>4. T[a] \subseteq Under(t, T, w[i], f)
      BY <3>1, <3>3, Nested
    <3>5. Under(t, T, w[i], e) \intersect Under(t, T, w[i], f) = {}
      BY <2>4, <3>2, TwoSides
    <3> QED BY <2>0, <2>5, <3>4, <3>5
  <2>7. r = e
    <3> SUFFICES ASSUME r # e PROVE FALSE
      OBVIOUS
    <3>1. r = Opposite(e)
      BY Sides
    <3>2. Under(t, T, a, e) \intersect Under(t, T, a, r) = {}
      BY <3>1, TwoSides
    <3> QED BY <1>5, <2>5, <2>6, <3>2
  <2> QED BY <2>5, <2>6, <2>7
<1> QED BY <1>2, <1>3, <1>4, <1>5, Zenon

-----------------------------------------------------------------------------
(* The shape of the tree after each operation.                              *)

Zeroed(t, n) == [t EXCEPT !.child[n] = NoChild, !.parent[n] = NULL]

ZeroedLinks(t, n, u) ==
    /\ TreeType(u) /\ u.root = t.root /\ u.height = t.height
    /\ \A m \in Node \ {n} : u.child[m] = t.child[m] /\ u.parent[m] = t.parent[m]

LEMMA ZeroedIs ==
    ASSUME NEW t, TreeType(t), NEW n \in Node, NEW u, u = Zeroed(t, n)
    PROVE  ZeroedLinks(t, n, u)
<1>1. u = [root |-> t.root, child |-> [t.child EXCEPT ![n] = NoChild],
           parent |-> [t.parent EXCEPT ![n] = NULL], height |-> t.height]
  BY Zenon DEF Zeroed, TreeType
<1>2. NoChild \in [Side -> Link]
  BY DEF NoChild, Link
<1>3. /\ [t.child EXCEPT ![n] = NoChild] \in [Node -> [Side -> Link]]
      /\ [t.parent EXCEPT ![n] = NULL] \in [Node -> Link]
      /\ t.root \in Link /\ t.height \in [Node -> Nat]
  BY <1>2 DEF TreeType, Link
<1>4. TreeType(u)
  BY <1>1, <1>3 DEF TreeType
<1>5. \A m \in Node \ {n} : u.child[m] = t.child[m] /\ u.parent[m] = t.parent[m]
  BY <1>1 DEF TreeType
<1> QED BY <1>1, <1>4, <1>5 DEF ZeroedLinks

ClearedLinks(t, n, u) ==
    /\ TreeType(u) /\ u.root = t.root
    /\ \A m \in Node \ {n} : /\ u.child[m] = t.child[m] /\ u.parent[m] = t.parent[m]
                             /\ u.height[m] = t.height[m]
    /\ \A s \in Side : u.child[n][s] = NULL
    /\ u.parent[n] = NULL /\ u.height[n] = 1

LEMMA ClearedIs ==
    ASSUME NEW t, TreeType(t), NEW n \in Node, NEW u, u = Cleared(t, n)
    PROVE  ClearedLinks(t, n, u)
<1>1. u = [root |-> t.root, child |-> [t.child EXCEPT ![n] = NoChild],
           parent |-> [t.parent EXCEPT ![n] = NULL], height |-> [t.height EXCEPT ![n] = 1]]
  BY Zenon DEF Cleared, TreeType
<1>2. NoChild \in [Side -> Link] /\ \A s \in Side : NoChild[s] = NULL
  BY DEF NoChild, Link
<1>3. /\ [t.child EXCEPT ![n] = NoChild] \in [Node -> [Side -> Link]]
      /\ [t.parent EXCEPT ![n] = NULL] \in [Node -> Link]
      /\ t.root \in Link /\ [t.height EXCEPT ![n] = 1] \in [Node -> Nat]
  BY <1>2 DEF TreeType, Link
<1>4. TreeType(u)
  BY <1>1, <1>3 DEF TreeType
<1>5. \A m \in Node \ {n} : /\ u.child[m] = t.child[m] /\ u.parent[m] = t.parent[m]
                            /\ u.height[m] = t.height[m]
  BY <1>1 DEF TreeType
<1>6. u.child[n] = NoChild /\ u.parent[n] = NULL /\ u.height[n] = 1
  BY <1>1 DEF TreeType
<1> QED BY <1>1, <1>2, <1>4, <1>5, <1>6 DEF ClearedLinks

\* The tree u has the nodes L, in the order of K.
Shape(u, L, V, K) == Tree(u, L, V) /\ Ordered(u, L, V, K)

\* A node with at most one child, c, is taken out.
TakenOut(t, n, c) == Zeroed(Spliced(t, n, c), n)

TakenAfter(t, L, T, K, n, c, u) ==
    /\ Shape(u, L \ {n}, Without(T, n), K)
    /\ u.height = t.height
    /\ \A a \in L \ {n}, r \in Side :
          u.child[a][r] = IF t.child[a][r] = n THEN c ELSE t.child[a][r]

LEMMA TakenOutIs ==
    ASSUME NEW t, NEW L, NEW T, NEW K, Shape(t, L, T, K),
           NEW n \in L, NEW s \in Side, t.child[n][Opposite(s)] = NULL,
           NEW c, c = t.child[n][s], NEW u, u = TakenOut(t, n, c)
    PROVE  TakenAfter(t, L, T, K, n, c, u)
<1>0. Tree(t, L, T) /\ Ordered(t, L, T, K) /\ L \subseteq Node
  BY DEF Shape, Tree
<1>1. PICK v : v = Spliced(t, n, c)
  OBVIOUS
<1>2. Tree(v, L \ {n}, Without(T, n)) /\ Ordered(v, L \ {n}, Without(T, n), K)
  BY <1>0, <1>1, SpliceTree, Zenon
<1>3. /\ TreeType(v) /\ v.height = t.height
      /\ \A a \in L, r \in Side :
            v.child[a][r] = IF t.child[a][r] = n THEN c ELSE t.child[a][r]
  <2>1. SplicedLinks(t, L, n, c, v)
    BY <1>0, <1>1, SpliceLinks
  <2> QED BY <2>1 DEF SplicedLinks
<1>4. /\ TreeType(u) /\ u.root = v.root /\ u.height = v.height
      /\ \A m \in Node \ {n} : u.child[m] = v.child[m] /\ u.parent[m] = v.parent[m]
  <2>1. u = Zeroed(v, n) /\ n \in Node
    BY <1>0, <1>1 DEF TakenOut
  <2>2. ZeroedLinks(v, n, u)
    BY <1>3, <2>1, ZeroedIs
  <2> QED BY <2>2 DEF ZeroedLinks
<1>5. SameLinks(v, u, L \ {n})
  BY <1>0, <1>4 DEF SameLinks
<1>6. Shape(u, L \ {n}, Without(T, n), K)
  <2>1. \A m \in L \ {n} : K[m] = K[m]
    OBVIOUS
  <2> QED BY <1>2, <1>4, <1>5, <2>1, SameTree DEF Shape
<1>7. \A a \in L \ {n}, r \in Side :
         u.child[a][r] = IF t.child[a][r] = n THEN c ELSE t.child[a][r]
  BY <1>0, <1>3, <1>4
<1> QED BY <1>3, <1>4, <1>6, <1>7 DEF TakenAfter

\* The next node in order has no left child, and its key is between that of n and the others.
Succeeds(t, L, T, K, n, v) ==
    /\ v \in L /\ v # n /\ v \in Under(t, T, n, "right") /\ t.child[v]["left"] = NULL
    /\ t.child[v]["right"] # n /\ n \notin T[v]
    /\ Fits(L \ {v}, K, n, v)

LEMMA SuccessorIs ==
    ASSUME NEW t, NEW L, NEW T, NEW K, Shape(t, L, T, K), NEW n \in L,
           t.child[n]["right"] # NULL,
           NEW v, v = Outermost(t, t.child[n]["right"], "left")
    PROVE  Succeeds(t, L, T, K, n, v)
<1>0. /\ Tree(t, L, T) /\ Ordered(t, L, T, K) /\ L \subseteq Node
      /\ "right" \in Side /\ "left" \in Side
      /\ Opposite("right") = "left" /\ Opposite("left") = "right"
  BY DEF Shape, Tree, Side, Opposite
<1>1. PICK c \in L : /\ c = t.child[n]["right"] /\ T[c] = Under(t, T, n, "right")
                     /\ n \notin T[c] /\ T[c] \subseteq L
  BY <1>0, TwoSides
<1>2. /\ v \in T[c] /\ v \in L /\ t.child[v]["left"] = NULL
      /\ \A m \in T[c] : m # v => Before("left", K[v], K[m])
  BY <1>0, <1>1, OutermostIs
<1>3. v # n /\ n \notin T[v]
  BY <1>0, <1>1, <1>2, Nested
<1>4. t.child[v]["right"] # n
  <2> SUFFICES ASSUME t.child[v]["right"] = n PROVE FALSE
    OBVIOUS
  <2>1. n \in Under(t, T, v, "right") /\ Under(t, T, v, "right") \subseteq T[v]
    BY <1>0, <1>2, TwoSides, NodeAssumption
  <2> QED BY <1>3, <2>1
<1>5. ASSUME NEW m \in (L \ {v}) \ {n}, NEW s \in Side, Before(s, K[m], K[n])
      PROVE  Before(s, K[m], K[v])
  <2>0. /\ K[m] \in Nat /\ K[n] \in Nat /\ K[v] \in Nat
        /\ Before("right", K[v], K[n]) /\ Before("left", K[n], K[v])
    <3>1. K[m] \in Nat /\ K[n] \in Nat /\ K[v] \in Nat /\ Before("right", K[v], K[n])
      BY <1>0, <1>1, <1>2 DEF Ordered
    <3> QED BY <1>0, <3>1, Befores
  <2>1. CASE s = "left"
    BY <1>0, <1>5, <2>0, <2>1, Befores
  <2>2. CASE s = "right" /\ m \in T[n]
    <3>1. PICK r \in Side : m \in Under(t, T, n, r)
      BY <1>0, <2>2, OnASide, Zenon
    <3>2. CASE r = "right"
      <4>1. Before("left", K[v], K[m])
        BY <1>1, <1>2, <3>1, <3>2
      <4> QED BY <1>0, <2>0, <2>2, <4>1, Befores
    <3>3. CASE r = "left"
      <4>1. Before("left", K[m], K[n])
        BY <1>0, <3>1, <3>3 DEF Ordered
      <4>2. K[m] < K[n] /\ K[n] < K[m]
        BY <1>5, <2>2, <4>1 DEF Before
      <4> QED BY <2>0, <4>2
    <3> QED BY <3>2, <3>3 DEF Side
  <2>3. CASE s = "right" /\ m \notin T[n]
    <3>1. PICK r \in Side : \A j \in T[n] : Before(r, K[m], K[j])
      BY <1>0, <2>3, Apart
    <3>2. n \in T[n] /\ v \in T[n]
      BY <1>0, <1>1, <1>2, TwoSides
    <3>3. r = s
      <4>1. Before(r, K[m], K[n])
        BY <3>1, <3>2
      <4>2. ~(K[m] < K[n] /\ K[n] < K[m])
        BY <2>0
      <4> QED BY <1>5, <4>1, <4>2 DEF Before, Side
    <3> QED BY <3>1, <3>2, <3>3
  <2> QED BY <2>1, <2>2, <2>3 DEF Side
<1>6. Fits(L \ {v}, K, n, v)
  <2>1. K[v] \in Nat
    BY <1>0, <1>2 DEF Ordered
  <2> QED BY <1>5, <2>1 DEF Fits
<1> QED BY <1>1, <1>2, <1>3, <1>4, <1>6 DEF Succeeds

\* A node with two children is taken out, and the successor v put in its place.
SwappedOut(t, n, v) ==
    Zeroed(Replaced(Spliced(t, v, t.child[v]["right"]), n, v, t.parent[n]), n)

SwappedAfter(t, L, T, K, n, v, c, u) ==
    /\ Shape(u, L \ {n}, ReplacedIn(Without(T, v), n, v), K)
    /\ u.height = t.height
    /\ \A r \in Side : u.child[v][r] = IF t.child[n][r] = v THEN c ELSE t.child[n][r]
    /\ \A a \in L \ {n, v}, r \in Side :
          u.child[a][r] = IF t.child[a][r] = n THEN v
                          ELSE IF t.child[a][r] = v THEN c ELSE t.child[a][r]

LEMMA SwappedOutIs ==
    ASSUME NEW t, NEW L, NEW T, NEW K, Shape(t, L, T, K), NEW n \in L,
           t.child[n]["right"] # NULL,
           NEW v, v = Outermost(t, t.child[n]["right"], "left"),
           NEW c, c = t.child[v]["right"], NEW u, u = SwappedOut(t, n, v)
    PROVE  SwappedAfter(t, L, T, K, n, v, c, u)
<1>0. /\ Tree(t, L, T) /\ Ordered(t, L, T, K) /\ L \subseteq Node /\ NULL \notin Node
      /\ "right" \in Side /\ Opposite("right") = "left"
  BY NodeAssumption DEF Shape, Tree, Side, Opposite
<1>1. /\ v \in L /\ v # n /\ v \in Node /\ t.child[v]["left"] = NULL /\ c # n
      /\ Fits(L \ {v}, K, n, v)
  BY <1>0, SuccessorIs DEF Succeeds
<1> PICK M : M = L \ {v}
  BY Zenon
<1> PICK X : X = Without(T, v)
  OBVIOUS
<1>2. PICK x : x = Spliced(t, v, c)
  OBVIOUS
<1>3. Tree(x, M, X) /\ Ordered(x, M, X, K)
  <2>1. t.child[v][Opposite("right")] = NULL
    BY <1>0, <1>1
  <2> QED BY <1>0, <1>1, <1>2, <2>1, SpliceTree
<1>4. /\ TreeType(x) /\ x.height = t.height
      /\ \A a \in L, r \in Side :
            x.child[a][r] = IF t.child[a][r] = v THEN c ELSE t.child[a][r]
      /\ \A m \in Node : x.parent[m] = IF m = c THEN t.parent[v] ELSE t.parent[m]
  <2>1. SplicedLinks(t, L, v, c, x)
    BY <1>0, <1>1, <1>2, SpliceLinks
  <2> QED BY <2>1 DEF SplicedLinks
<1>5. PICK y : y = Replaced(x, n, v, x.parent[n])
  OBVIOUS
<1>6. n \in M /\ v \notin M /\ Fits(M, K, n, v) /\ x.parent[n] = t.parent[n]
  BY <1>0, <1>1, <1>4
<1>7. /\ Tree(y, (M \ {n}) \union {v}, ReplacedIn(X, n, v))
      /\ Ordered(y, (M \ {n}) \union {v}, ReplacedIn(X, n, v), K)
  BY <1>1, <1>3, <1>5, <1>6, ReplaceTree
<1>8. /\ TreeType(y) /\ y.height = x.height
      /\ \A a \in M, r \in Side :
            y.child[a][r] = IF x.child[a][r] = n THEN v ELSE x.child[a][r]
      /\ \A r \in Side : y.child[v][r] = x.child[n][r]
  <2>1. Tree(x, M, X) /\ n \in M /\ v \in Node /\ v \notin M /\ y = Replaced(x, n, v, x.parent[n])
    BY <1>1, <1>3, <1>5, <1>6, Zenon
  <2> QED BY ONLY <2>1, ReplaceLinks
<1>9. /\ TreeType(u) /\ u.root = y.root /\ u.height = y.height
      /\ \A m \in Node \ {n} : u.child[m] = y.child[m] /\ u.parent[m] = y.parent[m]
  <2>1. u = Zeroed(y, n) /\ n \in Node
    BY <1>0, <1>2, <1>5, <1>6, Zenon DEF SwappedOut
  <2>2. ZeroedLinks(y, n, u)
    BY <1>8, <2>1, ZeroedIs
  <2> QED BY <2>2 DEF ZeroedLinks
<1>10. (M \ {n}) \union {v} = L \ {n}
  BY <1>1
<1>11. SameLinks(y, u, L \ {n})
  BY <1>0, <1>9 DEF SameLinks
<1>12. Shape(u, L \ {n}, ReplacedIn(X, n, v), K)
  <2>1. \A m \in L \ {n} : K[m] = K[m]
    OBVIOUS
  <2> QED BY <1>7, <1>9, <1>10, <1>11, <2>1, SameTree DEF Shape
<1>13. \A r \in Side : u.child[v][r] = IF t.child[n][r] = v THEN c ELSE t.child[n][r]
  <2> SUFFICES ASSUME NEW r \in Side
               PROVE  u.child[v][r] = IF t.child[n][r] = v THEN c ELSE t.child[n][r]
    OBVIOUS
  <2>1. u.child[v] = y.child[v]
    BY <1>1, <1>9, Zenon
  <2>2. y.child[v][r] = x.child[n][r]
    BY <1>8, Zenon
  <2>3. x.child[n][r] = IF t.child[n][r] = v THEN c ELSE t.child[n][r]
    BY <1>4
  <2> QED BY ONLY <2>1, <2>2, <2>3
<1>14. \A a \in L \ {n, v}, r \in Side :
          u.child[a][r] = IF t.child[a][r] = n THEN v
                          ELSE IF t.child[a][r] = v THEN c ELSE t.child[a][r]
  <2> SUFFICES ASSUME NEW a \in L \ {n, v}, NEW r \in Side
               PROVE  u.child[a][r] = IF t.child[a][r] = n THEN v
                                      ELSE IF t.child[a][r] = v THEN c ELSE t.child[a][r]
    OBVIOUS
  <2>1. u.child[a][r] = y.child[a][r]
    BY <1>0, <1>9
  <2>2. y.child[a][r] = IF x.child[a][r] = n THEN v ELSE x.child[a][r]
    BY <1>8
  <2>3. x.child[a][r] = IF t.child[a][r] = v THEN c ELSE t.child[a][r]
    BY <1>4
  <2> QED BY <1>1, <2>1, <2>2, <2>3
<1>15. u.height = t.height
  BY <1>4, <1>8, <1>9
<1> QED BY <1>12, <1>13, <1>14, <1>15 DEF SwappedAfter

HungOn(t, n, p, s) == SetParent(SetChild(Cleared(t, n), p, s, n), n, p)

\* A node that is not in the tree is prepared: the tree is what it was.
LEMMA ClearedShape ==
    ASSUME NEW t, NEW L, NEW T, NEW K, Shape(t, L, T, K), NEW n \in Node, n \notin L,
           NEW J, \A m \in L : J[m] = K[m], NEW u, u = Cleared(t, n)
    PROVE  Shape(u, L, T, J)
<1>0. Tree(t, L, T) /\ Ordered(t, L, T, K) /\ L \subseteq Node /\ TreeType(t)
  BY DEF Shape, Tree
<1>1. /\ TreeType(u) /\ u.root = t.root
      /\ \A m \in Node \ {n} : u.child[m] = t.child[m] /\ u.parent[m] = t.parent[m]
  <2>1. ClearedLinks(t, n, u)
    BY <1>0, ClearedIs
  <2> QED BY <2>1 DEF ClearedLinks
<1>2. SameLinks(t, u, L)
  BY <1>0, <1>1 DEF SameLinks
<1> QED BY <1>0, <1>1, <1>2, SameTree DEF Shape

\* J gives n, which is not in the tree, a key that no other node has.
NewKey(L, K, n, k, J) ==
    /\ n \in Node /\ n \notin L /\ k \in Nat /\ J[n] = k
    /\ \A m \in L : K[m] # k /\ J[m] = K[m]

HungAfter(t, L, T, J, n, p, s, u) ==
    /\ p \in L /\ s \in Side /\ t.child[p][s] = NULL
    /\ HungLinks(t, L, n, p, s, u)
    /\ Shape(u, L \union {n}, HungIn(T, n, p), J)
    /\ u.height[n] = 1 /\ \A m \in Node \ {n} : u.height[m] = t.height[m]

\* The new leaf n hangs where the way to its key ends.
LEMMA HungOnIs ==
    ASSUME NEW t, NEW L, NEW T, NEW K, Shape(t, L, T, K), L # {},
           NEW n, NEW k, NEW J, NewKey(L, K, n, k, J),
           NEW w, w = WayIn(t, K, k), NEW p, p = w[Len(w)],
           NEW s, s = (IF k < K[p] THEN "left" ELSE "right"),
           NEW u, u = HungOn(t, n, p, s)
    PROVE  HungAfter(t, L, T, J, n, p, s, u)
<1>20. /\ n \in Node /\ n \notin L /\ k \in Nat /\ J[n] = k
      /\ \A m \in L : K[m] # k /\ J[m] = K[m]
  BY DEF NewKey
<1>0. Tree(t, L, T) /\ Ordered(t, L, T, K) /\ L \subseteq Node /\ TreeType(t) /\ NULL \notin Node
  BY NodeAssumption DEF Shape, Tree
<1>1. Searched(t, L, T, K, k, w)
  BY <1>0, <1>20, WayIs
<1>2. /\ p \in L /\ s \in Side /\ t.child[p][s] = NULL /\ Before(s, k, K[p])
      /\ \A a \in L, r \in Side : p \in Under(t, T, a, r) => Before(r, k, K[a])
  BY <1>0, <1>1, <1>20, WayEnds
<1>3. Hangs(t, L, T, J, n, p, s)
  BY <1>2, <1>20 DEF Hangs
<1>4. PICK x : x = Cleared(t, n)
  OBVIOUS
<1>5. /\ TreeType(x) /\ x.root = t.root
      /\ \A m \in Node \ {n} : /\ x.child[m] = t.child[m] /\ x.parent[m] = t.parent[m]
                               /\ x.height[m] = t.height[m]
      /\ \A r \in Side : x.child[n][r] = NULL
      /\ x.parent[n] = NULL /\ x.height[n] = 1
  <2>1. ClearedLinks(t, n, x)
    BY <1>0, <1>4, <1>20, ClearedIs
  <2> QED BY <2>1 DEF ClearedLinks
<1>6. PICK y : y = SetChild(x, p, s, n)
  OBVIOUS
<1>7. ChildSet(x, p, s, n, y)
  <2>1. TreeType(x) /\ p \in Node /\ s \in Side /\ n \in Link
    BY <1>0, <1>2, <1>5, <1>20 DEF Link
  <2> QED BY <1>6, <2>1, SetChildIs
<1>8. ParentSet(y, n, p, u)
  <2>1. TreeType(y) /\ n \in Link /\ p \in Link
    BY <1>0, <1>2, <1>7, <1>20 DEF Link, ChildSet
  <2>2. u = SetParent(y, n, p)
    BY <1>4, <1>6 DEF HungOn
  <2> QED BY <2>1, <2>2, SetParentIs
<1>9. p # n /\ p # NULL /\ p \in Node
  BY <1>0, <1>2, <1>20
<1>10. HungLinks(t, L, n, p, s, u)
  <2>1. TreeType(u) /\ u.root = t.root
    BY <1>5, <1>7, <1>8 DEF ChildSet, ParentSet
  <2>2. \A r \in Side : u.child[n][r] = NULL
    BY <1>5, <1>7, <1>8, <1>9, <1>20 DEF ChildSet, ParentSet
  <2>3. \A a \in L, r \in Side : u.child[a][r] = IF a = p /\ r = s THEN n ELSE t.child[a][r]
    <3> SUFFICES ASSUME NEW a \in L, NEW r \in Side
                 PROVE  u.child[a][r] = IF a = p /\ r = s THEN n ELSE t.child[a][r]
      OBVIOUS
    <3>1. a \in Node \ {n}
      BY <1>0, <1>20
    <3>2. u.child[a][r] = y.child[a][r]
      BY <1>8 DEF ParentSet
    <3>3. y.child[a][r] = IF a = p /\ r = s THEN n ELSE x.child[a][r]
      BY <1>7, <3>1 DEF ChildSet
    <3> QED BY <1>5, <3>1, <3>2, <3>3
  <2>4. u.parent[n] = p
    BY <1>8, <1>20 DEF ParentSet
  <2>5. \A m \in L : u.parent[m] = t.parent[m]
    BY <1>0, <1>5, <1>7, <1>8, <1>20 DEF ChildSet, ParentSet
  <2> QED BY <1>9, <2>1, <2>2, <2>3, <2>4, <2>5 DEF HungLinks
<1>11. Ordered(t, L, T, J)
  <2>1. TreeType(t) /\ SameLinks(t, t, L) /\ \A m \in L : J[m] = K[m]
    BY <1>0, <1>20 DEF SameLinks
  <2> QED BY <1>0, <2>1, SameTree
<1>13. Shape(u, L \union {n}, HungIn(T, n, p), J)
  <2>1. J[n] \in Nat /\ n \in Node /\ n \notin L
    BY <1>20
  <2> QED BY <1>0, <1>2, <1>3, <1>10, <1>11, <2>1, HangTree, Zenon DEF Shape
<1>14. u.height[n] = 1 /\ \A m \in Node \ {n} : u.height[m] = t.height[m]
  BY <1>5, <1>7, <1>8, <1>20 DEF ChildSet, ParentSet
<1> QED BY <1>2, <1>10, <1>13, <1>14 DEF HungAfter

AloneIn(n) == [m \in Node |-> {n}]

AloneAfter(t, n, K, u) ==
    /\ Shape(u, {n}, AloneIn(n), K) /\ u.height[n] = 1
    /\ \A r \in Side : u.child[n][r] = NULL
    /\ \A m \in Node \ {n} : u.height[m] = t.height[m]

LEMMA HungAloneIs ==
    ASSUME NEW t, NEW L, NEW T, NEW K, Shape(t, L, T, K), L = {},
           NEW n \in Node, K[n] \in Nat, NEW u, u = [Cleared(t, n) EXCEPT !.root = n]
    PROVE  AloneAfter(t, n, K, u)
<1>0. Tree(t, L, T) /\ TreeType(t)
  BY DEF Shape, Tree
<1>1. PICK x : x = Cleared(t, n)
  OBVIOUS
<1>2. /\ TreeType(x)
      /\ \A m \in Node \ {n} : x.height[m] = t.height[m]
      /\ \A r \in Side : x.child[n][r] = NULL
      /\ x.parent[n] = NULL /\ x.height[n] = 1
  <2>1. ClearedLinks(t, n, x)
    BY <1>0, <1>1, ClearedIs
  <2> QED BY <2>1 DEF ClearedLinks
<1>3. u = [x EXCEPT !.root = n]
  BY <1>1
<1>4. /\ TreeType(u) /\ u.root = n /\ u.child = x.child /\ u.parent = x.parent
      /\ u.height = x.height
  BY <1>2, <1>3, Zenon DEF TreeType, Link
<1>5. HungLinks(t, L, n, NULL, "left", u)
  BY <1>2, <1>4 DEF HungLinks
<1>6. Tree(u, {n}, AloneIn(n)) /\ Ordered(u, {n}, AloneIn(n), K)
  BY <1>0, <1>5, HangAlone, Zenon DEF AloneIn
<1> QED BY <1>2, <1>4, <1>6 DEF Shape, AloneAfter

LEMMA RecalculateShape ==
    ASSUME NEW t, NEW L, NEW T, NEW K, Shape(t, L, T, K), NEW n \in L,
           NEW u, u = RecalculateHeight(t, n)
    PROVE  /\ Shape(u, L, T, K) /\ u.child = t.child /\ u.parent = t.parent /\ u.root = t.root
           /\ u.height[n] = HeightFrom(t, n)
           /\ \A m \in Node \ {n} : u.height[m] = t.height[m]
<1>0. Tree(t, L, T) /\ Ordered(t, L, T, K) /\ n \in Node /\ TreeType(t)
  BY DEF Shape, Tree
<1>1. /\ TreeType(u) /\ u.root = t.root /\ u.child = t.child /\ u.parent = t.parent
      /\ \A m \in Node : u.height[m] = IF m = n THEN HeightFrom(t, n) ELSE t.height[m]
  BY <1>0, RecalculateIs
<1>2. SameLinks(t, u, L) /\ \A m \in L : K[m] = K[m]
  BY <1>1 DEF SameLinks
<1>3. Shape(u, L, T, K)
  BY <1>0, <1>1, <1>2, SameTree DEF Shape
<1> QED BY <1>0, <1>1, <1>3

RotatedTo(t, L, T, K, n, s, c, u) ==
    /\ Shape(u, L, Turned(t, T, n, s, c), K)
    /\ RotatedLinks(t, L, n, s, c, u)
    /\ \A m \in Node \ {n, c} : u.height[m] = t.height[m]
    /\ u.height[n] = HeightFrom(u, n) /\ u.height[c] = HeightFrom(u, c)

LEMMA RotatedIs ==
    ASSUME NEW t, NEW L, NEW T, NEW K, Shape(t, L, T, K), NEW n \in L, NEW s \in Side,
           NEW c, c = t.child[n][Opposite(s)], c # NULL, NEW u, u = Rotate(t, n, s)
    PROVE  RotatedTo(t, L, T, K, n, s, c, u)
<1>0. Tree(t, L, T) /\ Ordered(t, L, T, K)
  BY DEF Shape
<1>1. /\ RotatedLinks(t, L, n, s, c, u)
      /\ \A m \in Node \ {n, c} : u.height[m] = t.height[m]
      /\ u.height[n] = HeightFrom(u, n) /\ u.height[c] = HeightFrom(u, c)
  BY <1>0, RotateLinks
<1>2. Tree(u, L, Turned(t, T, n, s, c)) /\ Ordered(u, L, Turned(t, T, n, s, c), K)
  BY <1>0, <1>1, RotateTree
<1> QED BY <1>1, <1>2 DEF Shape, RotatedTo

\* A side that is higher is not empty.
LEMMA LeanUp ==
    ASSUME NEW t, TreeType(t), NEW n \in Node, NEW s \in Side
    PROVE  /\ Lean(t, n, s) \in Int /\ Lean(t, n, Opposite(s)) = - Lean(t, n, s)
           /\ Lean(t, n, s) > 0 => t.child[n][s] # NULL
           /\ Lean(t, n, s) < 0 => t.child[n][Opposite(s)] # NULL
<1>1. PICK a \in Nat : a = GetHeight(t, t.child[n][s])
  BY HeightsAre
<1>2. PICK b \in Nat : b = GetHeight(t, t.child[n][Opposite(s)])
  BY HeightsAre, Sides
<1>3. Lean(t, n, s) = a - b /\ Lean(t, n, Opposite(s)) = b - a
  <2>1. Opposite(Opposite(s)) = s
    BY Sides
  <2> QED BY <1>1, <1>2, <2>1 DEF Lean
<1>4. t.child[n][s] = NULL => a = 0
  BY <1>1 DEF GetHeight
<1>5. t.child[n][Opposite(s)] = NULL => b = 0
  BY <1>2 DEF GetHeight
<1> QED BY <1>3, <1>4, <1>5

-----------------------------------------------------------------------------
(* In every state the links make a tree of the linked nodes, in the order   *)
(* of their keys, and the walk is at one of them.                           *)

ShapeOf(t, L, K) == \E T : Shape(t, L, T, K)

InShape ==
    /\ ShapeOf(tree, linked, key)
    /\ key \in [Node -> Key \union {0}] /\ \A n \in linked : key[n] \in Key
    /\ linked \subseteq Node /\ node \in linked \union {NULL}
    /\ isDelete \in BOOLEAN /\ answer \in Link

\* Going up from a linked node leads to a linked node or to NULL.
LEMMA UpIn ==
    ASSUME NEW t, NEW L, NEW K, ShapeOf(t, L, K), NEW n \in L
    PROVE  /\ t.parent[n] \in L \union {NULL} /\ t.parent[n] # n /\ n \in Node
           /\ t.parent[n] = NULL <=> n = t.root
<1>1. PICK T : Tree(t, L, T)
  BY DEF ShapeOf, Shape
<1>2. n \in Node /\ NULL \notin L /\ t.root \in L /\ t.parent[t.root] = NULL
  BY <1>1, NodeAssumption DEF Tree
<1>3. n # t.root => t.parent[n] \in L /\ t.parent[n] # n
  BY <1>1, Above
<1> QED BY <1>2, <1>3

LEMMA InitInShape == Init => InShape
<1> SUFFICES ASSUME Init PROVE InShape
  OBVIOUS
<1>1. PICK t : t = tree
  OBVIOUS
<1>2. /\ t = [root |-> NULL, child |-> [n \in Node |-> NoChild],
              parent |-> [n \in Node |-> NULL], height |-> [n \in Node |-> 0]]
      /\ key = [n \in Node |-> 0] /\ linked = {} /\ node = NULL /\ isDelete = FALSE
      /\ answer = NULL
  BY <1>1 DEF Init
<1>3. TreeType(t) /\ t.root = NULL
  <2>1. NoChild \in [Side -> Link]
    BY DEF NoChild, Link
  <2> QED BY <1>2, <2>1 DEF TreeType, Link
<1> DEFINE V == [m \in Node |-> {}]
<1>4. V \in [Node -> SUBSET Node]
  OBVIOUS
<1> HIDE DEF V
<1>5. Tree(t, {}, V)
  BY <1>3, <1>4 DEF Tree
<1>6. Ordered(t, {}, V, key)
  BY DEF Ordered
<1>7. ShapeOf(tree, linked, key)
  BY <1>1, <1>2, <1>5, <1>6 DEF ShapeOf, Shape
<1> QED BY <1>2, <1>7, Zenon DEF InShape, Link

LEMMA NoWay ==
    ASSUME NEW step
    PROVE  Path(step, NULL) = <<>>
<1>1. PICK f : Rounds(step, N, f) /\ Path(step, NULL) = f[N][NULL]
  BY PathRounds
<1>2. N \in 0..N /\ NULL \in Link
  BY Count DEF Link
<1>3. f[N] = [m \in Link |-> IF N = 0 \/ m = NULL THEN <<>> ELSE <<m>> \o f[N - 1][step[m]]]
  BY <1>1, <1>2, Zenon DEF Rounds
<1> QED BY <1>1, <1>2, <1>3

\* What a search of t returns.
SearchIn(t, K, k, keys) == LastIn(K, WayIn(t, K, k), keys)

LEMMA SearchIs ==
    ASSUME NEW k, NEW keys
    PROVE  LastOnWay(k, keys) = SearchIn(tree, key, k, keys)
<1>1. Way(k) = WayIn(tree, key, k)
  BY DEF Way, WayIn, Turn
<1> QED BY <1>1 DEF LastOnWay, SearchIn, LastIn

LEMMA SearchEmpty ==
    ASSUME NEW t, NEW T, NEW K, Shape(t, {}, T, K), NEW k, NEW keys
    PROVE  SearchIn(t, K, k, keys) = NULL
<1>1. t.root = NULL
  BY DEF Shape, Tree
<1>2. WayIn(t, K, k) = <<>>
  BY <1>1, NoWay DEF WayIn
<1> QED BY <1>2 DEF SearchIn, LastIn

LEMMA FindIs ==
    ASSUME NEW t, NEW L, NEW K, ShapeOf(t, L, K), NEW k \in Nat,
           NEW e, e = SearchIn(t, K, k, {k})
    PROVE  \/ e = NULL /\ \A m \in L : K[m] # k
           \/ e \in L /\ K[e] = k
<1>1. PICK T : Shape(t, L, T, K)
  BY DEF ShapeOf
<1>2. CASE L = {}
  BY <1>1, <1>2, SearchEmpty
<1>3. CASE L # {}
  <2>1. Tree(t, L, T) /\ Ordered(t, L, T, K)
    BY <1>1 DEF Shape
  <2>2. PICK w : w = WayIn(t, K, k)
    OBVIOUS
  <2>3. Searched(t, L, T, K, k, w)
    BY <1>3, <2>1, <2>2, WayIs
  <2>4. e = LastIn(K, w, {k})
    BY <2>2 DEF SearchIn
  <2> QED BY <2>1, <2>3, <2>4, KeyFound
<1> QED BY <1>2, <1>3

\* NodeFind finds the linked node with the key, if there is one.
LEMMA NodeFindIs ==
    ASSUME InShape, NEW k \in Key
    PROVE  \/ NodeFind(k) = NULL /\ \A m \in linked : key[m] # k
           \/ NodeFind(k) \in linked /\ key[NodeFind(k)] = k
<1>1. NodeFind(k) = SearchIn(tree, key, k, {k})
  BY SearchIs DEF NodeFind
<1>2. ShapeOf(tree, linked, key) /\ k \in Nat
  BY KeyAssumption DEF InShape
<1> QED BY <1>1, <1>2, FindIs

\* The node under which a new one hangs is the last on the way.
LEMMA ParentIs ==
    ASSUME NEW t, NEW L, NEW T, NEW K, Shape(t, L, T, K), L # {}, \A m \in L : K[m] \in Key,
           NEW k \in Nat, NEW w, w = WayIn(t, K, k)
    PROVE  SearchIn(t, K, k, Key) = w[Len(w)]
<1>1. Searched(t, L, T, K, k, w)
  BY WayIs DEF Shape
<1>2. PICK l \in Nat : l = Len(w) /\ l >= 1
  BY <1>1 DEF Searched
<1>3. w \in Seq(L) /\ \A i \in 1..l : K[w[i]] \in Key
  BY <1>1, <1>2 DEF Searched
<1>4. PICK e : e = LastIn(K, w, Key)
  OBVIOUS
<1>5. \E x \in 1..l : e = w[x] /\ \A i \in 1..l : i <= x
  <2>1. l \in 1..l
    BY <1>2
  <2> QED BY <1>2, <1>3, <1>4, <2>1, LastInIs
<1>6. e = w[l]
  <2>1. PICK x \in 1..l : e = w[x] /\ \A i \in 1..l : i <= x
    BY <1>5
  <2>2. l \in 1..l /\ x \in Nat
    BY <1>2
  <2>3. x = l
    BY <1>2, <2>1, <2>2
  <2> QED BY <2>1, <2>3
<1> QED BY <1>2, <1>4, <1>6 DEF SearchIn

LEMMA InsertNewInShape ==
    ASSUME InShape, NEW n \in Node, NEW k \in Key, InsertNew(n, k)
    PROVE  InShape'
<1>1. /\ node = NULL /\ n \notin linked /\ key' = [key EXCEPT ![n] = k] /\ NodeFind(k) = NULL
      /\ linked' = linked \union {n} /\ node' = LastOnWay(k, Key) /\ isDelete' = FALSE
      /\ answer' = NULL
  BY DEF InsertNew, BeginInsert
<1>2. PICK t, L, K : t = tree /\ L = linked /\ K = key
  OBVIOUS
<1>3. PICK u, J, p : u = tree' /\ J = key' /\ p = LastOnWay(k, Key)
  OBVIOUS
<1>4. PICK T : Shape(t, L, T, K)
  BY <1>2 DEF InShape, ShapeOf
<1>5. /\ L \subseteq Node /\ n \notin L /\ k \in Nat /\ n \in Node
      /\ K \in [Node -> Key \union {0}] /\ \A m \in L : K[m] \in Key
      /\ p = SearchIn(t, K, k, Key)
  BY <1>1, <1>2, <1>3, KeyAssumption, SearchIs DEF InShape
<1>6. /\ J \in [Node -> Key \union {0}] /\ J[n] = k
      /\ \A m \in L : J[m] = K[m]
  BY <1>1, <1>2, <1>3, <1>5
<1>7. \A m \in L : K[m] # k
  <2>1. NULL \notin linked
    BY NodeAssumption DEF InShape
  <2> QED BY <1>1, <1>2, <2>1, NodeFindIs
<1>8. ShapeOf(u, L \union {n}, J) /\ p \in L \union {NULL}
  <2>1. CASE L = {}
    <3>1. p = NULL
      BY <1>4, <1>5, <2>1, SearchEmpty
    <3>2. u = [Cleared(t, n) EXCEPT !.root = n]
      BY <1>2, <1>3, <3>1 DEF InsertNew
    <3>3. Ordered(t, L, T, J) /\ Tree(t, L, T)
      BY <1>4, <2>1 DEF Shape, Ordered
    <3>4. Shape(t, L, T, J) /\ J[n] \in Nat
      BY <1>5, <1>6, <3>3 DEF Shape
    <3>5. AloneAfter(t, n, J, u)
      BY <2>1, <3>2, <3>4, HungAloneIs
    <3> QED BY <2>1, <3>1, <3>5 DEF ShapeOf, AloneAfter
  <2>2. CASE L # {}
    <3>1. PICK w : w = WayIn(t, K, k)
      OBVIOUS
    <3>2. p = w[Len(w)]
      BY <1>4, <1>5, <2>2, <3>1, ParentIs
    <3>3. p \in L
      <4>1. Searched(t, L, T, K, k, w)
        BY <1>4, <1>5, <2>2, <3>1, WayIs DEF Shape
      <4> QED BY <3>2, <4>1 DEF Searched
    <3>4. PICK s : s = (IF k < K[p] THEN "left" ELSE "right")
      OBVIOUS
    <3>5. u = HungOn(t, n, p, s)
      <4>1. p # NULL
        BY <1>5, <3>3, NodeAssumption
      <4> QED BY <1>2, <1>3, <3>4, <4>1 DEF InsertNew, HungOn
    <3>6. NewKey(L, K, n, k, J)
      BY <1>5, <1>6, <1>7 DEF NewKey
    <3>7. HungAfter(t, L, T, J, n, p, s, u)
      BY <1>4, <2>2, <3>1, <3>2, <3>4, <3>5, <3>6, HungOnIs
    <3> QED BY <3>3, <3>7 DEF ShapeOf, HungAfter
  <2> QED BY <2>1, <2>2
<1>9. ShapeOf(tree', linked', key')
  BY <1>1, <1>2, <1>3, <1>8
<1>10. \A m \in linked' : key'[m] \in Key
  BY <1>1, <1>2, <1>3, <1>5, <1>6
<1> QED BY <1>1, <1>2, <1>3, <1>5, <1>6, <1>8, <1>9, <1>10, Zenon DEF InShape, Link

LEMMA InsertExistingInShape ==
    ASSUME InShape, NEW n \in Node, NEW k \in Key, InsertExisting(n, k)
    PROVE  InShape'
<1>1. /\ node = NULL /\ n \notin linked /\ key' = [key EXCEPT ![n] = k] /\ NodeFind(k) # NULL
      /\ tree' = Cleared(tree, n) /\ answer' = NodeFind(k)
      /\ linked' = linked /\ node' = node /\ isDelete' = isDelete
  BY DEF InsertExisting, BeginInsert
<1>2. PICK t, L, K : t = tree /\ L = linked /\ K = key
  OBVIOUS
<1>3. PICK u, J : u = tree' /\ J = key'
  OBVIOUS
<1>4. PICK T : Shape(t, L, T, K)
  BY <1>2 DEF InShape, ShapeOf
<1>5. /\ L \subseteq Node /\ n \notin L
      /\ K \in [Node -> Key \union {0}] /\ \A m \in L : K[m] \in Key
  BY <1>1, <1>2 DEF InShape
<1>6. /\ J \in [Node -> Key \union {0}] /\ \A m \in L : J[m] = K[m]
  BY <1>1, <1>2, <1>3, <1>5
<1>7. Shape(u, L, T, J)
  BY <1>1, <1>2, <1>3, <1>4, <1>5, <1>6, ClearedShape, Zenon
<1>8. ShapeOf(tree', linked', key')
  BY <1>1, <1>2, <1>3, <1>7 DEF ShapeOf
<1>9. NodeFind(k) \in linked
  BY <1>1, NodeFindIs
<1> QED BY <1>1, <1>2, <1>3, <1>5, <1>6, <1>8, <1>9 DEF InShape, Link

\* A node is taken out, and the walk begins at a node that stays or at none.
LEMMA RemovedInShape ==
    ASSUME InShape, NEW n \in linked, NEW u, ShapeOf(u, linked \ {n}, key),
           NEW r \in (linked \ {n}) \union {NULL},
           tree' = u, linked' = linked \ {n}, node' = r, isDelete' = TRUE, answer' = NULL,
           key' = key
    PROVE  InShape'
<1>1. ShapeOf(tree', linked', key')
  OBVIOUS
<1> QED BY <1>1 DEF InShape, Link

LEMMA RemoveLeafInShape ==
    ASSUME InShape, NEW n \in Node, RemoveLeaf(n)
    PROVE  InShape'
<1>1. /\ node = NULL /\ n \in linked /\ tree.child[n] = NoChild
      /\ linked' = linked \ {n} /\ node' = tree.parent[n] /\ isDelete' = TRUE
      /\ answer' = NULL /\ key' = key
  BY DEF RemoveLeaf, Removed
<1>2. PICK t, L, K : t = tree /\ L = linked /\ K = key
  OBVIOUS
<1>3. PICK T : Shape(t, L, T, K)
  BY <1>2 DEF InShape, ShapeOf
<1>4. PICK u : u = TakenOut(t, n, NULL)
  OBVIOUS
<1>5. tree' = u
  BY <1>2, <1>4 DEF RemoveLeaf, Removed, TakenOut, Spliced, Zeroed, SetParent
<1>6. "left" \in Side /\ Opposite("left") \in Side /\ \A s \in Side : t.child[n][s] = NULL
  BY <1>1, <1>2 DEF NoChild, Side, Opposite
<1>7. ShapeOf(u, L \ {n}, K)
  <2>1. t.child[n][Opposite("left")] = NULL /\ NULL = t.child[n]["left"] /\ n \in L
    BY <1>1, <1>2, <1>6
  <2>2. TakenAfter(t, L, T, K, n, NULL, u)
    BY <1>3, <1>4, <1>6, <2>1, TakenOutIs
  <2> QED BY <2>2 DEF ShapeOf, TakenAfter
<1>8. t.parent[n] \in (L \ {n}) \union {NULL}
  <2>1. ShapeOf(t, L, K) /\ n \in L
    BY <1>1, <1>2, <1>3 DEF ShapeOf
  <2> QED BY <2>1, UpIn
<1> QED BY <1>1, <1>2, <1>5, <1>7, <1>8, RemovedInShape

LEMMA RemoveWithChildInShape ==
    ASSUME InShape, NEW n \in Node, NEW s \in Side, RemoveWithChild(n, s)
    PROVE  InShape'
<1>2. PICK t, L, K : t = tree /\ L = linked /\ K = key
  OBVIOUS
<1>3. PICK T : Shape(t, L, T, K)
  BY <1>2 DEF InShape, ShapeOf
<1>4. PICK c, u : c = t.child[n][s] /\ u = TakenOut(t, n, c)
  OBVIOUS
<1>1. /\ node = NULL /\ n \in L /\ c # NULL /\ t.child[n][Opposite(s)] = NULL
      /\ linked' = linked \ {n} /\ node' = c /\ isDelete' = TRUE
      /\ answer' = NULL /\ key' = key /\ tree' = u
  BY <1>2, <1>4 DEF RemoveWithChild, Removed, TakenOut, Spliced, Zeroed
<1>5. ShapeOf(u, L \ {n}, K)
  <2>1. TakenAfter(t, L, T, K, n, c, u)
    BY <1>1, <1>3, <1>4, TakenOutIs
  <2> QED BY <2>1 DEF ShapeOf, TakenAfter
<1>6. c \in L \ {n}
  <2>1. Tree(t, L, T)
    BY <1>3 DEF Shape
  <2> QED BY <1>1, <1>4, <2>1, TwoSides
<1> QED BY <1>1, <1>2, <1>5, <1>6, RemovedInShape

LEMMA RemoveWithBothInShape ==
    ASSUME InShape, NEW n \in Node, RemoveWithBoth(n)
    PROVE  InShape'
<1>2. PICK t, L, K : t = tree /\ L = linked /\ K = key
  OBVIOUS
<1>3. PICK T : Shape(t, L, T, K)
  BY <1>2 DEF InShape, ShapeOf
<1>4. PICK v : v = Outermost(t, t.child[n]["right"], "left")
  OBVIOUS
<1>5. PICK u : u = SwappedOut(t, n, v)
  OBVIOUS
<1>1. /\ node = NULL /\ n \in L /\ t.child[n]["right"] # NULL
      /\ linked' = linked \ {n} /\ node' = AboveSuccessor(n, v) /\ isDelete' = TRUE
      /\ answer' = NULL /\ key' = key
  <2>1. RemoveWithBoth(n)
    OBVIOUS
  <2>2. /\ node = NULL /\ n \in linked /\ \A s \in Side : tree.child[n][s] # NULL
        /\ linked' = linked \ {n} /\ isDelete' = TRUE /\ answer' = NULL /\ key' = key
        /\ node' = AboveSuccessor(n, Outermost(tree, tree.child[n]["right"], "left"))
    BY <2>1, Zenon DEF RemoveWithBoth, Removed
  <2> QED BY <1>2, <1>4, <2>2 DEF Side
<1>6. tree' = u
  <2>1. Removed(n, Replaced(Spliced(t, v, t.child[v]["right"]), n, v, t.parent[n]),
                AboveSuccessor(n, v))
    BY <1>2, <1>4, ZenonT(30) DEF RemoveWithBoth, Spliced, Replaced
  <2> QED BY <1>5, <2>1 DEF Removed, SwappedOut, Zeroed
<1>7. ShapeOf(u, L \ {n}, K)
  <2>1. PICK c : c = t.child[v]["right"]
    OBVIOUS
  <2>2. SwappedAfter(t, L, T, K, n, v, c, u)
    BY <1>1, <1>3, <1>4, <1>5, <2>1, SwappedOutIs
  <2> QED BY <2>2 DEF ShapeOf, SwappedAfter
<1>8. AboveSuccessor(n, v) \in (L \ {n}) \union {NULL}
  <2>0. Succeeds(t, L, T, K, n, v)
    BY <1>1, <1>3, <1>4, SuccessorIs
  <2>1. v \in L /\ v # n
    BY <2>0 DEF Succeeds
  <2>2. ShapeOf(t, L, K)
    BY <1>3 DEF ShapeOf
  <2>3. t.parent[v] \in L \union {NULL}
    BY <2>1, <2>2, UpIn
  <2> QED BY <1>2, <2>1, <2>3 DEF AboveSuccessor
<1> QED BY <1>1, <1>2, <1>6, <1>7, <1>8, RemovedInShape

LEMMA DeinitializeInShape ==
    ASSUME InShape, Deinitialize
    PROVE  InShape'
<1>1. PICK t : t = tree
  OBVIOUS
<1>2. PICK T : Tree(t, linked, T)
  BY <1>1 DEF InShape, ShapeOf, Shape
<1>3. PICK u : u = [t EXCEPT !.root = NULL]
  BY Zenon
<1>4. TreeType(u) /\ u.root = NULL
  BY <1>2, <1>3 DEF Tree, TreeType, Link
<1>5. Tree(u, {}, T) /\ Ordered(u, {}, T, key)
  BY <1>2, <1>4 DEF Tree, Ordered
<1>6. ShapeOf(u, {}, key)
  BY <1>5 DEF ShapeOf, Shape
<1>7. tree' = u /\ linked' = {} /\ key' = key /\ node' = NULL
  BY <1>1, <1>3 DEF Deinitialize
<1>8. ShapeOf(tree', linked', key')
  BY <1>6, <1>7
<1> QED BY <1>7, <1>8 DEF InShape, Deinitialize, Link

\* What an iteration of the walk leaves in shape: the walk goes on above a linked node.
LEMMA WalkInShape ==
    ASSUME InShape, NEW t, ShapeOf(t, linked, key), NEW top \in linked, GoUp(t, top),
           UNCHANGED <<key, linked, isDelete, answer>>
    PROVE  InShape'
<1>1. PICK L, K : L = linked /\ K = key
  OBVIOUS
<1>2. PICK u : u = RecalculateHeight(t, top)
  OBVIOUS
<1>3. PICK T : Shape(t, L, T, K)
  BY <1>1 DEF ShapeOf
<1>4. top \in L
  BY <1>1
<1>5. Shape(u, L, T, K)
  BY <1>2, <1>3, <1>4, RecalculateShape
<1>6. t.parent[top] \in L \union {NULL}
  <2>1. ShapeOf(t, L, K)
    BY <1>1
  <2> QED BY <1>4, <2>1, UpIn
<1>7. tree' = u /\ node' = t.parent[top]
  BY <1>2 DEF GoUp
<1>8. ShapeOf(tree', linked', key')
  BY <1>1, <1>5, <1>7 DEF ShapeOf
<1> QED BY <1>1, <1>6, <1>7, <1>8 DEF InShape

LEMMA KeepShapeInShape ==
    ASSUME InShape, KeepShape
    PROVE  InShape'
<1>1. /\ node \in linked /\ GoUp(tree, node)
      /\ UNCHANGED <<key, linked, isDelete, answer>>
  BY DEF KeepShape, InShape
<1>2. ShapeOf(tree, linked, key)
  BY DEF InShape
<1> QED BY <1>1, <1>2, WalkInShape

\* One rotation of n to the side that leans less.
LEMMA OnceIs ==
    ASSUME NEW t, NEW L, NEW T, NEW K, Shape(t, L, T, K), NEW n \in L, NEW s \in Side,
           Lean(t, n, s) = 2, NEW c, c = t.child[n][s],
           NEW u, u = Rotate(t, n, Opposite(s))
    PROVE  c \in L /\ c # n /\ RotatedTo(t, L, T, K, n, Opposite(s), c, u)
<1>0. Tree(t, L, T) /\ TreeType(t) /\ n \in Node
  BY DEF Shape, Tree
<1>1. c # NULL
  BY <1>0, LeanUp
<1>2. c \in L /\ c # n
  BY <1>0, <1>1, TwoSides
<1>3. PICK r : r = Opposite(s)
  OBVIOUS
<1>4. r \in Side /\ c = t.child[n][Opposite(r)] /\ u = Rotate(t, n, r)
  BY <1>3, Sides
<1>5. RotatedTo(t, L, T, K, n, r, c, u)
  BY <1>1, <1>4, RotatedIs
<1> QED BY <1>2, <1>3, <1>5

LEMMA RotateOnceInShape ==
    ASSUME InShape, RotateOnce
    PROVE  InShape'
<1>1. PICK L, K, t, n : L = linked /\ K = key /\ t = tree /\ n = node
  OBVIOUS
<1>2. PICK T : Shape(t, L, T, K)
  BY <1>1 DEF InShape, ShapeOf
<1>3. n \in L /\ UNCHANGED <<key, linked, isDelete, answer>>
  BY <1>1 DEF InShape, RotateOnce
<1>4. PICK s \in Side : Lean(t, n, s) = 2 /\ GoUp(Rotate(t, n, Opposite(s)), t.child[n][s])
  BY <1>1 DEF RotateOnce, OnceOn
<1>5. PICK u, c : u = Rotate(t, n, Opposite(s)) /\ c = t.child[n][s]
  OBVIOUS
<1>6. c \in L /\ Shape(u, L, Turned(t, T, n, Opposite(s), c), K)
  BY <1>2, <1>3, <1>4, <1>5, OnceIs DEF RotatedTo
<1>7. ShapeOf(u, linked, key) /\ c \in linked /\ GoUp(u, c)
  BY <1>1, <1>4, <1>5, <1>6 DEF ShapeOf
<1> QED BY <1>3, <1>7, WalkInShape

\* What an iteration of the walk leaves of t: the nodes R have moved, and "top" is where
\* n was.
Moved(t, L, T, K, n, top, R, V, u) ==
    /\ Shape(u, L, V, K) /\ R \subseteq T[n] /\ top \in R /\ n \in R
    /\ V[top] = T[n] /\ u.parent[top] = t.parent[n]
    /\ \A m \in Node \ R : u.height[m] = t.height[m]
    /\ \A m \in L \ R :
          /\ V[m] = T[m]
          /\ \A r \in Side :
                /\ t.child[m][r] \notin R \ {n}
                /\ u.child[m][r] = IF t.child[m][r] = n THEN top ELSE t.child[m][r]

\* What two rotations leave of n, its child c on side s and the inner grandchild g.
Twisted(t, n, s, c, g, u) ==
    /\ u.child[g][s] = c /\ u.child[g][Opposite(s)] = n
    /\ u.child[c][s] = t.child[c][s] /\ u.child[c][Opposite(s)] = t.child[g][s]
    /\ u.child[n][s] = t.child[g][Opposite(s)]
    /\ u.child[n][Opposite(s)] = t.child[n][Opposite(s)]
    /\ \A m \in {n, c, g} : u.height[m] = HeightFrom(u, m)

\* The nodes that two rotations turn are distinct, and in the tree.
LEMMA ThreeDown ==
    ASSUME NEW t, NEW L, NEW T, Tree(t, L, T), NEW n \in L, NEW s \in Side,
           NEW c, c = t.child[n][s], c # NULL, NEW g, g = t.child[c][Opposite(s)], g # NULL
    PROVE  /\ c \in L /\ g \in L /\ c # n /\ g # n /\ g # c
           /\ c \in T[n] /\ g \in T[n] /\ g \in T[c]
           /\ t.child[n][Opposite(s)] # c /\ t.child[g][s] # n
           /\ t.parent[c] = n /\ t.parent[g] = c
<1>1. c \in L /\ c # n /\ c \in T[n] /\ T[c] \subseteq T[n] /\ t.child[n][Opposite(s)] # c
      /\ t.parent[c] = n
  BY TwoSides
<1>2. Opposite(s) \in Side
  BY Sides
<1>3. g \in L /\ g # c /\ g \in T[c] /\ t.parent[g] = c
  BY <1>1, <1>2, TwoSides
<1>4. g # n
  BY <1>1, <1>3, OneAbove
<1>5. t.child[g][s] # n
  <2> SUFFICES ASSUME t.child[g][s] = n PROVE FALSE
    OBVIOUS
  <2>1. n # NULL
    BY NodeAssumption DEF Tree
  <2>2. Below(t, L, T, g, n)
    BY <1>3, <2>1, ChildIs
  <2>3. n \in T[g]
    BY <2>2 DEF Below
  <2> QED BY <1>1, <1>3, <1>4, <2>3, OneAbove
<1> QED BY <1>1, <1>3, <1>4, <1>5

LEMMA TwiceIs ==
    ASSUME NEW t, NEW L, NEW T, NEW K, Shape(t, L, T, K), NEW n \in L, NEW s \in Side,
           NEW c, c = t.child[n][s], c # NULL, NEW g, g = t.child[c][Opposite(s)], g # NULL,
           NEW v, v = Rotate(t, c, s), NEW u, u = Rotate(v, n, Opposite(s))
    PROVE  /\ \E V : Moved(t, L, T, K, n, g, {n, c, g}, V, u)
           /\ Twisted(t, n, s, c, g, u)
<1>0. Tree(t, L, T) /\ TreeType(t)
  BY DEF Shape, Tree
<1>1. /\ c \in L /\ g \in L /\ c # n /\ g # n /\ g # c
      /\ c \in T[n] /\ g \in T[n] /\ g \in T[c]
      /\ t.child[n][Opposite(s)] # c /\ t.child[g][s] # n
      /\ t.parent[c] = n /\ t.parent[g] = c
  BY <1>0, ThreeDown
<1>2. PICK o : o = Opposite(s)
  OBVIOUS
<1>3. o \in Side /\ Opposite(o) = s /\ o # s /\ Side = {s, o}
  BY <1>2, Sides
<1>4. PICK X : X = Turned(t, T, c, s, g)
  OBVIOUS
<1>5. /\ Shape(v, L, X, K) /\ RotatedLinks(t, L, c, s, g, v)
      /\ \A m \in Node \ {c, g} : v.height[m] = t.height[m]
      /\ v.height[c] = HeightFrom(v, c) /\ v.height[g] = HeightFrom(v, g)
  <2>1. RotatedTo(t, L, T, K, c, s, g, v)
    BY <1>1, RotatedIs
  <2> QED BY <1>4, <2>1, Zenon DEF RotatedTo
<1>6. /\ v.child[c][s] = t.child[c][s] /\ v.child[c][o] = t.child[g][s]
      /\ v.child[g][s] = c /\ v.child[g][o] = t.child[g][o]
      /\ \A a \in L \ {c, g}, r \in Side :
            v.child[a][r] = IF t.child[a][r] = c THEN g ELSE t.child[a][r]
      /\ \A m \in L \ {c, g} : v.parent[m] = IF m = t.child[g][s] THEN c ELSE t.parent[m]
  BY <1>2, <1>5, Zenon DEF RotatedLinks
<1>7. v.child[n][s] = g /\ v.child[n][o] = t.child[n][o] /\ v.parent[n] = t.parent[n]
  BY <1>1, <1>2, <1>3, <1>6, Zenon
<1>8. PICK V : V = Turned(v, X, n, o, g)
  OBVIOUS
<1>9. /\ Shape(u, L, V, K) /\ RotatedLinks(v, L, n, o, g, u)
      /\ \A m \in Node \ {n, g} : u.height[m] = v.height[m]
      /\ u.height[n] = HeightFrom(u, n) /\ u.height[g] = HeightFrom(u, g)
  <2>1. g = v.child[n][Opposite(o)] /\ u = Rotate(v, n, o)
    BY <1>2, <1>3, <1>7
  <2>2. Shape(v, L, X, K)
    BY <1>5
  <2>3. RotatedTo(v, L, X, K, n, o, g, u)
    BY <1>3, <2>1, <2>2, RotatedIs
  <2> QED BY <1>8, <2>3, Zenon DEF RotatedTo
<1>10. /\ u.child[n][o] = v.child[n][o] /\ u.child[n][s] = v.child[g][o]
       /\ u.child[g][o] = n /\ u.child[g][s] = v.child[g][s]
       /\ \A a \in L \ {n, g}, r \in Side :
             u.child[a][r] = IF v.child[a][r] = n THEN g ELSE v.child[a][r]
       /\ u.parent[g] = v.parent[n]
  BY <1>3, <1>9, Zenon DEF RotatedLinks
<1>11. \A r \in Side : v.child[c][r] # n /\ v.child[c][r] # g
  <2>1. Tree(v, L, X)
    BY <1>5 DEF Shape
  <2>2. NULL \notin L
    BY <1>0, NodeAssumption DEF Tree
  <2>3. g \in X[n] /\ X[g] \subseteq X[n]
    <3>1. g = v.child[n][s] /\ g # NULL
      BY <1>7
    <3>2. Below(v, L, X, n, g)
      BY <2>1, <3>1, ChildIs
    <3> QED BY <3>2 DEF Below
  <2>4. c \in X[g]
    <3>1. c = v.child[g][s] /\ c # NULL /\ g \in L
      BY <1>1, <1>6, Zenon
    <3>2. Below(v, L, X, g, c)
      BY <2>1, <3>1, ChildIs, Zenon
    <3> QED BY <3>2 DEF Below
  <2> SUFFICES ASSUME NEW r \in Side, v.child[c][r] \in {n, g} PROVE FALSE
    OBVIOUS
  <2>5. v.child[c][r] \in X[c]
    <3>1. PICK d : d = v.child[c][r]
      OBVIOUS
    <3>2. d # NULL /\ c \in L
      BY <1>1, <2>2, <3>1
    <3>3. Below(v, L, X, c, d)
      BY <2>1, <3>1, <3>2, ChildIs
    <3> QED BY <3>1, <3>3, Zenon DEF Below
  <2>6. n \in X[c] \/ g \in X[c]
    BY <2>5
  <2>7. g \notin X[c]
    <3>1. g \in L /\ c # g
      BY <1>1
    <3> QED BY ONLY <2>1, <2>4, <3>1, OneAbove
  <2>8. n \notin X[c]
    <3>1. c \in X[n]
      BY <2>3, <2>4
    <3>2. n \in L /\ c # n
      BY <1>1
    <3> QED BY ONLY <2>1, <3>1, <3>2, OneAbove
  <2> QED BY <2>6, <2>7, <2>8
<1>12. u.child[c][s] = t.child[c][s] /\ u.child[c][o] = t.child[g][s]
  <2>1. \A r \in Side : u.child[c][r] = v.child[c][r]
    <3>1. c \in L \ {n, g}
      BY <1>1
    <3> QED BY <1>10, <1>11, <3>1, Zenon
  <2> QED BY <1>3, <1>6, <2>1, Zenon
<1>13. u.height[c] = HeightFrom(u, c)
  <2>1. \A r \in Side : u.child[c][r] = v.child[c][r]
    <3>1. c \in L \ {n, g}
      BY <1>1
    <3> QED BY <1>10, <1>11, <3>1, Zenon
  <2>2. ASSUME NEW r \in Side
        PROVE  v.child[c][r] = NULL \/ v.child[c][r] \in L \ {n, g}
    <3>1. Tree(v, L, X)
      BY <1>5, Zenon DEF Shape
    <3>2. PICK d : d = v.child[c][r]
      OBVIOUS
    <3>3. d # NULL => d \in L
      <4>1. c \in L
        BY <1>1
      <4>2. d # NULL => Below(v, L, X, c, d)
        BY ONLY <3>1, <3>2, <4>1, ChildIs, r \in Side
      <4> QED BY <4>2 DEF Below
    <3> QED BY <1>11, <3>2, <3>3
  <2>3. ASSUME NEW r \in Side
        PROVE  GetHeight(u, u.child[c][r]) = GetHeight(v, v.child[c][r])
    <3>1. PICK d : d = v.child[c][r]
      OBVIOUS
    <3>2. d # NULL => u.height[d] = v.height[d]
      <4>1. d # NULL => d \in Node \ {n, g}
        BY <1>0, <2>2, <3>1, Zenon DEF Tree
      <4> QED BY <1>9, <4>1, Zenon
    <3> QED BY <2>1, <3>1, <3>2, Zenon DEF GetHeight
  <2>4. HeightFrom(u, c) = HeightFrom(v, c)
    BY <2>3 DEF HeightFrom, Side
  <2>5. c \in Node \ {n, g}
    BY <1>0, <1>1 DEF Tree
  <2> QED BY <1>5, <1>9, <2>4, <2>5, Zenon
<1>14. Twisted(t, n, s, c, g, u)
  BY <1>2, <1>6, <1>7, <1>9, <1>10, <1>12, <1>13, Zenon DEF Twisted
<1>15. Moved(t, L, T, K, n, g, {n, c, g}, V, u)
  <2>1. V[g] = T[n]
    <3>1. n \in Node /\ g \in Node
      BY <1>0, <1>1 DEF Tree
    <3>2. V[g] = X[n]
      BY <1>8, <3>1 DEF Turned
    <3> QED BY <1>1, <1>4, <3>1, <3>2, Zenon DEF Turned
  <2>2. n \in T[n]
    BY <1>0, TwoSides
  <2>3. ASSUME NEW m \in L \ {n, c, g}
        PROVE  /\ V[m] = T[m]
               /\ \A r \in Side :
                     /\ t.child[m][r] \notin {n, c, g} \ {n}
                     /\ u.child[m][r] = IF t.child[m][r] = n THEN g ELSE t.child[m][r]
    <3>1. m \in Node
      BY <1>0 DEF Tree
    <3>2. V[m] = X[m] /\ X[m] = T[m]
      BY <1>4, <1>8, <3>1, Zenon DEF Turned
    <3>3. ASSUME NEW r \in Side PROVE t.child[m][r] # c /\ t.child[m][r] # g
      <4>1. PICK d : d = t.child[m][r]
        OBVIOUS
      <4>2. d # NULL => t.parent[d] = m
        BY <1>0, <4>1, ChildIs DEF Below
      <4> QED BY <1>1, <4>1, <4>2
    <3>5. \A r \in Side : v.child[m][r] = t.child[m][r]
      <4>1. m \in L \ {c, g}
        OBVIOUS
      <4>2. \A r \in Side :
               v.child[m][r] = IF t.child[m][r] = c THEN g ELSE t.child[m][r]
        BY <1>6, <4>1, Zenon
      <4> QED BY <3>3, <4>2
    <3>6. \A r \in Side : u.child[m][r] = IF v.child[m][r] = n THEN g ELSE v.child[m][r]
      <4>1. m \in L \ {n, g}
        OBVIOUS
      <4> QED BY <1>10, <4>1, Zenon
    <3> QED BY <3>2, <3>3, <3>5, <3>6, Zenon
  <2>4. u.parent[g] = t.parent[n]
    BY <1>7, <1>10, Zenon
  <2>5. \A m \in Node \ {n, c, g} : u.height[m] = t.height[m]
    BY <1>5, <1>9, ZenonT(30)
  <2>6. Shape(u, L, V, K) /\ {n, c, g} \subseteq T[n]
    BY <1>1, <1>9, <2>2, Zenon
  <2> QED BY <2>1, <2>3, <2>4, <2>5, <2>6, Zenon DEF Moved
<1> QED BY <1>14, <1>15

LEMMA RotateTwiceInShape ==
    ASSUME InShape, RotateTwice
    PROVE  InShape'
<1>1. PICK L, K, t, n : L = linked /\ K = key /\ t = tree /\ n = node
  OBVIOUS
<1>2. PICK T : Shape(t, L, T, K)
  BY <1>1 DEF InShape, ShapeOf
<1>3. n \in L /\ UNCHANGED <<key, linked, isDelete, answer>>
  BY <1>1 DEF InShape, RotateTwice
<1>4. PICK s \in Side :
         LET c == t.child[n][s]
         IN  /\ Lean(t, n, s) = 2 /\ Lean(t, c, s) = -1
             /\ GoUp(Rotate(Rotate(t, c, s), n, Opposite(s)), t.child[c][Opposite(s)])
  BY <1>1 DEF RotateTwice, TwiceOn
<1>5. PICK c, g : c = t.child[n][s] /\ g = t.child[c][Opposite(s)]
  BY Zenon
<1>6. PICK v : v = Rotate(t, c, s)
  OBVIOUS
<1>7. PICK u : u = Rotate(v, n, Opposite(s))
  OBVIOUS
<1>8. /\ Lean(t, n, s) = 2 /\ Lean(t, c, s) = -1 /\ GoUp(u, g)
  BY <1>4, <1>5, <1>6, <1>7
<1>9. c # NULL /\ g # NULL /\ c \in L
  <2>1. Tree(t, L, T) /\ TreeType(t) /\ L \subseteq Node
    BY <1>2 DEF Shape, Tree
  <2>2. c # NULL
    BY <1>3, <1>5, <1>8, <2>1, LeanUp
  <2>3. Below(t, L, T, n, c)
    BY <1>3, <1>5, <2>1, <2>2, ChildIs
  <2>4. c \in L /\ c \in Node
    BY <2>1, <2>3 DEF Below
  <2>5. g # NULL
    BY <1>5, <1>8, <2>1, <2>4, LeanUp
  <2> QED BY <2>2, <2>4, <2>5
<1>10. \E V : Moved(t, L, T, K, n, g, {n, c, g}, V, u)
  BY <1>2, <1>3, <1>5, <1>6, <1>7, <1>9, TwiceIs, Zenon
<1>11. ShapeOf(u, L, K) /\ g \in L
  <2>1. T[n] \subseteq L
    BY <1>2, <1>3, TwoSides DEF Shape
  <2> QED BY <1>10, <2>1 DEF Moved, ShapeOf
<1> QED BY <1>1, <1>3, <1>8, <1>11, WalkInShape

\* In every state the links of the linked nodes make a tree in the order of their keys.
THEOREM AlwaysInShape == Spec => []InShape
<1>1. ASSUME InShape, [Next]_vars
      PROVE  InShape'
  <2>1. ASSUME NEW n \in Node, NodeInsert(n)
        PROVE  InShape'
    BY <1>1, <2>1, InsertNewInShape, InsertExistingInShape DEF NodeInsert
  <2>2. ASSUME NEW n \in Node, NodeRemove(n)
        PROVE  InShape'
    BY <1>1, <2>2, RemoveLeafInShape, RemoveWithChildInShape, RemoveWithBothInShape
       DEF NodeRemove
  <2>3. CASE Rebalance
    BY <1>1, <2>3, RotateOnceInShape, RotateTwiceInShape, KeepShapeInShape DEF Rebalance
  <2>4. CASE Deinitialize
    BY <1>1, <2>4, DeinitializeInShape
  <2>5. CASE UNCHANGED vars
    BY <1>1, <2>5 DEF InShape, vars
  <2> QED BY <1>1, <2>1, <2>2, <2>3, <2>4, <2>5 DEF Next
<1> QED BY <1>1, InitInShape, PTL DEF Spec

\* The properties LinksAgree, SearchesExact and NeighboursExact, of any tree in shape.
LEMMA ShapeLinksAgree ==
    ASSUME InShape
    PROVE  LinksAgree
<1>1. PICK T : Tree(tree, linked, T)
  BY DEF InShape, ShapeOf, Shape
<1>2. tree.root # NULL => tree.root \in linked /\ tree.parent[tree.root] = NULL
  BY <1>1 DEF Tree
<1>3. ASSUME NEW n \in linked, NEW s \in Side, tree.child[n][s] # NULL
      PROVE  tree.child[n][s] \in linked /\ tree.parent[tree.child[n][s]] = n
  BY <1>1, <1>3, TwoSides
<1>4. ASSUME NEW n \in linked
      PROVE  tree.child[n] = NoChild \/ tree.child[n]["left"] # tree.child[n]["right"]
  <2>1. /\ "left" \in Side /\ Opposite("left") = "right"
        /\ Side = {"left", "right"}
    BY DEF Side, Opposite
  <2>2. tree.child[n]["left"] # NULL => tree.child[n]["left"] # tree.child[n]["right"]
    BY <1>1, <2>1, TwoSides
  <2>3. tree.child[n] \in [Side -> Link]
    BY <1>1 DEF Tree, TreeType
  <2>4. CASE tree.child[n]["left"] = NULL /\ tree.child[n]["right"] = NULL
    BY <2>1, <2>3, <2>4 DEF NoChild
  <2> QED BY <2>2, <2>4
<1>5. ASSUME NEW n \in linked, n # tree.root
      PROVE  tree.parent[n] \in linked /\ n \in Range(tree.child[tree.parent[n]])
  <2>1. PICK s \in Side : tree.parent[n] \in linked /\ tree.child[tree.parent[n]][s] = n
    BY <1>1, <1>5 DEF Tree
  <2>2. tree.child[tree.parent[n]] \in [Side -> Link]
    BY <1>1, <2>1 DEF Tree, TreeType
  <2> QED BY <2>1, <2>2 DEF Range
<1>6. ASSUME NEW n \in linked
      PROVE  Last(Climb(n)) = tree.root
  BY <1>1, ClimbIs DEF Climb, Last
<1> QED BY <1>2, <1>3, <1>4, <1>5, <1>6 DEF LinksAgree

\* A linked node whose key is the nearest to one side is NodeOfLeast or NodeOfGreatest.
LEMMA NearestIs ==
    ASSUME InShape, NEW s \in Side, NEW keys, NEW e,
           \/ e = NULL /\ \A m \in linked : key[m] \notin keys
           \/ /\ e \in linked /\ key[e] \in keys
              /\ \A m \in linked : key[m] \in keys => m = e \/ Before(s, key[m], key[e])
    PROVE  /\ s = "right" => e = NodeOfLeast(keys)
           /\ s = "left" => e = NodeOfGreatest(keys)
<1>0. /\ \A m \in linked : key[m] \in Nat
      /\ \A m \in linked, n \in linked : key[m] = key[n] => m = n
  <2>1. PICK T : Tree(tree, linked, T) /\ Ordered(tree, linked, T, key)
    BY DEF InShape, ShapeOf, Shape
  <2>2. \A m \in linked, n \in linked : key[m] = key[n] => m = n
    BY <2>1, OwnKeys
  <2> QED BY <2>1, <2>2 DEF Ordered
<1>1. CASE e = NULL /\ \A m \in linked : key[m] \notin keys
  BY <1>1 DEF NodeOfLeast, NodeOfGreatest, WithKeyIn
<1>2. CASE e \in linked /\ key[e] \in keys
  <2> DEFINE ns == WithKeyIn(keys)
  <2>1. e \in ns /\ ns \subseteq linked /\ ns # {}
    BY <1>2 DEF WithKeyIn
  <2>2. ASSUME s = "right"
        PROVE  e = NodeOfLeast(keys)
    <3>1. \A m \in ns : key[e] <= key[m]
      BY <1>0, <1>2, <2>1, <2>2, NodeAssumption DEF WithKeyIn, Before, InShape
    <3>2. \A a \in ns : (\A m \in ns : key[a] <= key[m]) => a = e
      BY <1>0, <2>1, <3>1
    <3>3. (CHOOSE n \in ns : \A m \in ns : key[n] <= key[m]) = e
      BY <2>1, <3>1, <3>2
    <3> QED BY <2>1, <3>3 DEF NodeOfLeast
  <2>3. ASSUME s = "left"
        PROVE  e = NodeOfGreatest(keys)
    <3>1. \A m \in ns : key[m] <= key[e]
      BY <1>0, <1>2, <2>1, <2>3, NodeAssumption DEF WithKeyIn, Before, InShape
    <3>2. \A a \in ns : (\A m \in ns : key[m] <= key[a]) => a = e
      BY <1>0, <2>1, <3>1
    <3>3. (CHOOSE n \in ns : \A m \in ns : key[m] <= key[n]) = e
      BY <2>1, <3>1, <3>2
    <3> QED BY <2>1, <3>3 DEF NodeOfGreatest
  <2> QED BY <2>2, <2>3
<1> QED BY <1>1, <1>2

\* The ordered searches, in any state.
LEMMA OrderedSearchIs ==
    ASSUME InShape, NEW k \in Key, NEW s \in Side, NEW keys,
           \A j \in Key : j \in keys <=> j = k \/ Before(s, j, k)
    PROVE  /\ s = "right" => LastOnWay(k, keys) = NodeOfLeast(keys)
           /\ s = "left" => LastOnWay(k, keys) = NodeOfGreatest(keys)
<1>1. PICK t, L, K : t = tree /\ L = linked /\ K = key
  OBVIOUS
<1>2. PICK T : Shape(t, L, T, K)
  BY <1>1 DEF InShape, ShapeOf
<1>3. PICK e : e = SearchIn(t, K, k, keys)
  OBVIOUS
<1>4. LastOnWay(k, keys) = e
  BY <1>1, <1>3, SearchIs
<1>5. \/ e = NULL /\ \A m \in L : K[m] \notin keys
      \/ /\ e \in L /\ K[e] \in keys
         /\ \A m \in L : K[m] \in keys => m = e \/ Before(s, K[m], K[e])
  <2>1. CASE L = {}
    BY <1>2, <1>3, <2>1, SearchEmpty
  <2>2. CASE L # {}
    <3>1. k \in Nat
      BY KeyAssumption
    <3>2. Tree(t, L, T) /\ Ordered(t, L, T, K)
      BY <1>2 DEF Shape
    <3>3. PICK w : w = WayIn(t, K, k)
      OBVIOUS
    <3>4. Searched(t, L, T, K, k, w)
      BY <2>2, <3>1, <3>2, <3>3, WayIs
    <3>5. \A m \in L : K[m] \in keys <=> K[m] = k \/ Before(s, K[m], k)
      BY <1>1 DEF InShape
    <3>6. e = LastIn(K, w, keys)
      BY <1>3, <3>3 DEF SearchIn
    <3> QED BY <3>1, <3>2, <3>4, <3>5, <3>6, NearestFound
  <2> QED BY <2>1, <2>2
<1> QED BY <1>1, <1>4, <1>5, NearestIs

LEMMA ShapeSearchesExact ==
    ASSUME InShape
    PROVE  SearchesExact
<1> SUFFICES ASSUME NEW k \in Key
             PROVE  /\ NodeFindGEQ(k) = NodeOfLeast({j \in Key : k <= j})
                    /\ NodeFindLEQ(k) = NodeOfGreatest({j \in Key : j <= k})
  BY DEF SearchesExact
<1>0. "left" \in Side /\ "right" \in Side /\ k \in Nat /\ Key \subseteq Nat
  BY KeyAssumption DEF Side
<1>1. LastOnWay(k, {j \in Key : k <= j}) = NodeOfLeast({j \in Key : k <= j})
  <2>1. PICK keys : keys = {j \in Key : k <= j}
    BY Zenon
  <2>2. \A j \in Key : j \in keys <=> j = k \/ Before("right", j, k)
    BY <1>0, <2>1 DEF Before
  <2> QED BY <1>0, <2>1, <2>2, OrderedSearchIs
<1>2. LastOnWay(k, {j \in Key : j <= k}) = NodeOfGreatest({j \in Key : j <= k})
  <2>1. PICK keys : keys = {j \in Key : j <= k}
    BY Zenon
  <2>2. \A j \in Key : j \in keys <=> j = k \/ Before("left", j, k)
    BY <1>0, <2>1 DEF Before
  <2> QED BY <1>0, <2>1, <2>2, OrderedSearchIs
<1> QED BY <1>1, <1>2 DEF NodeFindGEQ, NodeFindLEQ

LEMMA MinIs ==
    ASSUME NEW l \in Nat, NEW S \in SUBSET (1..l), S # {}
    PROVE  Min(S) \in S /\ \A j \in S : Min(S) <= j
<1>1. \E i \in S : \A j \in S : i <= j
  BY LeastOfNaturals
<1> QED BY <1>1, Zenon DEF Min

\* The side of a node is that of the child link that leads to it.
LEMMA SideOfIs ==
    ASSUME NEW t, NEW L, NEW T, Tree(t, L, T), NEW n \in L, n # t.root
    PROVE  /\ SideOf(t, n) \in Side
           /\ t.parent[n] \in L /\ t.child[t.parent[n]][SideOf(t, n)] = n
           /\ \A s \in Side : t.child[t.parent[n]][s] = n => s = SideOf(t, n)
<1>1. PICK p \in L, s \in Side : p = t.parent[n] /\ t.child[p][s] = n
  BY DEF Tree
<1>2. n # NULL
  BY NodeAssumption DEF Tree
<1>3. t.child[p][Opposite(s)] # n
  BY <1>1, <1>2, TwoSides
<1> QED BY <1>1, <1>3 DEF SideOf, Side, Opposite

\* Of two nodes the keys are on one side of each other.
LEMMA NotBoth ==
    ASSUME NEW s \in Side, NEW a \in Nat, NEW b \in Nat, Before(s, a, b)
    PROVE  ~Before(s, b, a) /\ ~Before(Opposite(s), a, b) /\ Before(Opposite(s), b, a) /\ a # b
  BY DEF Before, Side, Opposite

\* w climbs from n to the root.
Climbed(t, L, T, n, w) ==
    /\ w \in Seq(L) /\ Len(w) >= 1 /\ w[1] = n /\ w[Len(w)] = t.root
    /\ \A i \in 1..(Len(w) - 1) : w[i + 1] = t.parent[w[i]]
    /\ \A i \in 1..Len(w) : w[i] \in L /\ n \in T[w[i]]

LEMMA ClimbedIs ==
    ASSUME NEW t, NEW L, NEW T, Tree(t, L, T), NEW n \in L, NEW w, w = Path(t.parent, n)
    PROVE  Climbed(t, L, T, n, w)
<1>1. /\ Walked(t.parent, L, n, w) /\ w[Len(w)] = t.root
      /\ {w[i] : i \in 1..Len(w)} = {m \in L : n \in T[m]}
  BY ClimbIs
<1> QED BY <1>1, Zenon DEF Walked, Climbed

\* The climb from a node without a child on side s comes from the other side to a node
\* that has a given key on side s of it in its tree.
LEMMA TurnedAt ==
    ASSUME NEW t, NEW L, NEW T, NEW K, Tree(t, L, T), Ordered(t, L, T, K),
           NEW n \in L, NEW s \in Side, t.child[n][s] = NULL,
           NEW w, Climbed(t, L, T, n, w), NEW m \in L, Before(s, K[m], K[n])
    PROVE  \E i \in 1..(Len(w) - 1) :
              /\ w[i] # t.root /\ SideOf(t, w[i]) # s
              /\ \A j \in 1..i : m \notin T[w[j]]
<1>0. /\ K[m] \in Nat /\ K[n] \in Nat /\ L \subseteq Node /\ NULL \notin L
      /\ t.root \in L /\ T[t.root] = L /\ t.parent[t.root] = NULL
  BY NodeAssumption DEF Ordered, Tree
<1>1. PICK l \in Nat : l = Len(w) /\ l >= 1
  BY DEF Climbed
<1>2. /\ w[1] = n /\ w[l] = t.root
      /\ \A i \in 1..(l - 1) : w[i + 1] = t.parent[w[i]]
      /\ \A i \in 1..l : w[i] \in L /\ n \in T[w[i]]
  BY <1>1 DEF Climbed
<1> DEFINE S == {i \in 1..l : m \in T[w[i]]}
<1>3. PICK j \in S : \A i \in S : j <= i
  <2>1. l \in S /\ S \subseteq Nat
    BY <1>0, <1>1, <1>2
  <2> HIDE DEF S
  <2> QED BY <2>1, LeastOfNaturals
<1>4. j \in 1..l /\ m \in T[w[j]] /\ \A i \in 1..(j - 1) : m \notin T[w[i]]
  BY <1>1, <1>3
<1>5. j # 1
  <2> SUFFICES ASSUME j = 1 PROVE FALSE
    OBVIOUS
  <2>1. m \in T[n] /\ m # n
    BY <1>0, <1>2, <1>4, NotBoth
  <2>2. PICK r \in Side : m \in Under(t, T, n, r) /\ t.child[n][r] # NULL
    BY <2>1, OnASide
  <2>3. r = Opposite(s)
    BY <2>2, Sides
  <2>4. Before(r, K[m], K[n])
    BY <2>2 DEF Ordered
  <2> QED BY <1>0, <2>3, <2>4, NotBoth
<1>6. PICK i \in 1..(l - 1) : i + 1 = j
  <2>1. j - 1 \in 1..(l - 1) /\ (j - 1) + 1 = j
    BY <1>1, <1>4, <1>5
  <2> QED BY <2>1
<1>7. PICK y, p : y = w[i] /\ p = w[j]
  OBVIOUS
<1>8. /\ y \in L /\ p \in L /\ p = t.parent[y] /\ n \in T[y] /\ m \notin T[y] /\ m \in T[p]
      /\ y # t.root
  <2>1. i \in 1..l /\ i \in 1..(j - 1) /\ j \in 1..l
    BY <1>1, <1>4, <1>6
  <2> QED BY <1>0, <1>2, <1>4, <1>6, <1>7, <2>1
<1>9. SideOf(t, y) # s
  <2> SUFFICES ASSUME SideOf(t, y) = s PROVE FALSE
    OBVIOUS
  <2>1. t.child[p][s] = y
    BY <1>8, SideOfIs
  <2>2. y # NULL
    BY <1>0, <1>8
  <2>3. Under(t, T, p, s) = T[y]
    BY <2>1, <2>2 DEF Under
  <2>4. Before(s, K[n], K[p]) /\ K[p] \in Nat
    BY <1>8, <2>3 DEF Ordered
  <2>5. CASE m = p
    BY <1>0, <2>4, <2>5, NotBoth
  <2>6. CASE m # p
    <3>1. PICK r \in Side : m \in Under(t, T, p, r)
      BY <1>8, <2>6, OnASide
    <3>2. r = Opposite(s)
      BY <1>8, <2>3, <3>1, Sides
    <3>3. Before(r, K[m], K[p])
      BY <1>8, <3>1 DEF Ordered
    <3>4. Before(s, K[p], K[m])
      BY <1>0, <2>4, <3>2, <3>3, Befores
    <3>5. Before(s, K[n], K[m])
      BY <1>0, <2>4, <3>4, Befores
    <3> QED BY <1>0, <3>5, NotBoth
  <2> QED BY <2>5, <2>6
<1>10. \A x \in 1..i : m \notin T[w[x]]
  BY <1>1, <1>4, <1>6
<1> QED BY <1>1, <1>7, <1>8, <1>9, <1>10

\* e has the nearest key on side s of that of n.
IsNeighbour(L, K, n, s, e) ==
    \/ e = NULL /\ \A m \in L : ~Before(s, K[m], K[n])
    \/ /\ e \in L /\ Before(s, K[e], K[n])
       /\ \A m \in L : Before(s, K[m], K[n]) => m = e \/ Before(s, K[m], K[e])

\* With a child on side s the neighbour is in its tree.
LEMMA NeighbourBelow ==
    ASSUME NEW t, NEW L, NEW T, NEW K, Tree(t, L, T), Ordered(t, L, T, K),
           NEW n \in L, NEW s \in Side, t.child[n][s] # NULL,
           NEW e, e = Outermost(t, t.child[n][s], Opposite(s))
    PROVE  IsNeighbour(L, K, n, s, e)
<1>1. PICK c : c = t.child[n][s]
  OBVIOUS
<1>2. c \in L /\ Under(t, T, n, s) = T[c] /\ T[c] \subseteq T[n] /\ c # NULL
  <2>1. Below(t, L, T, n, c)
    BY <1>1, ChildIs
  <2> QED BY <1>1, <2>1 DEF Below, Under
<1>3. PICK o : o = Opposite(s) /\ o \in Side
  BY Sides
<1>4. /\ e \in T[c] /\ e \in L
      /\ \A m \in T[c] : m # e => Before(o, K[e], K[m])
  BY <1>1, <1>2, <1>3, OutermostIs
<1>5. Before(s, K[e], K[n])
  BY <1>2, <1>4 DEF Ordered
<1>6. ASSUME NEW m \in L, Before(s, K[m], K[n]), m # e
      PROVE  Before(s, K[m], K[e])
  <2>0. K[m] \in Nat /\ K[n] \in Nat /\ K[e] \in Nat
    BY <1>4 DEF Ordered
  <2>1. CASE m \in T[c]
    <3>1. Before(o, K[e], K[m])
      BY <1>4, <1>6, <2>1
    <3> QED BY <1>3, <2>0, <3>1, Befores
  <2>2. CASE m \in T[n] /\ m \notin T[c]
    <3>1. m # n
      BY <1>6, <2>0, NotBoth
    <3>2. PICK r \in Side : m \in Under(t, T, n, r)
      BY <2>2, <3>1, OnASide
    <3>3. r = o
      BY <1>2, <1>3, <2>2, <3>2, Sides
    <3>4. Before(o, K[m], K[n])
      BY <3>2, <3>3 DEF Ordered
    <3> QED BY <1>3, <1>6, <2>0, <3>4, NotBoth
  <2>3. CASE m \notin T[n]
    <3>1. PICK r \in Side : \A j \in T[n] : Before(r, K[m], K[j])
      BY <2>3, Apart
    <3>2. n \in T[n] /\ e \in T[n]
      BY <1>2, <1>4, TwoSides
    <3>3. r = s
      <4>1. Before(r, K[m], K[n])
        BY <3>1, <3>2
      <4>2. r = s \/ r = Opposite(s)
        BY Sides
      <4> QED BY <1>6, <2>0, <4>1, <4>2, NotBoth
    <3> QED BY <3>1, <3>2, <3>3
  <2> QED BY <2>1, <2>2, <2>3
<1> QED BY <1>4, <1>5, <1>6 DEF IsNeighbour

\* Without one it is where the climb first comes from the other side.
LEMMA NeighbourAbove ==
    ASSUME NEW t, NEW L, NEW T, NEW K, Tree(t, L, T), Ordered(t, L, T, K),
           NEW n \in L, NEW s \in Side, t.child[n][s] = NULL,
           NEW w, Climbed(t, L, T, n, w),
           NEW turned, turned = {i \in 1..Len(w) : w[i] # t.root /\ SideOf(t, w[i]) # s},
           NEW e, e = IF turned = {} THEN NULL ELSE t.parent[w[Min(turned)]]
    PROVE  IsNeighbour(L, K, n, s, e)
<1>0. \A m \in L : K[m] \in Nat
  BY DEF Ordered
<1>1. PICK l \in Nat : l = Len(w) /\ \A i \in 1..l : w[i] \in L /\ n \in T[w[i]]
  BY DEF Climbed
<1>2. CASE turned = {}
  <2>1. ASSUME NEW m \in L, Before(s, K[m], K[n])
        PROVE  FALSE
    <3>1. PICK i \in 1..(Len(w) - 1) : w[i] # t.root /\ SideOf(t, w[i]) # s
      BY <2>1, TurnedAt
    <3>2. i \in turned
      BY <1>1, <3>1
    <3> QED BY <1>2, <3>2
  <2> QED BY <1>2, <2>1 DEF IsNeighbour
<1>3. CASE turned # {}
  <2>1. PICK x : x = Min(turned)
    BY Zenon
  <2>2. x \in turned /\ \A i \in turned : x <= i
    <3>1. turned \in SUBSET (1..l)
      BY <1>1
    <3> QED BY <1>3, <2>1, <3>1, MinIs, Zenon
  <2>3. PICK y : y = w[x]
    OBVIOUS
  <2>4. y \in L /\ n \in T[y] /\ y # t.root /\ SideOf(t, y) # s /\ x \in 1..l
    BY <1>1, <2>2, <2>3
  <2>5. e = t.parent[y]
    BY <1>3, <2>1, <2>3
  <2>6. PICK o : o = Opposite(s) /\ o \in Side
    BY Sides
  <2>7. e \in L /\ t.child[e][o] = y
    <3>1. Tree(t, L, T) /\ y \in L /\ y # t.root
      BY <2>4
    <3>2. SideOf(t, y) \in Side /\ t.parent[y] \in L /\ t.child[t.parent[y]][SideOf(t, y)] = y
      BY ONLY <3>1, SideOfIs
    <3>3. SideOf(t, y) = o
      BY <2>4, <2>6, <3>2, Sides
    <3> QED BY <2>5, <3>2, <3>3, Zenon
  <2>8. T[y] = Under(t, T, e, o)
    <3>1. y # NULL
      BY <2>4, NodeAssumption DEF Tree
    <3> QED BY <2>7, <3>1 DEF Under
  <2>9. Before(o, K[n], K[e])
    BY <2>4, <2>6, <2>7, <2>8 DEF Ordered
  <2>10. Before(s, K[e], K[n])
    BY <1>0, <2>6, <2>7, <2>9, Befores, Zenon
  <2>11. ASSUME NEW m \in L, Before(s, K[m], K[n]), m # e
         PROVE  Before(s, K[m], K[e])
    <3>1. m \notin T[y]
      <4>1. PICK i \in 1..(Len(w) - 1) : /\ w[i] # t.root /\ SideOf(t, w[i]) # s
                                         /\ \A j \in 1..i : m \notin T[w[j]]
        BY <2>11, TurnedAt
      <4>2. i \in turned
        BY <1>1, <4>1
      <4>3. x \in 1..i
        BY <1>1, <2>2, <2>4, <4>2
      <4> QED BY <2>3, <4>1, <4>3
    <3>2. CASE m \in T[e]
      <4>0. e \in L /\ m \in T[e] /\ m # e /\ Tree(t, L, T)
        BY <2>7, <2>11, <3>2
      <4>1. PICK r \in Side : m \in Under(t, T, e, r)
        BY ONLY <4>0, OnASide
      <4>2. r = s
        BY <2>6, <2>8, <3>1, <4>1, Sides
      <4> QED BY <2>7, <4>1, <4>2 DEF Ordered
    <3>3. CASE m \notin T[e]
      <4>1. PICK r \in Side : \A j \in T[e] : Before(r, K[m], K[j])
        BY <2>7, <3>3, Apart, Zenon
      <4>2. e \in T[e] /\ n \in T[e]
        <5>1. Below(t, L, T, e, y)
          <6>1. y # NULL
            BY <2>4, NodeAssumption DEF Tree
          <6> QED BY <2>6, <2>7, <6>1, ChildIs
        <5>2. e \in T[e]
          <6>1. Tree(t, L, T) /\ e \in L /\ s \in Side
            BY <2>7
          <6> QED BY ONLY <6>1, TwoSides
        <5> QED BY <2>4, <5>1, <5>2, Zenon DEF Below
      <4>3. r = s
        <5>1. Before(r, K[m], K[n])
          BY <4>1, <4>2, Zenon
        <5>2. r = s \/ r = Opposite(s)
          BY Sides
        <5> QED BY <1>0, <2>11, <5>1, <5>2, NotBoth
      <4> QED BY <4>1, <4>2, <4>3, Zenon
    <3> QED BY <3>2, <3>3
  <2> QED BY <2>7, <2>10, <2>11, Zenon DEF IsNeighbour
<1> QED BY <1>2, <1>3

LEMMA NeighbourIs ==
    ASSUME InShape, NEW n \in linked, NEW s \in Side
    PROVE  IsNeighbour(linked, key, n, s, Neighbour(n, s))
<1>1. PICK t, L, K, e : t = tree /\ L = linked /\ K = key /\ e = Neighbour(n, s)
  OBVIOUS
<1>2. PICK T : Tree(t, L, T) /\ Ordered(t, L, T, K)
  BY <1>1 DEF InShape, ShapeOf, Shape
<1>3. n \in L
  BY <1>1
<1>4. CASE t.child[n][s] # NULL
  <2>1. e = Outermost(t, t.child[n][s], Opposite(s))
    BY <1>1, <1>4 DEF Neighbour
  <2>2. IsNeighbour(L, K, n, s, e)
    BY <1>2, <1>3, <1>4, <2>1, NeighbourBelow
  <2> QED BY <1>1, <2>2
<1>5. CASE t.child[n][s] = NULL
  <2>1. PICK w : w = Path(t.parent, n)
    OBVIOUS
  <2>2. Climbed(t, L, T, n, w)
    BY <1>2, <1>3, <2>1, ClimbedIs
  <2>3. PICK turned : turned = {i \in 1..Len(w) : w[i] # t.root /\ SideOf(t, w[i]) # s}
    BY Zenon
  <2>4. DOMAIN w = 1..Len(w)
    BY <2>2 DEF Climbed
  <2>5. e = IF turned = {} THEN NULL ELSE t.parent[w[Min(turned)]]
    BY <1>1, <1>5, <2>1, <2>3, <2>4 DEF Neighbour, Climb
  <2>6. IsNeighbour(L, K, n, s, e)
    BY <1>2, <1>3, <1>5, <2>2, <2>3, <2>5, NeighbourAbove
  <2> QED BY <1>1, <2>6
<1> QED BY <1>4, <1>5

LEMMA ShapeNeighboursExact ==
    ASSUME InShape
    PROVE  NeighboursExact
<1> SUFFICES ASSUME NEW n \in linked
             PROVE  /\ Neighbour(n, "left") = NodeOfGreatest({j \in Key : j < key[n]})
                    /\ Neighbour(n, "right") = NodeOfLeast({j \in Key : key[n] < j})
  BY DEF NeighboursExact
<1>0. "left" \in Side /\ "right" \in Side /\ \A m \in linked : key[m] \in Key
  BY DEF Side, InShape
<1>1. Neighbour(n, "left") = NodeOfGreatest({j \in Key : j < key[n]})
  <2>1. PICK keys, e : keys = {j \in Key : j < key[n]} /\ e = Neighbour(n, "left")
    BY Zenon
  <2>2. IsNeighbour(linked, key, n, "left", e)
    BY <1>0, <2>1, NeighbourIs
  <2>3. \A m \in linked : key[m] \in keys <=> Before("left", key[m], key[n])
    BY <1>0, <2>1 DEF Before
  <2>4. \/ e = NULL /\ \A m \in linked : key[m] \notin keys
        \/ /\ e \in linked /\ key[e] \in keys
           /\ \A m \in linked : key[m] \in keys => m = e \/ Before("left", key[m], key[e])
    BY <2>2, <2>3 DEF IsNeighbour
  <2> QED BY <1>0, <2>1, <2>4, NearestIs, Zenon
<1>2. Neighbour(n, "right") = NodeOfLeast({j \in Key : key[n] < j})
  <2>1. PICK keys, e : keys = {j \in Key : key[n] < j} /\ e = Neighbour(n, "right")
    BY Zenon
  <2>2. IsNeighbour(linked, key, n, "right", e)
    BY <1>0, <2>1, NeighbourIs
  <2>3. \A m \in linked : key[m] \in keys <=> Before("right", key[m], key[n])
    BY <1>0, <2>1 DEF Before
  <2>4. \/ e = NULL /\ \A m \in linked : key[m] \notin keys
        \/ /\ e \in linked /\ key[e] \in keys
           /\ \A m \in linked : key[m] \in keys => m = e \/ Before("right", key[m], key[e])
    BY <2>2, <2>3 DEF IsNeighbour
  <2> QED BY <1>0, <2>1, <2>4, NearestIs, Zenon
<1> QED BY <1>1, <1>2

\* In every state, in the middle of a walk too, parents and children agree, and the nodes
\* under the root are those the caller has put in and not taken out.
THEOREM LinksAlwaysAgree == Spec => []LinksAgree
  BY AlwaysInShape, ShapeLinksAgree, PTL

\* cuAvlTreeNodeFindGEQ and -LEQ find the nearest key on their side.
THEOREM SearchesAlwaysExact == Spec => []SearchesExact
  BY AlwaysInShape, ShapeSearchesExact, PTL

\* The in-order predecessor and successor of a node have the keys next to its own.
THEOREM NeighboursAlwaysExact == Spec => []NeighboursExact
  BY AlwaysInShape, ShapeNeighboursExact, PTL

-----------------------------------------------------------------------------
(* The tree is a map.                                                       *)

\* d is the map from keys to the nodes L that have them.
IsDict(d, L, K) ==
    /\ d = [k \in Key |-> d[k]]
    /\ L \subseteq Node /\ \A m \in L : K[m] \in Key
    /\ \A m \in L, n \in L : K[m] = K[n] => m = n
    /\ \A k \in Key : \/ d[k] = NULL /\ \A m \in L : K[m] # k
                      \/ d[k] \in L /\ K[d[k]] = k

LEMMA DictIs == InShape => IsDict(Dict, linked, key)
<1> SUFFICES ASSUME InShape PROVE IsDict(Dict, linked, key)
  OBVIOUS
<1>1. PICK T : Tree(tree, linked, T) /\ Ordered(tree, linked, T, key)
  BY DEF InShape, ShapeOf, Shape
<1>2. \A m \in linked, n \in linked : key[m] = key[n] => m = n
  BY <1>1, OwnKeys
<1>3. \A k \in Key : \/ NodeFind(k) = NULL /\ \A m \in linked : key[m] # k
                     \/ NodeFind(k) \in linked /\ key[NodeFind(k)] = k
  BY NodeFindIs
<1>4. Dict = [k \in Key |-> NodeFind(k)]
  BY DEF Dict
<1>5. Dict = [k \in Key |-> Dict[k]] /\ \A k \in Key : Dict[k] = NodeFind(k)
  BY <1>4
<1> QED BY <1>2, <1>3, <1>5 DEF IsDict, InShape

\* The same nodes under the same keys are the same map.
LEMMA SameDict ==
    ASSUME NEW d, NEW e, NEW L, NEW K, NEW J, IsDict(d, L, K), IsDict(e, L, J),
           \A m \in L : J[m] = K[m]
    PROVE  e = d
<1>1. ASSUME NEW k \in Key
      PROVE  e[k] = d[k]
  <2>1. \/ d[k] = NULL /\ \A m \in L : K[m] # k
        \/ d[k] \in L /\ K[d[k]] = k
    BY DEF IsDict
  <2>2. \/ e[k] = NULL /\ \A m \in L : J[m] # k
        \/ e[k] \in L /\ J[e[k]] = k
    BY DEF IsDict
  <2>3. \A m \in L, n \in L : K[m] = K[n] => m = n
    BY DEF IsDict
  <2> QED BY <2>1, <2>2, <2>3
<1>2. d = [k \in Key |-> d[k]] /\ e = [k \in Key |-> e[k]]
  BY DEF IsDict
<1> QED BY <1>1, <1>2

\* n goes in under the key k, which is free.
GoesIn(d, e, n, k) ==
    /\ e[k] = n /\ \A j \in Key : d[j] # n
    /\ \A j \in Key \ {k} : e[j] = d[j]

LEMMA DictWith ==
    ASSUME NEW d, NEW e, NEW L, NEW K, NEW J, NEW n, NEW k \in Key, NewKey(L, K, n, k, J),
           IsDict(d, L, K), IsDict(e, L \union {n}, J)
    PROVE  GoesIn(d, e, n, k)
<1>0. n \in Node /\ n \notin L /\ J[n] = k /\ \A m \in L : J[m] = K[m]
  BY DEF NewKey
<1>1. /\ \A j \in Key : \/ d[j] = NULL /\ \A m \in L : K[m] # j
                        \/ d[j] \in L /\ K[d[j]] = j
      /\ \A j \in Key : \/ e[j] = NULL /\ \A m \in L \union {n} : J[m] # j
                        \/ e[j] \in L \union {n} /\ J[e[j]] = j
      /\ \A a \in L \union {n}, b \in L \union {n} : J[a] = J[b] => a = b
  BY DEF IsDict
<1>2. e[k] = n
  BY <1>0, <1>1
<1>3. \A j \in Key : d[j] # n
  BY <1>0, <1>1, NodeAssumption
<1>4. ASSUME NEW j \in Key, j # k
      PROVE  e[j] = d[j]
  <2>1. CASE d[j] = NULL /\ \A m \in L : K[m] # j
    BY <1>0, <1>1, <1>4, <2>1
  <2>2. CASE d[j] \in L /\ K[d[j]] = j
    <3>1. J[d[j]] = j
      BY <1>0, <2>2
    <3> QED BY <1>1, <2>2, <3>1
  <2> QED BY <1>1, <2>1, <2>2
<1> QED BY <1>2, <1>3, <1>4 DEF GoesIn

\* n goes out.
LEMMA DictWithout ==
    ASSUME NEW d, NEW e, NEW L, NEW K, NEW n \in L, NEW k, k = K[n],
           IsDict(d, L, K), IsDict(e, L \ {n}, K)
    PROVE  /\ k \in Key /\ d[k] # NULL /\ e[k] = NULL
           /\ \A j \in Key \ {k} : e[j] = d[j]
<1>1. /\ \A j \in Key : \/ d[j] = NULL /\ \A m \in L : K[m] # j
                        \/ d[j] \in L /\ K[d[j]] = j
      /\ \A j \in Key : \/ e[j] = NULL /\ \A m \in L \ {n} : K[m] # j
                        \/ e[j] \in L \ {n} /\ K[e[j]] = j
      /\ \A a \in L, b \in L : K[a] = K[b] => a = b
      /\ k \in Key /\ NULL \notin L
  BY NodeAssumption DEF IsDict
<1>2. d[k] # NULL /\ e[k] = NULL
  BY <1>1
<1>3. ASSUME NEW j \in Key, j # k
      PROVE  e[j] = d[j]
  BY <1>1, <1>3
<1> QED BY <1>1, <1>2, <1>3

\* Every node that goes in or out does so in one step of the map, and no rotation
\* changes it.
LEMMA StepImplementsMap ==
    ASSUME IsDict(Dict, linked, key), IsDict(Dict, linked, key)', InShape, [Next]_vars
    PROVE  [Map!Next]_Map!vars
<1>0. PICK d, L, K : d = Dict /\ L = linked /\ K = key
  OBVIOUS
<1>1. PICK e, J : e = Dict' /\ J = key'
  OBVIOUS
<1>2. IsDict(d, L, K) /\ IsDict(e, linked', J)
  BY <1>0, <1>1
<1>3. ASSUME NEW n \in Node, NEW k \in Key, InsertNew(n, k)
      PROVE  Map!Insert(k)
  <2>1. /\ n \notin L /\ linked' = L \union {n} /\ J = [K EXCEPT ![n] = k] /\ NodeFind(k) = NULL
        /\ answer' = NULL
    BY <1>0, <1>1, <1>3 DEF InsertNew, BeginInsert
  <2>2. J[n] = k /\ \A m \in L : J[m] = K[m]
    BY <1>0, <2>1 DEF InShape
  <2>3. d[k] = NULL
    BY <1>0, <2>1 DEF Dict
  <2>4. IsDict(d, L, K) /\ IsDict(e, L \union {n}, J)
    BY <1>2, <2>1
  <2>5. \A m \in L : K[m] # k
    BY <1>0, <2>3, <2>4, NodeAssumption DEF IsDict
  <2>6. NewKey(L, K, n, k, J)
    BY <2>1, <2>2, <2>5, KeyAssumption DEF NewKey
  <2>7. GoesIn(d, e, n, k)
    BY <2>4, <2>6, DictWith
  <2> QED BY <1>0, <1>1, <2>1, <2>3, <2>7 DEF Map!Insert, GoesIn
<1>4. ASSUME NEW n \in Node, NEW k \in Key, InsertExisting(n, k)
      PROVE  Map!InsertExisting(k)
  <2>1. /\ n \notin L /\ linked' = L /\ J = [K EXCEPT ![n] = k] /\ NodeFind(k) # NULL
        /\ answer' = NodeFind(k)
    BY <1>0, <1>1, <1>4 DEF InsertExisting, BeginInsert
  <2>2. \A m \in L : J[m] = K[m]
    BY <1>0, <2>1 DEF InShape
  <2>3. d[k] = NodeFind(k)
    BY <1>0 DEF Dict
  <2>4. IsDict(d, L, K) /\ IsDict(e, L, J)
    BY <1>2, <2>1
  <2>5. e = d
    BY <2>2, <2>4, SameDict
  <2> QED BY <1>0, <1>1, <2>1, <2>3, <2>5 DEF Map!InsertExisting
<1>5. ASSUME NEW n \in Node, NodeRemove(n)
      PROVE  \E k \in Key : Map!Remove(k)
  <2>1. n \in L /\ linked' = L \ {n} /\ J = K /\ answer' = NULL
    BY <1>0, <1>1, <1>5, Zenon DEF NodeRemove, RemoveLeaf, RemoveWithChild, RemoveWithBoth, Removed
  <2>2. PICK k : k = K[n]
    OBVIOUS
  <2>3. IsDict(d, L, K) /\ IsDict(e, L \ {n}, K)
    BY <1>2, <2>1
  <2>4. /\ k \in Key /\ d[k] # NULL /\ e[k] = NULL
        /\ \A j \in Key \ {k} : e[j] = d[j]
    BY <2>1, <2>2, <2>3, DictWithout
  <2> QED BY <1>0, <1>1, <2>1, <2>4 DEF Map!Remove
<1>6. ASSUME Rebalance \/ UNCHANGED vars
      PROVE  UNCHANGED Map!vars
  <2>1. linked' = L /\ J = K /\ answer' = answer
    BY <1>0, <1>1, <1>6 DEF Rebalance, RotateOnce, RotateTwice, KeepShape, vars
  <2>2. IsDict(d, L, K) /\ IsDict(e, L, J) /\ \A m \in L : J[m] = K[m]
    BY <1>2, <2>1
  <2>3. e = d
    BY <2>2, SameDict
  <2> QED BY <1>0, <1>1, <2>1, <2>3 DEF Map!vars
<1>7. ASSUME Deinitialize
      PROVE  Map!Clear
  <2>1. linked' = {} /\ answer' = NULL
    BY <1>7 DEF Deinitialize
  <2>2. \A k \in Key : e[k] = NULL
    BY <1>2, <2>1 DEF IsDict
  <2> QED BY <1>1, <2>1, <2>2 DEF Map!Clear
<1>8. CASE \E n \in Node : NodeInsert(n) \/ NodeRemove(n)
  BY <1>3, <1>4, <1>5, <1>8 DEF Map!Next, NodeInsert
<1> QED BY <1>6, <1>7, <1>8 DEF Map!Next, Next

\* Every behaviour of the tree is one of a map from keys to nodes, in the middle of a
\* walk too.
THEOREM TreeIsNodeMap == Spec => ImplementsNodeMap
<1>1. Init => Map!Init
  <2> SUFFICES ASSUME Init PROVE Map!Init
    OBVIOUS
  <2>1. IsDict(Dict, linked, key) /\ linked = {} /\ answer = NULL
    BY InitInShape, DictIs DEF Init
  <2>2. PICK d : d = Dict
    OBVIOUS
  <2>3. d = [k \in Key |-> d[k]] /\ \A k \in Key : d[k] = NULL
    BY <2>1, <2>2 DEF IsDict
  <2>4. d = [k \in Key |-> NULL]
    BY <2>3
  <2> QED BY <2>1, <2>2, <2>4 DEF Map!Init, Map!Empty
<1>2. InShape => IsDict(Dict, linked, key)
  BY DictIs
<1>3. InShape /\ IsDict(Dict, linked, key) /\ IsDict(Dict, linked, key)' /\ [Next]_vars
         => [Map!Next]_Map!vars
  BY StepImplementsMap
<1> QED BY <1>1, <1>2, <1>3, AlwaysInShape, PTL DEF Spec, ImplementsNodeMap, Map!Spec

-----------------------------------------------------------------------------
(* Heights.                                                                 *)

\* The height of a node on side s.
On(t, m, s) == GetHeight(t, t.child[m][s])

\* Two heights differ by at most one.
Near(a, b) == a - b \in -1..1

\* The height of m is right, and m is balanced.
Even(t, m) == t.height[m] = HeightFrom(t, m) /\ Lean(t, m, "left") \in -1..1

LEMMA EvenIs ==
    ASSUME NEW t, TreeType(t), NEW m \in Node, NEW s \in Side
    PROVE  /\ On(t, m, s) \in Nat /\ On(t, m, Opposite(s)) \in Nat /\ t.height[m] \in Nat
           /\ Lean(t, m, s) = On(t, m, s) - On(t, m, Opposite(s))
           /\ HeightFrom(t, m) = 1 + Higher(On(t, m, s), On(t, m, Opposite(s)))
           /\ Even(t, m) <=> /\ t.height[m] = 1 + Higher(On(t, m, s), On(t, m, Opposite(s)))
                             /\ Near(On(t, m, s), On(t, m, Opposite(s)))
<1>1. PICK a, b : a = On(t, m, "left") /\ b = On(t, m, "right")
  OBVIOUS
<1>2. "left" \in Side /\ "right" \in Side /\ Opposite("left") = "right" /\ Opposite("right") = "left"
  BY DEF Side, Opposite
<1>3. a \in Nat /\ b \in Nat /\ t.height[m] \in Nat
  BY <1>1, <1>2, HeightsAre, Zenon DEF On, TreeType
<1>4. /\ Lean(t, m, "left") = a - b /\ Lean(t, m, "right") = b - a
      /\ HeightFrom(t, m) = 1 + Higher(a, b)
  BY <1>1, <1>2 DEF On, Lean, HeightFrom
<1>5. Higher(a, b) = Higher(b, a) /\ Near(a, b) = Near(b, a)
  BY <1>3 DEF Higher, Near
<1>6. Even(t, m) <=> t.height[m] = 1 + Higher(a, b) /\ Near(a, b)
  BY <1>4 DEF Even, Near
<1>7. CASE s = "left"
  BY <1>1, <1>2, <1>3, <1>4, <1>6, <1>7
<1>8. CASE s = "right"
  BY <1>1, <1>2, <1>3, <1>4, <1>5, <1>6, <1>8
<1> QED BY <1>7, <1>8 DEF Side

\* A node that is as high, and has sides as high, as one that is even is even.
LEMMA EvenAs ==
    ASSUME NEW t, NEW u, NEW m, NEW k, u.height[k] = t.height[m],
           \A r \in Side : On(u, k, r) = On(t, m, r), Even(t, m)
    PROVE  Even(u, k)
<1>1. On(u, k, "left") = On(t, m, "left") /\ On(u, k, "right") = On(t, m, "right")
  BY DEF Side
<1>2. /\ Lean(u, k, "left") = On(u, k, "left") - On(u, k, "right")
      /\ Lean(t, m, "left") = On(t, m, "left") - On(t, m, "right")
      /\ HeightFrom(u, k) = 1 + Higher(On(u, k, "left"), On(u, k, "right"))
      /\ HeightFrom(t, m) = 1 + Higher(On(t, m, "left"), On(t, m, "right"))
  BY DEF On, Lean, HeightFrom, Opposite
<1> QED BY <1>1, <1>2 DEF Even

\* m was balanced, and of height h, when its side s was of height o.
Was(t, m, s, o, h) ==
    /\ Near(o, On(t, m, Opposite(s)))
    /\ h = 1 + Higher(o, On(t, m, Opposite(s)))

LEMMA WasEven ==
    ASSUME NEW t, TreeType(t), NEW m \in Node, NEW s \in Side, Even(t, m),
           NEW u, NEW k, On(u, k, Opposite(s)) = On(t, m, Opposite(s))
    PROVE  Was(u, k, s, On(t, m, s), t.height[m])
  BY EvenIs DEF Was

\* The heights of even trees are bounded by their sizes.
LEMMA EvenLow ==
    ASSUME NEW t, NEW L, NEW T, Tree(t, L, T), NEW a \in L, \A m \in T[a] : Even(t, m)
    PROVE  t.height[a] <= N /\ t.height[a] >= 1
<1>0. /\ TreeType(t) /\ L \subseteq Node /\ T[a] \subseteq L /\ a \in T[a]
      /\ \A m \in L : Size(T, m) \in 1..N /\ N \in Nat /\ t.height[m] \in Nat
  <2>1. TreeType(t) /\ L \subseteq Node
    BY DEF Tree
  <2>2. \A m \in L : t.height[m] \in Nat
    BY <2>1, Types
  <2>3. \A m \in L : Size(T, m) \in 1..N /\ N \in Nat
    BY Sizes, Count
  <2> QED BY <2>1, <2>2, <2>3, TwoSides DEF Side
<1> DEFINE Bad == {m \in T[a] : t.height[m] > Size(T, m)}
<1>1. ASSUME NEW m \in T[a], \A s \in Side : t.child[m][s] \notin Bad
      PROVE  t.height[m] <= Size(T, m) /\ t.height[m] >= 1
  <2>1. m \in L /\ m \in Node /\ T[m] \subseteq T[a]
    BY <1>0, Nested
  <2>2. ASSUME NEW s \in Side
        PROVE  On(t, m, s) < Size(T, m) /\ On(t, m, s) \in Nat
    <3>1. PICK c : c = t.child[m][s]
      OBVIOUS
    <3>2. CASE c = NULL
      BY <1>0, <2>1, <3>1, <3>2 DEF On, GetHeight
    <3>3. CASE c # NULL
      <4>1. Below(t, L, T, m, c)
        BY <2>1, <3>1, <3>3, ChildIs
      <4>2. c \in L /\ c \in T[a]
        BY <2>1, <4>1 DEF Below
      <4>3. t.height[c] <= Size(T, c)
        BY <1>0, <1>1, <3>1, <4>2
      <4>4. Size(T, c) < Size(T, m)
        BY <2>1, <3>1, <3>3, Sizes
      <4>5. On(t, m, s) = t.height[c]
        BY <3>1, <3>3 DEF On, GetHeight
      <4>6. t.height[c] \in Nat /\ Size(T, c) \in Nat /\ Size(T, m) \in Nat
        BY <1>0, <2>1, <4>2
      <4> QED BY ONLY <4>3, <4>4, <4>5, <4>6
    <3> QED BY <3>2, <3>3
  <2>3. "left" \in Side /\ "right" \in Side /\ Opposite("left") = "right"
    BY DEF Side, Opposite
  <2>4. PICK x, y : x = On(t, m, "left") /\ y = On(t, m, "right")
    OBVIOUS
  <2>5. x < Size(T, m) /\ y < Size(T, m) /\ x \in Nat /\ y \in Nat /\ Size(T, m) \in Nat
    BY <1>0, <2>1, <2>2, <2>3, <2>4
  <2>6. t.height[m] = 1 + Higher(x, y)
    BY <1>0, <1>1, <2>1, <2>3, <2>4, EvenIs
  <2> QED BY ONLY <2>5, <2>6 DEF Higher
<1>2. Bad = {}
  <2> SUFFICES ASSUME Bad # {} PROVE FALSE
    OBVIOUS
  <2>1. Bad \in SUBSET L
    BY <1>0
  <2>2. PICK m \in Bad : \A s \in Side : t.child[m][s] \notin Bad
    <3> HIDE DEF Bad
    <3> QED BY <2>1, LowestIn
  <2>3. m \in T[a] /\ t.height[m] > Size(T, m) /\ t.height[m] \in Nat /\ Size(T, m) \in Nat
    BY <1>0, <2>2
  <2>4. t.height[m] <= Size(T, m)
    <3> HIDE DEF Bad
    <3> QED BY <1>1, <2>2, <2>3
  <2> QED BY <2>3, <2>4
<1>3. t.height[a] <= Size(T, a) /\ t.height[a] >= 1
  <2> HIDE DEF Bad
  <2> QED BY <1>0, <1>1, <1>2
<1>4. Size(T, a) \in 1..N /\ N \in Nat /\ t.height[a] \in Nat
  BY <1>0
<1> QED BY ONLY <1>3, <1>4

\* The height of what an insert or a remove went through, o before it, h now.
Grown(d, o, h) == IF d THEN h = o - 1 \/ h = o ELSE h = o \/ h = o + 1

\* One side of x, whose height was h, has grown: x leans by two at most, and after an
\* insert the child that is too high leans itself.
At(t, x, d, h) ==
    \E s \in Side, o \in Nat :
        /\ Was(t, x, s, o, h)
        /\ Grown(d, o, On(t, x, s))
        /\ ~d /\ o > 0 /\ On(t, x, s) = o + 1 => Lean(t, t.child[x][s], s) # 0

\* The walk is at x: nodes are even but those above x and x itself, which were of the
\* heights Old and balanced before what is under them changed.
Walking(t, L, T, x, d, Old) ==
    /\ x \in L /\ Old \in [Node -> Nat]
    /\ \A m \in L : x \notin T[m] => Even(t, m)
    /\ \A m \in L, s \in Side :
          x \in Under(t, T, m, s) => Was(t, m, s, Old[t.child[m][s]], Old[m])
    /\ At(t, x, d, Old[x])

\* What is not moved stays even, but for the node above.
LEMMA MovedEven ==
    ASSUME NEW t, NEW L, NEW T, NEW K, NEW x, NEW top, NEW R, NEW V, NEW u,
           Moved(t, L, T, K, x, top, R, V, u), NEW m \in L \ R, L \subseteq Node,
           Tree(t, L, T), NEW s \in Side, t.child[m][s] # x
    PROVE  u.child[m][s] = t.child[m][s] /\ On(u, m, s) = On(t, m, s)
<1>1. u.child[m][s] = t.child[m][s] /\ t.child[m][s] \notin R
  BY DEF Moved
<1>2. PICK c : c = t.child[m][s]
  OBVIOUS
<1>3. c # NULL => c \in Node \ R
  <2>1. c \in Link
    BY <1>2, TwoSides
  <2> QED BY <1>1, <1>2, <2>1 DEF Link
<1>4. c # NULL => u.height[c] = t.height[c]
  BY <1>3 DEF Moved
<1> QED BY <1>1, <1>2, <1>4 DEF On, GetHeight

\* What an iteration promises of the heights: what it moved is even, and the height at
\* x is that from before the call or has grown.
Kept(d, h, top, R, u) ==
    /\ \A m \in R : Even(u, m)
    /\ Grown(d, h, u.height[top])
    /\ ~d /\ u.height[top] = h + 1 => \A s \in Side : Lean(u, top, s) # 0

\* Where the walk is next: above the top, or nowhere.
WalkingOn(u, L, V, p, d, Old) ==
    IF p = NULL THEN \A m \in L : Even(u, m) ELSE Walking(u, L, V, p, d, Old)

LEMMA MoveUp ==
    ASSUME NEW t, NEW L, NEW T, NEW K, Tree(t, L, T), NEW x, NEW d, NEW Old,
           Walking(t, L, T, x, d, Old),
           NEW top, NEW R, NEW V, NEW u, Moved(t, L, T, K, x, top, R, V, u),
           Kept(d, Old[x], top, R, u), NEW p, p = t.parent[x]
    PROVE  WalkingOn(u, L, V, p, d, Old)
<1>0. /\ x \in L /\ L \subseteq Node /\ NULL \notin Node /\ x \in Node /\ NULL \notin L
      /\ TreeType(t) /\ Old \in [Node -> Nat] /\ R \subseteq T[x] /\ x \in R /\ top \in R
      /\ Tree(u, L, V) /\ TreeType(u) /\ V[top] = T[x] /\ T[x] \subseteq L
      /\ \A m \in Node \ R : u.height[m] = t.height[m]
      /\ \A m \in R : Even(u, m)
  <2>1. x \in L /\ L \subseteq Node /\ NULL \notin Node /\ TreeType(t) /\ Old \in [Node -> Nat]
    BY NodeAssumption DEF Walking, Tree
  <2>2. /\ R \subseteq T[x] /\ x \in R /\ top \in R /\ Tree(u, L, V) /\ V[top] = T[x]
        /\ \A m \in Node \ R : u.height[m] = t.height[m]
    BY DEF Moved, Shape
  <2>3. TreeType(u)
    BY <2>2 DEF Tree
  <2>4. T[x] \subseteq L
    BY <2>1, TwoSides DEF Side
  <2>5. \A m \in R : Even(u, m)
    BY DEF Kept
  <2> QED BY <2>1, <2>2, <2>3, <2>4, <2>5
<1>1. ASSUME NEW m \in L \ R, Even(t, m), \A s \in Side : t.child[m][s] # x
      PROVE  Even(u, m)
  <2>1. \A s \in Side : On(u, m, s) = On(t, m, s)
    BY <1>0, <1>1, MovedEven
  <2>2. u.height[m] = t.height[m]
    BY <1>0
  <2> QED BY <1>1, <2>1, <2>2, EvenAs
<1>2. ASSUME NEW m \in L, NEW s \in Side, t.child[m][s] = x
      PROVE  m = t.parent[x] /\ x \in Under(t, T, m, s) /\ m \notin T[x] /\ x \in T[m]
  <2>1. Below(t, L, T, m, x)
    BY <1>0, <1>2, ChildIs
  <2>2. x \in T[x]
    BY <1>0, TwoSides
  <2> QED BY <1>0, <1>2, <2>1, <2>2 DEF Below, Under
<1>a. p = NULL <=> x = t.root
  <2>1. Tree(t, L, T) /\ x \in L /\ NULL \notin L /\ p = t.parent[x]
    BY <1>0
  <2> QED BY ONLY <2>1 DEF Tree
<1>3. CASE p = NULL
  <2>1. x = t.root
    BY <1>3, <1>a
  <2>2. T[x] = L
    BY <1>0, <2>1 DEF Tree
  <2>3. ASSUME NEW m \in L \ R
        PROVE  Even(u, m)
    <3>1. x \notin T[m]
      BY <1>0, <2>2, <2>3, OneAbove
    <3>2. Even(t, m)
      BY <3>1 DEF Walking
    <3>3. \A s \in Side : t.child[m][s] # x
      BY <1>2, <3>1
    <3> QED BY <1>1, <3>2, <3>3
  <2> QED BY <1>0, <1>3, <2>3 DEF WalkingOn
<1>4. CASE p # NULL
  <2>1. x # t.root /\ p \in L /\ p # x /\ x \in T[p]
    <3>1. x # t.root
      BY <1>4, <1>a
    <3> QED BY <1>0, <3>1, Above
  <2>2. \A m \in L : x \in T[m] <=> m = x \/ p \in T[m]
    BY <1>0, <2>1, Above
  <2>3. p \notin T[x]
    BY <1>0, <2>1, OneAbove
  <2>4. \A m \in L \ R : V[m] = T[m]
    BY DEF Moved
  <2>5. \A m \in R : p \notin V[m]
    <3>1. \A m \in R : m \in V[top] /\ top \in L
      BY <1>0
    <3>2. \A m \in R : V[m] \subseteq V[top]
      BY <1>0, <3>1, Nested
    <3> QED BY <1>0, <2>3, <3>2
  <2>6. ASSUME NEW m \in L, p \notin V[m]
        PROVE  Even(u, m)
    <3>1. CASE m \in R
      BY <1>0, <3>1
    <3>2. CASE m \notin R
      <4>1. x \notin T[m]
        BY <1>0, <2>2, <2>4, <2>6, <3>2
      <4>2. Even(t, m)
        BY <4>1 DEF Walking
      <4>3. \A s \in Side : t.child[m][s] # x
        BY <1>2, <4>1
      <4> QED BY <1>1, <3>2, <4>2, <4>3
    <3> QED BY <3>1, <3>2
  <2>7. ASSUME NEW m \in L, NEW s \in Side, p \in Under(u, V, m, s)
        PROVE  Was(u, m, s, Old[u.child[m][s]], Old[m])
    <3>1. PICK c : c = u.child[m][s]
      OBVIOUS
    <3>2. /\ c \in L /\ p \in V[c] /\ p \in V[m] /\ m # p /\ Under(u, V, m, s) = V[c]
          /\ Opposite(s) \in Side
          /\ Under(u, V, m, s) \intersect Under(u, V, m, Opposite(s)) = {}
      <4>1. c # NULL /\ p \in V[c]
        BY <2>7, <3>1 DEF Under
      <4>2. Below(u, L, V, m, c)
        BY <1>0, <3>1, <4>1, ChildIs
      <4>3. Under(u, V, m, s) \intersect Under(u, V, m, Opposite(s)) = {}
        BY <1>0, TwoSides
      <4> QED BY <3>1, <4>1, <4>2, <4>3, Sides DEF Below, Under
    <3>3. m \notin R /\ c \notin R /\ m # x
      BY <1>0, <2>5, <3>2
    <3>4. t.child[m][s] # x
      BY <1>2, <3>2
    <3>5. t.child[m][Opposite(s)] # x
      BY <1>2, <3>2
    <3>6. /\ t.child[m][s] = c
          /\ On(u, m, Opposite(s)) = On(t, m, Opposite(s))
      <4>1. Opposite(s) \in Side /\ m \in L \ R
        BY <3>2, <3>3
      <4> QED BY <1>0, <3>1, <3>4, <3>5, <4>1, MovedEven
    <3>7. x \in Under(t, T, m, s)
      <4>1. x \in T[c]
        BY <2>2, <2>4, <3>2, <3>3
      <4> QED BY <1>0, <3>2, <3>6, <4>1 DEF Under
    <3>8. Was(t, m, s, Old[c], Old[m])
      BY <3>6, <3>7 DEF Walking
    <3> QED BY <3>1, <3>6, <3>8 DEF Was
  <2>8. At(u, p, d, Old[p])
    <3>1. PICK s \in Side : t.child[p][s] = x
      BY <1>0, <2>1 DEF Tree
    <3>2. x \in Under(t, T, p, s)
      BY <1>2, <2>1, <3>1
    <3>3. Was(t, p, s, Old[x], Old[p])
      BY <2>1, <3>1, <3>2 DEF Walking
    <3>4. p \in L \ R
      BY <1>0, <2>1, <2>3
    <3>5. u.child[p][s] = top
      BY <3>1, <3>4 DEF Moved
    <3>6. On(u, p, s) = u.height[top]
      BY <1>0, <3>5 DEF On, GetHeight
    <3>7. On(u, p, Opposite(s)) = On(t, p, Opposite(s))
      <4>1. t.child[p][Opposite(s)] # x /\ Opposite(s) \in Side
        BY <1>0, <2>1, <3>1, TwoSides, Sides
      <4> QED BY <1>0, <3>4, <4>1, MovedEven
    <3>8. Was(u, p, s, Old[x], Old[p])
      BY <3>3, <3>7 DEF Was
    <3>9. Grown(d, Old[x], On(u, p, s))
      BY <3>6 DEF Kept
    <3>10. ~d /\ On(u, p, s) = Old[x] + 1 => Lean(u, u.child[p][s], s) # 0
      BY <3>5, <3>6 DEF Kept
    <3>11. Old[x] \in Nat
      BY <1>0
    <3> QED BY <3>8, <3>9, <3>10, <3>11 DEF At
  <2>9. Walking(u, L, V, p, d, Old)
    BY <1>0, <2>1, <2>6, <2>7, <2>8 DEF Walking
  <2> QED BY <1>4, <2>9 DEF WalkingOn
<1> QED BY <1>3, <1>4

\* A height that is right stays.
LEMMA RecalculateAgain ==
    ASSUME NEW u, TreeType(u), NEW n \in Node, u.height[n] = HeightFrom(u, n),
           NEW v, v = RecalculateHeight(u, n)
    PROVE  v = u
<1>1. /\ TreeType(v) /\ v.root = u.root /\ v.child = u.child /\ v.parent = u.parent
      /\ \A m \in Node : v.height[m] = IF m = n THEN HeightFrom(u, n) ELSE u.height[m]
  BY RecalculateIs
<1>2. v.height \in [Node -> Nat] /\ u.height \in [Node -> Nat]
  BY <1>1 DEF TreeType
<1>3. v.height = u.height
  BY <1>1, <1>2
<1> QED BY <1>1, <1>3 DEF TreeType

\* The child of a node under x is not x.
LEMMA NotUp ==
    ASSUME NEW t, NEW L, NEW T, Tree(t, L, T), NEW x \in L, NEW m \in T[x], NEW s \in Side
    PROVE  t.child[m][s] # x
<1>1. m \in L
  BY Nested
<1> SUFFICES ASSUME t.child[m][s] = x PROVE FALSE
  OBVIOUS
<1>2. x # NULL
  BY NodeAssumption DEF Tree
<1>3. Below(t, L, T, m, x)
  BY <1>1, <1>2, ChildIs
<1> QED BY <1>3 DEF Below

\* The child of x on the side that is too high.
HighChild(t, L, T, x, s, c) ==
    /\ c \in L /\ c # x /\ c # NULL /\ t.parent[c] = x /\ c \in T[x] /\ x \notin T[c]
    /\ T[c] \subseteq T[x]
    /\ Even(t, c) /\ Lean(t, c, s) \in -1..1
    /\ On(t, x, s) = t.height[c] /\ On(t, x, s) = On(t, x, Opposite(s)) + 2

LEMMA HighChildIs ==
    ASSUME NEW t, NEW L, NEW T, Tree(t, L, T), NEW x, NEW d, NEW Old,
           Walking(t, L, T, x, d, Old), NEW s \in Side, Lean(t, x, s) = 2,
           NEW c, c = t.child[x][s]
    PROVE  HighChild(t, L, T, x, s, c)
<1>0. x \in L /\ TreeType(t) /\ L \subseteq Node
  BY DEF Walking, Tree
<1>1. c # NULL
  BY <1>0, LeanUp
<1>2. Below(t, L, T, x, c)
  BY <1>0, <1>1, ChildIs
<1>3. c \in L /\ c # x /\ t.parent[c] = x /\ c \in T[x] /\ x \notin T[c] /\ T[c] \subseteq T[x]
  BY <1>2 DEF Below
<1>4. Even(t, c)
  BY <1>3 DEF Walking
<1>5. Lean(t, c, s) \in -1..1
  <2>1. c \in Node
    BY <1>0, <1>3
  <2>2. Lean(t, c, s) = On(t, c, s) - On(t, c, Opposite(s))
    BY <1>0, <2>1, EvenIs
  <2>3. Near(On(t, c, s), On(t, c, Opposite(s)))
    BY <1>0, <1>4, <2>1, EvenIs
  <2> QED BY <2>2, <2>3 DEF Near
<1>6. On(t, x, s) = t.height[c]
  BY <1>1 DEF On, GetHeight
<1>7. On(t, x, s) = On(t, x, Opposite(s)) + 2
  <2>1. x \in Node
    BY <1>0
  <2>2. /\ On(t, x, s) \in Nat /\ On(t, x, Opposite(s)) \in Nat
        /\ Lean(t, x, s) = On(t, x, s) - On(t, x, Opposite(s))
    BY <1>0, <2>1, EvenIs
  <2> QED BY <2>2
<1> QED BY <1>1, <1>3, <1>4, <1>5, <1>6, <1>7 DEF HighChild

\* How high x was before one of its sides became too high.
LEMMA HighWas ==
    ASSUME NEW t, NEW L, NEW T, Tree(t, L, T), NEW x, NEW d, NEW Old,
           Walking(t, L, T, x, d, Old), NEW s \in Side, Lean(t, x, s) = 2
    PROVE  /\ d => Old[x] = On(t, x, Opposite(s)) + 3
           /\ ~d => Old[x] = On(t, x, Opposite(s)) + 2 /\ Lean(t, t.child[x][s], s) # 0
<1>0. x \in Node /\ TreeType(t)
  BY DEF Walking, Tree
<1>1. PICK r \in Side, o \in Nat :
         /\ Was(t, x, r, o, Old[x])
         /\ Grown(d, o, On(t, x, r))
         /\ ~d /\ o > 0 /\ On(t, x, r) = o + 1 => Lean(t, t.child[x][r], r) # 0
  BY DEF Walking, At
<1>2. PICK a \in Nat, b \in Nat : a = On(t, x, s) /\ b = On(t, x, Opposite(s))
  BY <1>0, EvenIs
<1>3. a = b + 2
  BY <1>0, <1>2, EvenIs
<1>4. CASE r = s
  <2>1. Near(o, b) /\ Old[x] = 1 + Higher(o, b) /\ Grown(d, o, a)
    BY <1>1, <1>2, <1>4 DEF Was
  <2>2. ~d /\ o = b + 1
    BY <1>3, <2>1 DEF Near, Grown
  <2>3. Old[x] = b + 2
    BY <2>1, <2>2 DEF Higher
  <2>4. o > 0 /\ On(t, x, r) = o + 1
    <3>1. On(t, x, r) = a
      BY <1>2, <1>4
    <3>2. o > 0 /\ a = o + 1
      BY <1>3, <2>2
    <3> QED BY <3>1, <3>2
  <2> QED BY <1>1, <1>2, <1>4, <2>2, <2>3, <2>4
<1>5. CASE r = Opposite(s)
  <2>1. Opposite(r) = s
    BY <1>5, Sides
  <2>2. Near(o, a) /\ Old[x] = 1 + Higher(o, a) /\ Grown(d, o, b)
    BY <1>1, <1>2, <1>5, <2>1 DEF Was
  <2>3. d /\ o = b + 1
    BY <1>3, <2>2 DEF Near, Grown
  <2>4. Old[x] = b + 3
    BY <1>3, <2>2, <2>3 DEF Higher
  <2> QED BY <1>2, <2>3, <2>4
<1> QED BY <1>4, <1>5, Sides

\* An iteration that rotates nothing.
LEMMA KeepIs ==
    ASSUME NEW t, NEW L, NEW T, NEW K, Shape(t, L, T, K), NEW x, NEW d, NEW Old,
           Walking(t, L, T, x, d, Old), \A s \in Side : Lean(t, x, s) # 2,
           NEW u, u = RecalculateHeight(t, x)
    PROVE  Moved(t, L, T, K, x, x, {x}, T, u) /\ Kept(d, Old[x], x, {x}, u)
<1>0. x \in Node /\ x \in L /\ TreeType(t) /\ Tree(t, L, T) /\ x \in T[x] /\ "left" \in Side
  <2>1. x \in L /\ Tree(t, L, T) /\ TreeType(t) /\ x \in Node /\ "left" \in Side
    BY DEF Walking, Tree, Shape, Side
  <2> QED BY <2>1, TwoSides
<1>1. /\ Shape(u, L, T, K) /\ u.child = t.child /\ u.parent = t.parent
      /\ u.height[x] = HeightFrom(t, x)
      /\ \A m \in Node \ {x} : u.height[m] = t.height[m]
  BY <1>0, RecalculateShape
<1>2. Moved(t, L, T, K, x, x, {x}, T, u)
  <2>1. \A m \in L \ {x}, r \in Side :
           /\ t.child[m][r] \notin {x} \ {x}
           /\ u.child[m][r] = IF t.child[m][r] = x THEN x ELSE t.child[m][r]
    BY <1>1
  <2> QED BY <1>0, <1>1, <2>1 DEF Moved
<1>3. ASSUME NEW r \in Side
      PROVE  On(u, x, r) = On(t, x, r)
  <2>1. PICK c : c = t.child[x][r] /\ c \in Link
    BY <1>0, Types
  <2>2. c # x
    BY <1>0, <2>1, NotUp
  <2>3. c # NULL => u.height[c] = t.height[c]
    BY <1>1, <2>1, <2>2 DEF Link
  <2> QED BY <1>1, <2>1, <2>3 DEF On, GetHeight
<1>4. PICK s \in Side, o \in Nat :
         /\ Was(t, x, s, o, Old[x])
         /\ Grown(d, o, On(t, x, s))
  BY DEF Walking, At
<1>5. PICK a \in Nat, b \in Nat : /\ a = On(t, x, s) /\ b = On(t, x, Opposite(s))
                                  /\ HeightFrom(t, x) = 1 + Higher(a, b)
                                  /\ Lean(t, x, s) = a - b
  BY <1>0, EvenIs
<1>6. Lean(t, x, Opposite(s)) = b - a /\ Opposite(s) \in Side
  BY <1>0, <1>5, LeanUp, Sides
<1>7. a - b # 2 /\ b - a # 2
  BY <1>5, <1>6
<1>8. Near(o, b) /\ Old[x] = 1 + Higher(o, b) /\ Grown(d, o, a)
  BY <1>4, <1>5 DEF Was
<1>9. Near(a, b)
  BY ONLY <1>5, <1>7, <1>8, <1>4 DEF Near, Grown
<1>10. Grown(d, Old[x], 1 + Higher(a, b))
  BY ONLY <1>5, <1>8, <1>9, <1>4 DEF Near, Grown, Higher
<1>11. ~d /\ 1 + Higher(a, b) = Old[x] + 1 => a - b # 0
  BY ONLY <1>5, <1>8, <1>9, <1>4 DEF Near, Grown, Higher
<1>12. On(u, x, s) = a /\ On(u, x, Opposite(s)) = b /\ TreeType(u)
  BY <1>1, <1>3, <1>5, <1>6 DEF Shape, Tree
<1>13. Even(u, x)
  BY <1>0, <1>1, <1>5, <1>9, <1>12, EvenIs
<1>14. Lean(u, x, s) = a - b /\ Lean(u, x, Opposite(s)) = b - a
  <2>1. Lean(u, x, s) = a - b
    BY <1>0, <1>12, EvenIs
  <2>2. Lean(u, x, Opposite(s)) = - Lean(u, x, s)
    BY <1>0, <1>12, LeanUp
  <2> QED BY <1>5, <2>1, <2>2
<1>15. ~d /\ u.height[x] = Old[x] + 1 => \A r \in Side : Lean(u, x, r) # 0
  <2>1. \A r \in Side : r = s \/ r = Opposite(s)
    BY Sides
  <2>2. ~d /\ u.height[x] = Old[x] + 1 => a - b # 0
    BY <1>1, <1>5, <1>11
  <2>3. a - b # 0 => b - a # 0
    BY <1>5
  <2> QED BY <1>14, <2>1, <2>2, <2>3
<1>16. Kept(d, Old[x], x, {x}, u)
  BY <1>1, <1>5, <1>10, <1>13, <1>15 DEF Kept
<1> QED BY <1>2, <1>16

\* A node that has not moved is as high as it was.
LEMMA StaysHigh ==
    ASSUME NEW t, NEW u, NEW R, \A m \in Node \ R : u.height[m] = t.height[m],
           NEW c \in Link, c \notin R
    PROVE  GetHeight(u, c) = GetHeight(t, c)
  BY DEF GetHeight, Link

\* One rotation of x, as Moved says it.
LEMMA OnceMoved ==
    ASSUME NEW t, NEW L, NEW T, NEW K, Shape(t, L, T, K), NEW x \in L, NEW s \in Side,
           NEW c, c = t.child[x][s], c \in L, NEW u, RotatedTo(t, L, T, K, x, Opposite(s), c, u)
    PROVE  Moved(t, L, T, K, x, c, {x, c}, Turned(t, T, x, Opposite(s), c), u)
<1>0. Tree(t, L, T) /\ L \subseteq Node /\ NULL \notin L /\ c # NULL
  BY NodeAssumption DEF Shape, Tree
<1>1. Below(t, L, T, x, c)
  BY <1>0, ChildIs
<1>2. c \in T[x] /\ x \in T[x] /\ c # x /\ t.parent[c] = x
  BY <1>0, <1>1, TwoSides DEF Below
<1>3. PICK V : V = Turned(t, T, x, Opposite(s), c)
  OBVIOUS
<1>4. /\ Shape(u, L, V, K) /\ RotatedLinks(t, L, x, Opposite(s), c, u)
      /\ \A m \in Node \ {x, c} : u.height[m] = t.height[m]
  BY <1>3 DEF RotatedTo
<1>5. V[c] = T[x] /\ \A m \in L \ {x, c} : V[m] = T[m]
  BY <1>0, <1>3 DEF Turned
<1>6. u.parent[c] = t.parent[x]
  BY <1>4 DEF RotatedLinks
<1>7. ASSUME NEW m \in L \ {x, c}, NEW r \in Side
      PROVE  /\ t.child[m][r] \notin {x, c} \ {x}
             /\ u.child[m][r] = IF t.child[m][r] = x THEN c ELSE t.child[m][r]
  <2>1. t.child[m][r] # c
    <3> SUFFICES ASSUME t.child[m][r] = c PROVE FALSE
      OBVIOUS
    <3>1. Below(t, L, T, m, c)
      BY <1>0, ChildIs
    <3> QED BY <1>2, <3>1 DEF Below
  <2>2. u.child[m][r] = IF t.child[m][r] = x THEN c ELSE t.child[m][r]
    BY <1>4 DEF RotatedLinks
  <2> QED BY <2>1, <2>2
<1>8. Moved(t, L, T, K, x, c, {x, c}, V, u)
  BY <1>2, <1>4, <1>5, <1>6, <1>7 DEF Moved
<1> QED BY <1>3, <1>8

LEMMA OnceKept ==
    ASSUME NEW t, NEW L, NEW T, NEW K, Shape(t, L, T, K), NEW x, NEW d, NEW Old,
           Walking(t, L, T, x, d, Old), NEW s \in Side, Lean(t, x, s) = 2,
           NEW c, c = t.child[x][s], Lean(t, c, s) = 1 \/ (Lean(t, c, s) = 0 /\ d),
           NEW u, RotatedTo(t, L, T, K, x, Opposite(s), c, u)
    PROVE  Kept(d, Old[x], c, {x, c}, u)
<1>0. /\ x \in L /\ Tree(t, L, T) /\ TreeType(t) /\ L \subseteq Node /\ TreeType(u)
      /\ x \in Node /\ x \in T[x]
  <2>1. x \in L /\ Tree(t, L, T) /\ TreeType(t) /\ L \subseteq Node /\ TreeType(u)
    BY DEF Walking, Tree, Shape, RotatedTo, RotatedLinks
  <2> QED BY <2>1, TwoSides
<1>1. PICK o : o = Opposite(s) /\ o \in Side /\ Opposite(o) = s /\ Side = {s, o}
  BY Sides
<1>2. HighChild(t, L, T, x, s, c)
  BY <1>0, HighChildIs
<1>3. /\ c \in L /\ c # x /\ c # NULL /\ c \in T[x] /\ x \notin T[c] /\ Even(t, c)
      /\ On(t, x, s) = t.height[c] /\ On(t, x, s) = On(t, x, o) + 2 /\ c \in Node
      /\ c \in T[c]
  <2>1. /\ c \in L /\ c # x /\ c # NULL /\ c \in T[x] /\ x \notin T[c] /\ Even(t, c)
        /\ On(t, x, s) = t.height[c] /\ On(t, x, s) = On(t, x, o) + 2
    BY <1>1, <1>2 DEF HighChild
  <2>2. c \in T[c]
    BY <1>0, <2>1, TwoSides
  <2> QED BY <1>0, <2>1, <2>2
<1>4. /\ u.child[x][o] = t.child[x][o] /\ u.child[x][s] = t.child[c][o]
      /\ u.child[c][o] = x /\ u.child[c][s] = t.child[c][s]
      /\ \A m \in Node \ {x, c} : u.height[m] = t.height[m]
      /\ u.height[x] = HeightFrom(u, x) /\ u.height[c] = HeightFrom(u, c)
  BY <1>1 DEF RotatedTo, RotatedLinks
<1>5. PICK b, p, q : b = On(t, x, o) /\ p = On(t, c, s) /\ q = On(t, c, o)
  OBVIOUS
<1>6. b \in Nat /\ p \in Nat /\ q \in Nat
  BY <1>0, <1>1, <1>3, <1>5, EvenIs
<1>7. ASSUME NEW m \in {x, c}, NEW r \in Side, t.child[m][r] # c
      PROVE  GetHeight(u, t.child[m][r]) = On(t, m, r)
  <2>1. PICK z : z = t.child[m][r]
    OBVIOUS
  <2>2. z \in Link
    BY <1>0, <1>3, <2>1, Types
  <2>3. z # x
    BY <1>0, <1>3, <2>1, NotUp
  <2>4. z \notin {x, c}
    BY <1>7, <2>1, <2>3
  <2>5. GetHeight(u, z) = GetHeight(t, z)
    BY <1>4, <2>2, <2>4, StaysHigh, Zenon
  <2> QED BY <2>1, <2>5 DEF On
<1>8. On(u, x, o) = b /\ On(u, x, s) = q /\ On(u, c, s) = p
  <2>1. t.child[x][o] # c
    BY <1>0, <1>1, <1>3, TwoSides
  <2>2. t.child[c][s] # c /\ t.child[c][o] # c
    BY <1>0, <1>1, <1>3, NotUp
  <2> QED BY <1>1, <1>4, <1>5, <1>7, <2>1, <2>2 DEF On
<1>9. On(u, c, o) = u.height[x]
  BY <1>0, <1>4, NodeAssumption DEF On, GetHeight
<1>10. u.height[x] = 1 + Higher(q, b)
  BY <1>0, <1>1, <1>4, <1>8, EvenIs
<1>11. u.height[c] = 1 + Higher(p, u.height[x])
  BY <1>0, <1>1, <1>3, <1>4, <1>8, <1>9, EvenIs
<1>12. b + 2 = 1 + Higher(p, q) /\ Near(p, q) /\ Lean(t, c, s) = p - q
  BY <1>0, <1>1, <1>3, <1>5, EvenIs, Zenon
<1>13. p = b + 1 /\ (q = b \/ (q = b + 1 /\ d))
  BY ONLY <1>6, <1>12, Lean(t, c, s) = 1 \/ (Lean(t, c, s) = 0 /\ d) DEF Higher
<1>14. u.height[x] = q + 1 /\ u.height[c] = q + 2
  BY ONLY <1>6, <1>10, <1>11, <1>13 DEF Higher
<1>15. Near(q, b) /\ Near(p, q + 1)
  BY ONLY <1>6, <1>13 DEF Near
<1>16. Even(u, x)
  BY <1>0, <1>1, <1>4, <1>8, <1>10, <1>15, EvenIs
<1>17. Even(u, c)
  BY <1>0, <1>1, <1>3, <1>8, <1>9, <1>11, <1>14, <1>15, EvenIs
<1>18. (d => Old[x] = b + 3) /\ (~d => Old[x] = b + 2)
  BY <1>0, <1>1, <1>5, HighWas
<1>19. Grown(d, Old[x], q + 2) /\ (~d => q + 2 # Old[x] + 1)
  BY ONLY <1>6, <1>13, <1>18 DEF Grown
<1> QED BY <1>14, <1>16, <1>17, <1>19 DEF Kept

\* The inner grandchild, when the child leans to it.
LEMMA InnerIs ==
    ASSUME NEW t, NEW L, NEW T, Tree(t, L, T), NEW x, NEW d, NEW Old,
           Walking(t, L, T, x, d, Old), NEW s \in Side, NEW c, HighChild(t, L, T, x, s, c),
           Lean(t, c, s) = -1, NEW g, g = t.child[c][Opposite(s)]
    PROVE  /\ g \in L /\ g # NULL /\ g \in T[x] /\ Even(t, g) /\ c \notin T[g] /\ x \notin T[g]
           /\ On(t, c, Opposite(s)) = t.height[g] /\ t.parent[g] = c
<1>0. TreeType(t) /\ L \subseteq Node /\ c \in L /\ T[c] \subseteq T[x] /\ x \notin T[c] /\ x \in L
  BY DEF Tree, HighChild, Walking
<1>1. g # NULL
  <2>1. c \in Node
    BY <1>0
  <2> QED BY <1>0, <2>1, LeanUp
<1>2. Below(t, L, T, c, g)
  BY <1>0, <1>1, ChildIs, Sides
<1>3. g \in L /\ g \in T[c] /\ T[g] \subseteq T[c] /\ c \notin T[g] /\ t.parent[g] = c
  BY <1>2 DEF Below
<1>4. x \notin T[g]
  BY <1>0, <1>3
<1>5. Even(t, g)
  BY <1>3, <1>4 DEF Walking
<1>6. On(t, c, Opposite(s)) = t.height[g]
  BY <1>1 DEF On, GetHeight
<1> QED BY <1>0, <1>1, <1>3, <1>4, <1>5, <1>6

LEMMA TwiceKept ==
    ASSUME NEW t, NEW L, NEW T, NEW K, Shape(t, L, T, K), NEW x, NEW d, NEW Old,
           Walking(t, L, T, x, d, Old), NEW s \in Side, Lean(t, x, s) = 2,
           NEW c, c = t.child[x][s], Lean(t, c, s) = -1,
           NEW g, g = t.child[c][Opposite(s)], NEW u, TreeType(u),
           \A m \in Node \ {x, c, g} : u.height[m] = t.height[m],
           Twisted(t, x, s, c, g, u)
    PROVE  Kept(d, Old[x], g, {x, c, g}, u)
<1>0. /\ x \in L /\ Tree(t, L, T) /\ TreeType(t) /\ L \subseteq Node
      /\ x \in Node /\ x \in T[x]
  <2>1. x \in L /\ Tree(t, L, T) /\ TreeType(t) /\ L \subseteq Node
    BY DEF Walking, Tree, Shape
  <2> QED BY <2>1, TwoSides
<1>1. PICK o : o = Opposite(s) /\ o \in Side /\ Opposite(o) = s /\ Side = {s, o}
  BY Sides
<1>2. HighChild(t, L, T, x, s, c)
  BY <1>0, HighChildIs
<1>3. /\ c \in L /\ c # x /\ c # NULL /\ c \in T[x] /\ x \notin T[c] /\ Even(t, c)
      /\ On(t, x, s) = t.height[c] /\ On(t, x, s) = On(t, x, o) + 2 /\ c \in Node
      /\ t.parent[c] = x
  BY <1>0, <1>1, <1>2 DEF HighChild
<1>4. /\ g \in L /\ g # NULL /\ g \in T[x] /\ Even(t, g) /\ c \notin T[g] /\ x \notin T[g]
      /\ On(t, c, o) = t.height[g] /\ g \in Node /\ t.parent[g] = c
  <2>1. /\ g \in L /\ g # NULL /\ g \in T[x] /\ Even(t, g) /\ c \notin T[g] /\ x \notin T[g]
        /\ On(t, c, Opposite(s)) = t.height[g] /\ t.parent[g] = c
    <3>1. /\ Tree(t, L, T) /\ Walking(t, L, T, x, d, Old) /\ s \in Side
          /\ Lean(t, c, s) = -1 /\ g = t.child[c][Opposite(s)]
      BY <1>0
    <3> QED BY ONLY <1>2, <3>1, InnerIs
  <2> QED BY <1>0, <1>1, <2>1
<1>5. /\ u.child[x][o] = t.child[x][o] /\ u.child[x][s] = t.child[g][o]
      /\ u.child[c][s] = t.child[c][s] /\ u.child[c][o] = t.child[g][s]
      /\ u.child[g][s] = c /\ u.child[g][o] = x
      /\ u.height[x] = HeightFrom(u, x) /\ u.height[c] = HeightFrom(u, c)
      /\ u.height[g] = HeightFrom(u, g)
  BY <1>1, Zenon DEF Twisted
<1>6. PICK b, p, q, r : b = On(t, x, o) /\ p = On(t, c, s) /\ q = On(t, g, s) /\ r = On(t, g, o)
  OBVIOUS
<1>7. b \in Nat /\ p \in Nat /\ q \in Nat /\ r \in Nat
  <2>1. b \in Nat /\ p \in Nat
    BY <1>0, <1>1, <1>3, <1>6, EvenIs
  <2>2. q \in Nat /\ r \in Nat
    BY <1>0, <1>1, <1>4, <1>6, EvenIs, Zenon
  <2> QED BY <2>1, <2>2
<1>8. ASSUME NEW m \in {x, c, g}, NEW k \in Side, t.child[m][k] # c, t.child[m][k] # g
      PROVE  GetHeight(u, t.child[m][k]) = On(t, m, k)
  <2>1. PICK z : z = t.child[m][k]
    OBVIOUS
  <2>2. z \in Link /\ m \in T[x]
    <3>1. m \in T[x] /\ m \in Node
      BY <1>0, <1>3, <1>4
    <3> QED BY <1>0, <2>1, <3>1, Types
  <2>3. z # x
    BY <1>0, <2>1, <2>2, NotUp
  <2>4. z \notin {x, c, g}
    BY <1>8, <2>1, <2>3
  <2>5. z # NULL => u.height[z] = t.height[z]
    BY <2>2, <2>4 DEF Link
  <2> QED BY <2>1, <2>5 DEF On, GetHeight
<1>9. ASSUME NEW m \in L, NEW k \in Side
      PROVE  /\ t.child[m][k] = c => m = x
             /\ t.child[m][k] = g => m = c
  <2>1. t.child[m][k] # NULL => t.parent[t.child[m][k]] = m
    <3>1. PICK z : z = t.child[m][k]
      OBVIOUS
    <3>2. z # NULL => t.parent[z] = m
      BY <1>0, <3>1, ChildIs DEF Below
    <3> QED BY <3>1, <3>2
  <2> QED BY <1>3, <1>4, <2>1, Zenon
<1>10. c # g /\ x # g
  <2>0. Tree(t, L, T) /\ g \in L /\ s \in Side
    BY <1>0, <1>4, Zenon
  <2>1. g \in T[g]
    BY ONLY <2>0, TwoSides
  <2> QED BY <1>4, <2>1, Zenon
<1>11. On(u, x, o) = b /\ On(u, x, s) = r
  <2>1. t.child[x][o] # c /\ t.child[x][o] # g
    <3>1. t.child[x][o] # c
      <4>1. Tree(t, L, T) /\ x \in L /\ s \in Side /\ t.child[x][s] = c /\ c # NULL
        BY <1>0, <1>3, Zenon
      <4>2. t.child[x][s] # t.child[x][Opposite(s)]
        BY ONLY <4>1, TwoSides
      <4> QED BY ONLY <1>1, <4>1, <4>2
    <3>2. t.child[x][o] # g
      BY <1>0, <1>1, <1>3, <1>9
    <3> QED BY <3>1, <3>2
  <2>2. t.child[g][o] # c /\ t.child[g][o] # g
    BY <1>1, <1>4, <1>9, <1>10, Zenon
  <2> QED BY <1>1, <1>5, <1>6, <1>8, <2>1, <2>2, Zenon DEF On
<1>12. On(u, c, s) = p /\ On(u, c, o) = q
  <2>1. t.child[c][s] # c /\ t.child[c][s] # g
    <3>1. t.child[c][s] # c
      BY <1>3, <1>9
    <3>2. t.child[c][s] # g
      <4>1. /\ Tree(t, L, T) /\ c \in L /\ o \in Side /\ t.child[c][o] = g /\ g # NULL
            /\ Opposite(o) = s
        BY <1>0, <1>1, <1>3, <1>4, Zenon
      <4> QED BY ONLY <4>1, TwoSides
    <3> QED BY <3>1, <3>2
  <2>2. t.child[g][s] # c /\ t.child[g][s] # g
    BY <1>1, <1>4, <1>9, <1>10, Zenon
  <2> QED BY <1>1, <1>5, <1>6, <1>8, <2>1, <2>2, Zenon DEF On
<1>13. On(u, g, s) = u.height[c] /\ On(u, g, o) = u.height[x]
  BY <1>0, <1>3, <1>5, NodeAssumption, Zenon DEF On, GetHeight
<1>a. TreeType(u) /\ g \in Node /\ c \in Node /\ s \in Side
  BY <1>3, <1>4, Zenon
<1>14. u.height[x] = 1 + Higher(r, b)
  BY <1>0, <1>1, <1>5, <1>11, EvenIs, Zenon
<1>15. u.height[c] = 1 + Higher(p, q)
  BY <1>0, <1>1, <1>3, <1>5, <1>12, EvenIs, Zenon
<1>16. u.height[g] = 1 + Higher(u.height[c], u.height[x])
  BY ONLY <1>a, <1>1, <1>5, <1>13, EvenIs
<1>17. b + 2 = 1 + Higher(p, t.height[g]) /\ Near(p, t.height[g]) /\ p - t.height[g] = -1
  <2>1. /\ TreeType(t) /\ c \in Node /\ s \in Side /\ Even(t, c)
        /\ On(t, c, s) = p /\ On(t, c, Opposite(s)) = t.height[g]
        /\ t.height[c] = b + 2 /\ Lean(t, c, s) = -1
    BY <1>0, <1>1, <1>3, <1>4, <1>6, Zenon
  <2> QED BY ONLY <2>1, EvenIs
<1>18. t.height[g] = 1 + Higher(q, r) /\ Near(q, r)
  BY <1>0, <1>1, <1>4, <1>6, EvenIs, Zenon
<1>19. t.height[g] \in Nat
  BY <1>0, <1>4, Zenon DEF TreeType
<1>20. p = b /\ t.height[g] = b + 1
  BY ONLY <1>7, <1>17, <1>19 DEF Higher
<1>21. Higher(q, r) = b /\ Near(q, r)
  BY ONLY <1>7, <1>18, <1>20 DEF Higher
<1>22. Near(r, b) /\ Near(p, q) /\ Higher(r, b) = b /\ Higher(p, q) = b
  BY ONLY <1>7, <1>20, <1>21 DEF Higher, Near
<1>23. u.height[x] = b + 1 /\ u.height[c] = b + 1
  BY ONLY <1>7, <1>14, <1>15, <1>22
<1>24. u.height[g] = b + 2 /\ Near(u.height[c], u.height[x])
  BY ONLY <1>7, <1>16, <1>23 DEF Higher, Near
<1>25. Even(u, x)
  BY <1>0, <1>1, <1>11, <1>14, <1>22, EvenIs
<1>26. Even(u, c)
  BY <1>1, <1>3, <1>12, <1>15, <1>22, EvenIs
<1>27. Even(u, g)
  BY ONLY <1>a, <1>1, <1>13, <1>16, <1>24, EvenIs
<1>28. (d => Old[x] = b + 3) /\ (~d => Old[x] = b + 2)
  <2>1. Tree(t, L, T) /\ b = On(t, x, Opposite(s))
    BY <1>0, <1>1, <1>6
  <2>2. /\ d => Old[x] = On(t, x, Opposite(s)) + 3
        /\ ~d => Old[x] = On(t, x, Opposite(s)) + 2
    BY <2>1, HighWas
  <2> QED BY ONLY <2>1, <2>2
<1>29. Grown(d, Old[x], b + 2) /\ (~d => b + 2 # Old[x] + 1)
  BY ONLY <1>7, <1>28 DEF Grown
<1> QED BY <1>24, <1>25, <1>26, <1>27, <1>29, Zenon DEF Kept

\* In every state the heights are right and the nodes balanced where the walk has been
\* and where it does not come, and no height is above the number of nodes.
BalanceOf(t, L, K, x, d) ==
    /\ \E T, Old : Shape(t, L, T, K) /\ WalkingOn(t, L, T, x, d, Old)
    /\ \A n \in Node : t.height[n] <= N

InBalance == InShape /\ BalanceOf(tree, linked, key, node, isDelete)

\* An iteration of the walk keeps the balance.
LEMMA MovedBalance ==
    ASSUME NEW t, NEW L, NEW T, NEW K, Shape(t, L, T, K), \A n \in Node : t.height[n] <= N,
           NEW x, NEW d, NEW Old, Walking(t, L, T, x, d, Old),
           NEW top, NEW R, NEW V, NEW u, Moved(t, L, T, K, x, top, R, V, u),
           Kept(d, Old[x], top, R, u), NEW p, p = u.parent[top]
    PROVE  BalanceOf(u, L, K, p, d)
<1>0. /\ Tree(t, L, T) /\ x \in L /\ NULL \notin L /\ L \subseteq Node
      /\ Shape(u, L, V, K) /\ Tree(u, L, V) /\ R \subseteq T[x] /\ T[x] \subseteq L
      /\ V[top] = T[x] /\ top \in L /\ p = t.parent[x]
      /\ \A m \in Node \ R : u.height[m] = t.height[m]
  <2>1. Tree(t, L, T) /\ x \in L /\ NULL \notin L /\ L \subseteq Node
    BY NodeAssumption DEF Shape, Tree, Walking
  <2>2. /\ Shape(u, L, V, K) /\ Tree(u, L, V) /\ R \subseteq T[x] /\ top \in R
        /\ V[top] = T[x] /\ p = t.parent[x]
        /\ \A m \in Node \ R : u.height[m] = t.height[m]
    BY DEF Moved, Shape
  <2>3. T[x] \subseteq L
    BY <2>1, Nested
  <2> QED BY <2>1, <2>2, <2>3
<1>1. WalkingOn(u, L, V, p, d, Old)
  BY <1>0, MoveUp
<1>2. p \notin T[x]
  <2>1. p = NULL \/ (p \in L /\ p # x /\ x \in T[p])
    <3>1. CASE x = t.root
      BY <1>0, <3>1 DEF Tree
    <3>2. CASE x # t.root
      BY <1>0, <3>2, Above
    <3> QED BY <3>1, <3>2
  <2>2. p \in L /\ p # x /\ x \in T[p] => p \notin T[x]
    BY <1>0, OneAbove
  <2> QED BY <1>0, <2>1, <2>2
<1>3. ASSUME NEW m \in T[x]
      PROVE  Even(u, m)
  <2>1. m \in L /\ V[m] \subseteq T[x]
    <3>1. m \in V[top]
      BY <1>0
    <3> QED BY <1>0, <3>1, Nested
  <2>2. p \notin V[m]
    BY <1>2, <2>1
  <2> QED BY <1>1, <2>1, <2>2 DEF WalkingOn, Walking
<1>4. ASSUME NEW n \in Node
      PROVE  u.height[n] <= N
  <2>1. CASE n \in R
    <3>1. n \in L /\ V[n] \subseteq T[x]
      <4>1. n \in V[top]
        BY <1>0, <2>1
      <4> QED BY <1>0, <4>1, Nested
    <3>2. \A m \in V[n] : Even(u, m)
      BY <1>3, <3>1
    <3> QED BY <1>0, <3>1, <3>2, EvenLow
  <2>2. CASE n \notin R
    BY <1>0, <2>2
  <2> QED BY <2>1, <2>2
<1> QED BY <1>0, <1>1, <1>4 DEF BalanceOf

\* A state in the middle of a walk.
LEMMA WalkingIs ==
    ASSUME InBalance, node # NULL
    PROVE  \E T, Old : /\ Shape(tree, linked, T, key)
                       /\ Walking(tree, linked, T, node, isDelete, Old)
                       /\ \A n \in Node : tree.height[n] <= N
<1>1. PICK T, Old : /\ Shape(tree, linked, T, key)
                    /\ WalkingOn(tree, linked, T, node, isDelete, Old)
  BY DEF InBalance, BalanceOf
<1>2. Walking(tree, linked, T, node, isDelete, Old)
  BY <1>1 DEF WalkingOn
<1> QED BY <1>1, <1>2 DEF InBalance, BalanceOf

\* The nodes a walk at n has before it.
WayUp(t, n) == ToSet(Path(t.parent, n))

\* A walk in t at x goes on in u at p, and has less before it.
GoesUp(t, x, u, p) == x \in WayUp(t, x) /\ WayUp(u, p) \subseteq WayUp(t, x) \ {x}

LEMMA WayUpIs ==
    ASSUME NEW t, NEW L, NEW T, Tree(t, L, T), NEW n \in L
    PROVE  WayUp(t, n) = {m \in L : n \in T[m]}
<1>1. PICK w : w = Path(t.parent, n)
  OBVIOUS
<1>2. w \in Seq(L) /\ {w[i] : i \in 1..Len(w)} = {m \in L : n \in T[m]}
  <2>1. Walked(t.parent, L, n, w) /\ {w[i] : i \in 1..Len(w)} = {m \in L : n \in T[m]}
    BY <1>1, ClimbIs
  <2> QED BY <2>1 DEF Walked
<1>3. DOMAIN w = 1..Len(w)
  BY <1>2
<1> QED BY <1>1, <1>2, <1>3 DEF WayUp, ToSet

\* Whatever was rotated, the walk goes on above it, where nothing was.
LEMMA MovedGoesUp ==
    ASSUME NEW t, NEW L, NEW T, NEW K, Shape(t, L, T, K), NEW x \in L,
           NEW top, NEW R, NEW V, NEW u, Moved(t, L, T, K, x, top, R, V, u),
           NEW p, p = u.parent[top]
    PROVE  GoesUp(t, x, u, p)
<1>0. /\ Tree(t, L, T) /\ Tree(u, L, V) /\ R \subseteq T[x] /\ x \in R /\ top \in R
      /\ V[top] = T[x] /\ p = t.parent[x] /\ \A m \in L \ R : V[m] = T[m]
      /\ T[x] \subseteq L
  <2>1. Tree(t, L, T) /\ Tree(u, L, V)
    BY DEF Moved, Shape
  <2>2. T[x] \subseteq L
    BY <2>1, Nested
  <2> QED BY <2>1, <2>2 DEF Moved
<1>1. x \in WayUp(t, x) /\ WayUp(t, x) = {m \in L : x \in T[m]}
  BY <1>0, WayUpIs
<1>2. CASE x = t.root
  <2>1. p = NULL
    BY <1>0, <1>2 DEF Tree
  <2>2. WayUp(u, p) = {}
    BY <2>1, NoWay DEF WayUp, ToSet
  <2> QED BY <1>1, <2>2 DEF GoesUp
<1>3. CASE x # t.root
  <2>1. p \in L /\ p # x /\ x \in T[p]
    BY <1>0, <1>3, Above
  <2>2. p \notin T[x]
    BY <1>0, <2>1, OneAbove
  <2>3. WayUp(u, p) = {m \in L : p \in V[m]}
    BY <1>0, <2>1, WayUpIs
  <2>4. ASSUME NEW m \in L, p \in V[m]
        PROVE  x \in T[m] /\ m # x
    <3>1. m \notin R
      <4> SUFFICES ASSUME m \in R PROVE FALSE
        OBVIOUS
      <4>1. m \in V[top] /\ top \in L
        BY <1>0
      <4>2. V[m] \subseteq V[top]
        BY <1>0, <4>1, Nested
      <4> QED BY <1>0, <2>2, <2>4, <4>2
    <3>2. p \in T[m]
      BY <1>0, <2>4, <3>1
    <3>3. T[p] \subseteq T[m]
      BY <1>0, <3>2, Nested
    <3> QED BY <1>0, <2>1, <3>1, <3>3
  <2> QED BY <1>1, <2>3, <2>4 DEF GoesUp
<1> QED BY <1>2, <1>3

\* What a step of a walk keeps, and that it is a step towards its end.
LEMMA KeepShapeInBalance ==
    ASSUME InBalance, KeepShape
    PROVE  /\ BalanceOf(tree, linked, key, node, isDelete)'
           /\ GoesUp(tree, node, tree', node')
<1>1. PICK t, L, K, x, d : t = tree /\ L = linked /\ K = key /\ x = node /\ d = isDelete
  OBVIOUS
<1>2. PICK T, Old : /\ Shape(t, L, T, K) /\ Walking(t, L, T, x, d, Old)
                    /\ \A n \in Node : t.height[n] <= N
  BY <1>1, WalkingIs DEF KeepShape
<1>3. PICK u : u = RecalculateHeight(t, x)
  OBVIOUS
<1>4. /\ tree' = u /\ node' = t.parent[x] /\ linked' = L /\ key' = K /\ isDelete' = d
      /\ \A s \in Side : ~OnceOn(s) /\ ~TwiceOn(s)
  BY <1>1, <1>3 DEF KeepShape, GoUp
<1>5. \A s \in Side : Lean(t, x, s) # 2
  <2> SUFFICES ASSUME NEW s \in Side, Lean(t, x, s) = 2 PROVE FALSE
    OBVIOUS
  <2>1. PICK c : c = t.child[x][s]
    OBVIOUS
  <2>2. Tree(t, L, T) /\ d \in BOOLEAN
    BY <1>1, <1>2 DEF Shape, InBalance, InShape
  <2>3. HighChild(t, L, T, x, s, c)
    BY <1>2, <2>1, <2>2, HighChildIs
  <2>4. Lean(t, c, s) \in -1..1
    BY <2>3 DEF HighChild
  <2>5. ~d => Lean(t, c, s) # 0
    BY <1>2, <2>1, <2>2, HighWas
  <2>6. Lean(t, c, s) # 1 /\ (Lean(t, c, s) # 0 \/ ~d) /\ Lean(t, c, s) # -1
    BY <1>1, <1>4, <2>1 DEF OnceOn, TwiceOn
  <2> QED BY <2>4, <2>5, <2>6
<1>6. Moved(t, L, T, K, x, x, {x}, T, u) /\ Kept(d, Old[x], x, {x}, u)
  BY <1>2, <1>3, <1>5, KeepIs
<1>7. PICK p : p = u.parent[x]
  OBVIOUS
<1>8. p = t.parent[x]
  BY <1>6, <1>7 DEF Moved
<1>9. BalanceOf(u, L, K, p, d)
  BY <1>2, <1>6, <1>7, MovedBalance
<1>10. GoesUp(t, x, u, p)
  <2>1. x \in L
    BY <1>2 DEF Walking
  <2> QED BY <1>2, <1>6, <1>7, <2>1, MovedGoesUp
<1> QED BY <1>1, <1>4, <1>8, <1>9, <1>10

LEMMA RotateOnceInBalance ==
    ASSUME InBalance, RotateOnce
    PROVE  /\ BalanceOf(tree, linked, key, node, isDelete)'
           /\ GoesUp(tree, node, tree', node')
<1>1. PICK t, L, K, x, d : t = tree /\ L = linked /\ K = key /\ x = node /\ d = isDelete
  OBVIOUS
<1>2. PICK T, Old : /\ Shape(t, L, T, K) /\ Walking(t, L, T, x, d, Old)
                    /\ \A n \in Node : t.height[n] <= N
  BY <1>1, WalkingIs DEF RotateOnce
<1>3. PICK s \in Side :
         /\ Lean(t, x, s) = 2
         /\ Lean(t, t.child[x][s], s) = 1 \/ (Lean(t, t.child[x][s], s) = 0 /\ d)
         /\ GoUp(Rotate(t, x, Opposite(s)), t.child[x][s])
         /\ linked' = L /\ key' = K /\ isDelete' = d
  BY <1>1 DEF RotateOnce, OnceOn
<1>4. PICK c, u : c = t.child[x][s] /\ u = Rotate(t, x, Opposite(s))
  OBVIOUS
<1>5. x \in L /\ L \subseteq Node
  BY <1>2 DEF Walking, Shape, Tree
<1>6. c \in L /\ RotatedTo(t, L, T, K, x, Opposite(s), c, u)
  BY <1>2, <1>3, <1>4, <1>5, OnceIs
<1>7. PICK V : V = Turned(t, T, x, Opposite(s), c)
  OBVIOUS
<1>8. Moved(t, L, T, K, x, c, {x, c}, V, u)
  BY <1>2, <1>4, <1>5, <1>6, <1>7, OnceMoved, Zenon
<1>9. Lean(t, x, s) = 2 /\ (Lean(t, c, s) = 1 \/ (Lean(t, c, s) = 0 /\ d))
  BY <1>3, <1>4
<1>10. Kept(d, Old[x], c, {x, c}, u)
  BY <1>2, <1>4, <1>6, <1>9, OnceKept, Zenon
<1>11. PICK p : p = u.parent[c]
  OBVIOUS
<1>12. BalanceOf(u, L, K, p, d)
  BY <1>2, <1>8, <1>10, <1>11, MovedBalance
<1>13. TreeType(u) /\ c \in Node /\ u.height[c] = HeightFrom(u, c)
  BY <1>5, <1>6 DEF RotatedTo, RotatedLinks
<1>14. RecalculateHeight(u, c) = u
  BY <1>13, RecalculateAgain
<1>15. tree' = u /\ node' = p
  BY <1>3, <1>4, <1>11, <1>14 DEF GoUp
<1>16. GoesUp(t, x, u, p)
  BY <1>2, <1>5, <1>8, <1>11, MovedGoesUp
<1> QED BY <1>1, <1>3, <1>12, <1>15, <1>16

LEMMA RotateTwiceInBalance ==
    ASSUME InBalance, RotateTwice
    PROVE  /\ BalanceOf(tree, linked, key, node, isDelete)'
           /\ GoesUp(tree, node, tree', node')
<1>1. PICK t, L, K, x, d : t = tree /\ L = linked /\ K = key /\ x = node /\ d = isDelete
  OBVIOUS
<1>2. PICK T, Old : /\ Shape(t, L, T, K) /\ Walking(t, L, T, x, d, Old)
                    /\ \A n \in Node : t.height[n] <= N
  BY <1>1, WalkingIs DEF RotateTwice
<1>3. PICK s \in Side :
         LET c == t.child[x][s]
         IN  /\ Lean(t, x, s) = 2 /\ Lean(t, c, s) = -1
             /\ GoUp(Rotate(Rotate(t, c, s), x, Opposite(s)), t.child[c][Opposite(s)])
             /\ linked' = L /\ key' = K /\ isDelete' = d
  BY <1>1 DEF RotateTwice, TwiceOn
<1>4. PICK c, g : c = t.child[x][s] /\ g = t.child[c][Opposite(s)]
  BY Zenon
<1>5. PICK v : v = Rotate(t, c, s)
  OBVIOUS
<1>6. PICK u : u = Rotate(v, x, Opposite(s))
  OBVIOUS
<1>7. /\ Lean(t, x, s) = 2 /\ Lean(t, c, s) = -1 /\ GoUp(u, g)
      /\ linked' = L /\ key' = K /\ isDelete' = d
  BY <1>3, <1>4, <1>5, <1>6
<1>8. x \in L /\ L \subseteq Node /\ Tree(t, L, T)
  BY <1>2 DEF Walking, Shape, Tree
<1>9. HighChild(t, L, T, x, s, c)
  BY <1>2, <1>4, <1>7, <1>8, HighChildIs
<1>10. c # NULL /\ g # NULL /\ g \in L
  <2>1. g \in L /\ g # NULL
    BY <1>2, <1>4, <1>7, <1>8, <1>9, InnerIs
  <2> QED BY <1>9, <2>1 DEF HighChild
<1>11. /\ \E V : Moved(t, L, T, K, x, g, {x, c, g}, V, u)
       /\ Twisted(t, x, s, c, g, u)
  BY <1>2, <1>4, <1>5, <1>6, <1>8, <1>10, TwiceIs
<1>12. PICK V : Moved(t, L, T, K, x, g, {x, c, g}, V, u)
  BY <1>11
<1>13. TreeType(u) /\ \A m \in Node \ {x, c, g} : u.height[m] = t.height[m]
  BY <1>12 DEF Moved, Shape, Tree
<1>14. Kept(d, Old[x], g, {x, c, g}, u)
  BY <1>2, <1>4, <1>7, <1>11, <1>13, TwiceKept, Zenon
<1>15. PICK p : p = u.parent[g]
  OBVIOUS
<1>16. BalanceOf(u, L, K, p, d)
  BY <1>2, <1>12, <1>14, <1>15, MovedBalance
<1>17. g \in Node /\ u.height[g] = HeightFrom(u, g)
  BY <1>8, <1>10, <1>11 DEF Twisted
<1>18. RecalculateHeight(u, g) = u
  BY <1>13, <1>17, RecalculateAgain
<1>19. tree' = u /\ node' = p
  BY <1>7, <1>15, <1>18 DEF GoUp
<1>20. GoesUp(t, x, u, p)
  BY <1>2, <1>8, <1>12, <1>15, MovedGoesUp
<1> QED BY <1>1, <1>7, <1>16, <1>19, <1>20

\* A state between two calls.
AtRest(t, L, T, K) ==
    /\ Shape(t, L, T, K)
    /\ \A m \in L : Even(t, m)
    /\ \A n \in Node : t.height[n] <= N

LEMMA AtRestIs ==
    ASSUME InBalance, node = NULL
    PROVE  \E T : AtRest(tree, linked, T, key)
<1>1. PICK T, Old : /\ Shape(tree, linked, T, key)
                    /\ WalkingOn(tree, linked, T, node, isDelete, Old)
                    /\ \A n \in Node : tree.height[n] <= N
  BY DEF InBalance, BalanceOf
<1>2. \A m \in linked : Even(tree, m)
  BY <1>1 DEF WalkingOn
<1> QED BY <1>1, <1>2 DEF AtRest

\* What AtRest says of a node.
LEMMA RestIs ==
    ASSUME NEW t, NEW L, NEW T, NEW K, AtRest(t, L, T, K)
    PROVE  /\ Tree(t, L, T) /\ TreeType(t) /\ L \subseteq Node /\ NULL \notin L
           /\ NULL \notin Node /\ t.height \in [Node -> Nat]
           /\ \A m \in L : Even(t, m)
           /\ \A n \in Node : t.height[n] <= N
  BY NodeAssumption DEF AtRest, Shape, Tree, TreeType

LEMMA SomeNode ==
    ASSUME NEW n \in Node
    PROVE  1 <= N
<1>1. N # 0
  BY NodeAssumption, FS_EmptySet DEF N
<1> QED BY <1>1, Count

LEMMA LeafEven ==
    ASSUME NEW u, TreeType(u), NEW n \in Node, u.height[n] = 1,
           \A r \in Side : u.child[n][r] = NULL
    PROVE  Even(u, n)
<1>1. "left" \in Side /\ Opposite("left") \in Side
  BY DEF Side, Opposite
<1>2. On(u, n, "left") = 0 /\ On(u, n, Opposite("left")) = 0
  BY <1>1 DEF On, GetHeight
<1>3. 1 + Higher(0, 0) = 1 /\ Near(0, 0)
  BY DEF Higher, Near
<1> QED BY <1>1, <1>2, <1>3, EvenIs

\* A linked node is one high at least, and then has no children.
LEMMA LeafIs ==
    ASSUME NEW t, NEW L, NEW T, NEW K, AtRest(t, L, T, K), NEW n \in L
    PROVE  /\ t.height[n] \in Nat /\ t.height[n] >= 1
           /\ (\A r \in Side : t.child[n][r] = NULL) <=> t.height[n] = 1
<1>0. Tree(t, L, T) /\ TreeType(t) /\ L \subseteq Node /\ \A m \in L : Even(t, m)
  BY RestIs
<1>1. T[n] \subseteq L /\ n \in Node /\ \A r \in Side : t.child[n][r] # NULL => t.child[n][r] \in L
  <2>1. \A r \in Side : t.child[n][r] # NULL => t.child[n][r] \in L
    BY <1>0, TwoSides
  <2> QED BY <1>0, <2>1, TwoSides DEF Side
<1>2. \A m \in L : t.height[m] >= 1 /\ t.height[m] \in Nat
  <2>1. \A m \in L : T[m] \subseteq L
    BY <1>0, TwoSides DEF Side
  <2>2. \A m \in L : t.height[m] >= 1
    BY <1>0, <2>1, EvenLow
  <2> QED BY <1>0, <2>2 DEF TreeType
<1>3. PICK a, b : a = On(t, n, "left") /\ b = On(t, n, "right")
  OBVIOUS
<1>4. /\ a \in Nat /\ b \in Nat /\ t.height[n] = 1 + Higher(a, b)
  <2>1. "left" \in Side /\ Opposite("left") = "right"
    BY DEF Side, Opposite
  <2> QED BY <1>0, <1>1, <1>3, <2>1, EvenIs
<1>5. t.child[n]["left"] = NULL <=> a = 0
  BY <1>1, <1>2, <1>3 DEF On, GetHeight, Side
<1>6. t.child[n]["right"] = NULL <=> b = 0
  BY <1>1, <1>2, <1>3 DEF On, GetHeight, Side
<1>7. 1 + Higher(a, b) = 1 <=> a = 0 /\ b = 0
  BY <1>4 DEF Higher
<1> QED BY <1>2, <1>4, <1>5, <1>6, <1>7 DEF Side


\* A new leaf is under p: the walk begins at p.
LEMMA HungBalance ==
    ASSUME NEW t, NEW L, NEW T, NEW K, AtRest(t, L, T, K), NEW n \in Node, n \notin L,
           NEW J, NEW p, NEW s, NEW u, HungAfter(t, L, T, J, n, p, s, u)
    PROVE  BalanceOf(u, L \union {n}, J, p, FALSE)
<1>0. /\ Tree(t, L, T) /\ TreeType(t) /\ L \subseteq Node /\ NULL \notin L
      /\ NULL \notin Node /\ t.height \in [Node -> Nat]
      /\ \A m \in L : Even(t, m)
      /\ \A m \in Node : t.height[m] <= N
  BY RestIs
<1>1. /\ p \in L /\ s \in Side /\ t.child[p][s] = NULL /\ p # n
      /\ u.height[n] = 1 /\ \A m \in Node \ {n} : u.height[m] = t.height[m]
      /\ \A r \in Side : u.child[n][r] = NULL
      /\ \A a \in L, r \in Side : u.child[a][r] = IF a = p /\ r = s THEN n ELSE t.child[a][r]
      /\ TreeType(u)
  BY DEF HungAfter, HungLinks
<1>2. PICK V : V = HungIn(T, n, p)
  OBVIOUS
<1>3. Shape(u, L \union {n}, V, J) /\ Tree(u, L \union {n}, V)
  BY <1>2 DEF HungAfter, Shape
<1>4. ASSUME NEW a \in L, NEW r \in Side, ~(a = p /\ r = s)
      PROVE  u.child[a][r] = t.child[a][r] /\ On(u, a, r) = On(t, a, r)
  <2>1. PICK z : z = t.child[a][r]
    OBVIOUS
  <2>2. z # NULL => z \in L
    BY <1>0, <2>1, ChildIs DEF Below
  <2>3. z # NULL => u.height[z] = t.height[z]
    BY <1>0, <1>1, <2>2
  <2>4. u.child[a][r] = z
    BY <1>1, <1>4, <2>1
  <2> QED BY <2>1, <2>3, <2>4 DEF On, GetHeight
<1>5. \A a \in L : p \in V[a] => p \in T[a]
  BY <1>0, <1>1, <1>2 DEF HungIn
<1>6. V[n] = {n}
  BY <1>2 DEF HungIn
<1>7. \A a \in L : p \in T[a] => p \in V[a]
  BY <1>0, <1>1, <1>2 DEF HungIn
<1>8. p \in T[p]
  BY <1>0, <1>1, TwoSides
<1>9. ASSUME NEW m \in L \union {n}, p \notin V[m]
      PROVE  Even(u, m)
  <2>1. CASE m = n
    BY <1>1, <2>1, LeafEven
  <2>2. CASE m \in L
    <3>1. m # p
      BY <1>7, <1>8, <1>9, <2>2
    <3>2. \A r \in Side : On(u, m, r) = On(t, m, r)
      BY <1>4, <2>2, <3>1
    <3>3. u.height[m] = t.height[m] /\ Even(t, m)
      BY <1>0, <1>1, <2>2
    <3> QED BY <3>2, <3>3, EvenAs
  <2> QED BY <2>1, <2>2
<1>10. ASSUME NEW m \in L \union {n}, NEW k \in Side, p \in Under(u, V, m, k)
       PROVE  Was(u, m, k, t.height[u.child[m][k]], t.height[m])
  <2>1. PICK z : z = u.child[m][k]
    OBVIOUS
  <2>2. z # NULL /\ p \in V[z] /\ m # n /\ m \in L
    BY <1>1, <1>10, <2>1 DEF Under
  <2>3. m # p
    BY <1>3, <1>10, TwoSides
  <2>4. Opposite(k) \in Side
    BY Sides
  <2>5. On(u, m, Opposite(k)) = On(t, m, Opposite(k)) /\ t.child[m][k] = z
    BY <1>4, <2>1, <2>2, <2>3, <2>4
  <2>6. Was(u, m, k, On(t, m, k), t.height[m])
    BY <1>0, <2>2, <2>5, WasEven
  <2>7. On(t, m, k) = t.height[z]
    BY <2>2, <2>5 DEF On, GetHeight
  <2> QED BY <2>1, <2>6, <2>7
<1>11. At(u, p, FALSE, t.height[p])
  <2>1. Opposite(s) \in Side /\ Opposite(s) # s
    BY <1>1, Sides
  <2>2. On(u, p, Opposite(s)) = On(t, p, Opposite(s))
    BY <1>1, <1>4, <2>1
  <2>3. Was(u, p, s, On(t, p, s), t.height[p])
    BY <1>0, <1>1, <2>2, WasEven
  <2>4. On(t, p, s) = 0
    BY <1>1 DEF On, GetHeight
  <2>5. On(u, p, s) = 1
    <3>1. u.child[p][s] = n /\ n # NULL
      BY <1>0, <1>1
    <3> QED BY <1>1, <3>1 DEF On, GetHeight
  <2>6. Was(u, p, s, 0, t.height[p]) /\ Grown(FALSE, 0, On(u, p, s))
    BY <2>3, <2>4, <2>5 DEF Grown
  <2>7. s \in Side /\ 0 \in Nat /\ ~(0 > 0)
    BY <1>1
  <2> QED BY <2>6, <2>7, Zenon DEF At
<1>12. Walking(u, L \union {n}, V, p, FALSE, t.height)
  BY <1>0, <1>1, <1>9, <1>10, <1>11, Zenon DEF Walking
<1>13. WalkingOn(u, L \union {n}, V, p, FALSE, t.height)
  BY <1>0, <1>1, <1>12, Zenon DEF WalkingOn
<1>14. \A m \in Node : u.height[m] <= N
  BY <1>0, <1>1, SomeNode
<1> QED BY <1>3, <1>13, <1>14, Zenon DEF BalanceOf

\* u with the heights before a remove, w, is even but at x; where x is not, these
\* are the heights of u.
Began(u, M, V, w, x) ==
    /\ TreeType(w) /\ w.child = u.child
    /\ \A m \in M \ {x} : Even(w, m)
    /\ \A m \in M : x \notin V[m] => u.height[m] = w.height[m]

LEMMA BeganBalance ==
    ASSUME NEW u, NEW M, NEW V, NEW J, Shape(u, M, V, J), NEW x \in M, NEW d,
           NEW w, Began(u, M, V, w, x), At(u, x, d, w.height[x]),
           \A n \in Node : u.height[n] <= N
    PROVE  BalanceOf(u, M, J, x, d)
<1>0. /\ Tree(u, M, V) /\ TreeType(u) /\ TreeType(w) /\ w.child = u.child /\ M \subseteq Node
      /\ NULL \notin M /\ NULL \notin Node
      /\ w.height \in [Node -> Nat]
      /\ \A m \in M \ {x} : Even(w, m)
      /\ \A m \in M : x \notin V[m] => u.height[m] = w.height[m]
  BY NodeAssumption DEF Shape, Tree, Began, TreeType
<1>1. ASSUME NEW m \in M, NEW r \in Side, x \notin Under(u, V, m, r)
      PROVE  On(u, m, r) = On(w, m, r)
  <2>1. PICK z : z = u.child[m][r]
    OBVIOUS
  <2>2. z # NULL => z \in M
    BY <1>0, <2>1, ChildIs DEF Below
  <2>3. z # NULL => x \notin V[z]
    BY <1>1, <2>1 DEF Under
  <2>4. z # NULL => u.height[z] = w.height[z]
    BY <1>0, <2>2, <2>3
  <2> QED BY <1>0, <2>1, <2>4 DEF On, GetHeight
<1>2. ASSUME NEW m \in M, x \notin V[m]
      PROVE  Even(u, m)
  <2>1. m # x
    BY <1>0, <1>2, TwoSides DEF Side
  <2>2. \A r \in Side : x \notin Under(u, V, m, r)
    BY <1>0, <1>2, TwoSides
  <2>3. \A r \in Side : On(u, m, r) = On(w, m, r)
    BY <1>1, <2>2
  <2>4. u.height[m] = w.height[m] /\ Even(w, m)
    BY <1>0, <1>2, <2>1
  <2> QED BY <2>3, <2>4, EvenAs
<1>3. ASSUME NEW m \in M, NEW k \in Side, x \in Under(u, V, m, k)
      PROVE  Was(u, m, k, w.height[u.child[m][k]], w.height[m])
  <2>1. m # x /\ x \notin Under(u, V, m, Opposite(k)) /\ Opposite(k) \in Side
    BY <1>0, <1>3, TwoSides, Sides
  <2>2. On(u, m, Opposite(k)) = On(w, m, Opposite(k))
    BY <1>1, <2>1
  <2>3. Even(w, m) /\ m \in Node
    BY <1>0, <2>1
  <2>4. Was(u, m, k, On(w, m, k), w.height[m])
    BY <1>0, <2>2, <2>3, WasEven
  <2>5. u.child[m][k] # NULL
    BY <1>3 DEF Under
  <2>6. On(w, m, k) = w.height[u.child[m][k]]
    BY <1>0, <2>5 DEF On, GetHeight
  <2> QED BY <2>4, <2>6
<1>4. Walking(u, M, V, x, d, w.height)
  BY <1>0, <1>2, <1>3 DEF Walking
<1>5. WalkingOn(u, M, V, x, d, w.height)
  BY <1>0, <1>4 DEF WalkingOn
<1> QED BY <1>5 DEF BalanceOf

\* u with other heights.
WithHeight(u, Old) == [u EXCEPT !.height = Old]

LEMMA WithHeightIs ==
    ASSUME NEW u, TreeType(u), NEW Old \in [Node -> Nat], NEW w, w = WithHeight(u, Old)
    PROVE  TreeType(w) /\ w.child = u.child /\ w.height = Old
  BY DEF TreeType, WithHeight

\* The nodes of the tree without n.
LEMMA WithoutIs ==
    ASSUME NEW t, NEW L, NEW T, NEW K, NEW n, NEW c, NEW u, TakenAfter(t, L, T, K, n, c, u)
    PROVE  /\ Shape(u, L \ {n}, Without(T, n), K) /\ TreeType(u) /\ u.height = t.height
           /\ \A a \in L \ {n}, r \in Side :
                 u.child[a][r] = IF t.child[a][r] = n THEN c ELSE t.child[a][r]
  BY DEF TakenAfter, Shape, Tree

\* A leaf is taken out: the walk begins at its parent.
LEMMA LeafBalance ==
    ASSUME NEW t, NEW L, NEW T, NEW K, AtRest(t, L, T, K), NEW n \in L,
           \A r \in Side : t.child[n][r] = NULL, NEW u, TakenAfter(t, L, T, K, n, NULL, u),
           NEW q, q = t.parent[n]
    PROVE  BalanceOf(u, L \ {n}, K, q, TRUE)
<1>0. /\ Tree(t, L, T) /\ TreeType(t) /\ L \subseteq Node /\ NULL \notin L
      /\ NULL \notin Node /\ t.height \in [Node -> Nat]
      /\ \A m \in L : Even(t, m)
      /\ \A m \in Node : t.height[m] <= N
  BY RestIs
<1>1. PICK M, V : M = L \ {n} /\ V = Without(T, n)
  BY Zenon
<1>2. /\ Shape(u, M, V, K) /\ TreeType(u) /\ u.height = t.height
      /\ \A a \in M, r \in Side :
            u.child[a][r] = IF t.child[a][r] = n THEN NULL ELSE t.child[a][r]
  BY <1>1, WithoutIs
<1>3. CASE q = NULL
  <2>1. n = t.root
    <3>1. n # t.root => t.parent[n] \in L
      BY <1>0 DEF Tree
    <3> QED BY <1>0, <1>3, <3>1
  <2>2. L = T[n]
    BY <1>0, <2>1 DEF Tree
  <2>3. T[n] = {n}
    <3>1. \A r \in Side : Under(t, T, n, r) = {}
      BY DEF Under
    <3>2. "left" \in Side /\ Opposite("left") \in Side
      BY DEF Side, Opposite
    <3>3. T[n] = {n} \union Under(t, T, n, "left") \union Under(t, T, n, Opposite("left"))
      BY <1>0, <3>2, TwoSides
    <3> QED BY <3>1, <3>2, <3>3
  <2>4. \A m \in M : Even(u, m)
    BY <1>1, <2>2, <2>3
  <2>5. WalkingOn(u, M, V, q, TRUE, t.height)
    BY <1>3, <2>4 DEF WalkingOn
  <2> QED BY <1>0, <1>1, <1>2, <2>5, Zenon DEF BalanceOf
<1>4. CASE q # NULL
  <2>1. q \in L /\ q # n
    <3>1. n # t.root
      BY <1>0, <1>4 DEF Tree
    <3> QED BY <1>0, <3>1, Above
  <2>2. PICK s \in Side : t.child[q][s] = n
    <3>1. n # t.root
      BY <1>0, <1>4 DEF Tree
    <3> QED BY <1>0, <3>1 DEF Tree
  <2>3. ASSUME NEW m \in M, NEW r \in Side, t.child[m][r] # n
        PROVE  On(u, m, r) = On(t, m, r)
    BY <1>2, <2>3 DEF On, GetHeight
  <2>4. ASSUME NEW m \in M \ {q}
        PROVE  Even(u, m)
    <3>1. ASSUME NEW r \in Side
          PROVE  t.child[m][r] # n
      <4> SUFFICES ASSUME t.child[m][r] = n PROVE FALSE
        OBVIOUS
      <4>1. Below(t, L, T, m, n)
        BY <1>0, <1>1, ChildIs
      <4> QED BY <2>4, <4>1 DEF Below
    <3>2. \A r \in Side : On(u, m, r) = On(t, m, r)
      BY <2>3, <3>1
    <3>3. u.height[m] = t.height[m] /\ Even(t, m)
      BY <1>0, <1>1, <1>2
    <3> QED BY <3>2, <3>3, EvenAs
  <2>5. Began(u, M, V, u, q)
    BY <1>2, <2>4 DEF Began
  <2>6. At(u, q, TRUE, u.height[q])
    <3>1. Opposite(s) \in Side /\ t.child[q][Opposite(s)] # n
      BY <1>0, <2>1, <2>2, Sides, TwoSides
    <3>2. On(u, q, Opposite(s)) = On(t, q, Opposite(s))
      BY <1>1, <2>1, <2>3, <3>1
    <3>3. Was(u, q, s, On(t, q, s), t.height[q])
      BY <1>0, <2>1, <2>2, <3>2, WasEven
    <3>4. On(t, q, s) = 1
      <4>1. t.height[n] = 1
        BY LeafIs
      <4> QED BY <1>0, <2>2, <4>1 DEF On, GetHeight
    <3>5. On(u, q, s) = 0
      BY <1>1, <1>2, <2>1, <2>2 DEF On, GetHeight
    <3>6. Was(u, q, s, 1, u.height[q]) /\ Grown(TRUE, 1, On(u, q, s))
      BY <1>2, <3>3, <3>4, <3>5 DEF Grown
    <3>7. 1 \in Nat /\ s \in Side
      BY <2>2
    <3> QED BY <3>6, <3>7, Zenon DEF At
  <2>7. q \in M /\ \A m \in Node : u.height[m] <= N
    BY <1>0, <1>1, <1>2, <2>1
  <2>8. BalanceOf(u, M, K, q, TRUE)
    BY <1>2, <2>5, <2>6, <2>7, BeganBalance, Zenon
  <2> QED BY <1>1, <2>8, Zenon
<1> QED BY <1>3, <1>4, Zenon

\* A node with one child is taken out: the walk begins at the child.
LEMMA ChildBalance ==
    ASSUME NEW t, NEW L, NEW T, NEW K, AtRest(t, L, T, K), NEW n \in L, NEW s \in Side,
           t.child[n][Opposite(s)] = NULL, NEW c, c = t.child[n][s], c # NULL,
           NEW u, TakenAfter(t, L, T, K, n, c, u)
    PROVE  BalanceOf(u, L \ {n}, K, c, TRUE)
<1>0. /\ Tree(t, L, T) /\ TreeType(t) /\ L \subseteq Node /\ NULL \notin L
      /\ NULL \notin Node /\ t.height \in [Node -> Nat]
      /\ \A m \in L : Even(t, m)
      /\ \A m \in Node : t.height[m] <= N
  BY RestIs
<1>1. PICK M, V : M = L \ {n} /\ V = Without(T, n)
  BY Zenon
<1>2. /\ Shape(u, M, V, K) /\ TreeType(u) /\ u.height = t.height
      /\ \A a \in M, r \in Side :
            u.child[a][r] = IF t.child[a][r] = n THEN c ELSE t.child[a][r]
  BY <1>1, WithoutIs
<1>3. c \in L /\ c # n /\ t.parent[c] = n /\ c \in Node /\ c \in M /\ n \in Node
  <2>1. Below(t, L, T, n, c)
    BY <1>0, ChildIs
  <2> QED BY <1>0, <1>1, <2>1 DEF Below
<1>4. t.height[c] = 1 /\ t.height[n] = 2
  <2>1. On(t, n, s) = t.height[c] /\ On(t, n, Opposite(s)) = 0
    BY DEF On, GetHeight
  <2>2. t.height[c] \in Nat /\ t.height[c] >= 1
    BY <1>3, LeafIs
  <2>3. t.height[n] = 1 + Higher(t.height[c], 0) /\ Near(t.height[c], 0)
    BY <1>0, <1>3, <2>1, EvenIs
  <2> QED BY ONLY <2>2, <2>3 DEF Higher, Near
<1>5. \A r \in Side : t.child[c][r] = NULL
  BY <1>3, <1>4, LeafIs
<1>6. \A r \in Side : On(u, c, r) = 0
  BY <1>0, <1>2, <1>3, <1>5 DEF On, GetHeight
<1>7. PICK Old : Old = [t.height EXCEPT ![c] = t.height[n]]
  BY Zenon
<1>8. /\ Old \in [Node -> Nat] /\ Old[c] = 2
      /\ \A m \in Node \ {c} : Old[m] = t.height[m]
  BY <1>0, <1>3, <1>4, <1>7
<1>9. PICK w : w = WithHeight(u, Old)
  OBVIOUS
<1>10. TreeType(w) /\ w.child = u.child /\ w.height = Old
  BY <1>2, <1>8, <1>9, WithHeightIs
<1>11. ASSUME NEW m \in M \ {c}
       PROVE  Even(w, m)
  <2>1. ASSUME NEW r \in Side
        PROVE  On(w, m, r) = On(t, m, r)
    <3>1. PICK z : z = t.child[m][r]
      OBVIOUS
    <3>2. z # NULL => z \in L /\ t.parent[z] = m
      BY <1>0, <1>1, <3>1, ChildIs DEF Below
    <3>3. z # c
      BY <1>0, <1>1, <1>3, <3>2
    <3>4. CASE z = n
      <4>1. w.child[m][r] = c
        BY <1>2, <1>10, <3>1, <3>4, Zenon
      <4> QED BY <1>0, <1>4, <1>8, <1>10, <3>1, <3>4, <4>1 DEF On, GetHeight
    <3>5. CASE z # n
      <4>1. w.child[m][r] = z
        BY <1>2, <1>10, <3>1, <3>5
      <4>2. z # NULL => Old[z] = t.height[z]
        BY <1>0, <1>8, <3>2, <3>3
      <4> QED BY <1>10, <3>1, <4>1, <4>2 DEF On, GetHeight
    <3> QED BY <3>4, <3>5
  <2>2. w.height[m] = t.height[m] /\ Even(t, m)
    BY <1>0, <1>1, <1>8, <1>10
  <2> QED BY <2>1, <2>2, EvenAs
<1>12. ASSUME NEW m \in M, c \notin V[m]
       PROVE  u.height[m] = w.height[m]
  <2>1. c \in V[c]
    BY <1>2, <1>3, TwoSides DEF Shape
  <2> QED BY <1>0, <1>1, <1>2, <1>8, <1>10, <1>12, <2>1
<1>13. Began(u, M, V, w, c)
  BY <1>10, <1>11, <1>12 DEF Began
<1>14. At(u, c, TRUE, w.height[c])
  <2>1. "left" \in Side /\ Opposite("left") \in Side /\ 1 \in Nat
    BY DEF Side, Opposite
  <2>2. On(u, c, "left") = 0 /\ On(u, c, Opposite("left")) = 0
    BY <1>6, <2>1
  <2>3. Was(u, c, "left", 1, 2) /\ Grown(TRUE, 1, On(u, c, "left"))
    BY <2>2 DEF Was, Near, Higher, Grown
  <2> QED BY <1>8, <1>10, <2>1, <2>3, Zenon DEF At
<1>15. \A m \in Node : u.height[m] <= N
  BY <1>0, <1>2
<1>16. BalanceOf(u, M, K, c, TRUE)
  BY <1>2, <1>3, <1>13, <1>14, <1>15, BeganBalance, Zenon
<1> QED BY <1>1, <1>16, Zenon

\* What the removal of a node n with two children leaves, Old the heights with that of n
\* at its successor v.
Swap(t, L, T, K, n, v, c, u, M, V, Old, w) ==
    /\ Shape(u, M, V, K) /\ TreeType(u) /\ u.height = t.height
    /\ M = L \ {n} /\ v \in M /\ n \in L /\ v \in T[n] /\ n \notin T[v]
    /\ V[v] = T[n] \ {n}
    /\ \A r \in Side : u.child[v][r] = IF t.child[n][r] = v THEN c ELSE t.child[n][r]
    /\ \A a \in M \ {v}, r \in Side :
          u.child[a][r] = IF t.child[a][r] = n THEN v
                          ELSE IF t.child[a][r] = v THEN c ELSE t.child[a][r]
    /\ c = t.child[v]["right"] /\ t.child[v]["left"] = NULL
    /\ Old[v] = t.height[n] /\ \A m \in Node \ {v} : Old[m] = t.height[m]
    /\ TreeType(w) /\ w.child = u.child /\ w.height = Old

LEMMA SwapIs ==
    ASSUME NEW t, NEW L, NEW T, NEW K, AtRest(t, L, T, K), NEW n \in L,
           NEW v, Succeeds(t, L, T, K, n, v), NEW c, c = t.child[v]["right"],
           NEW u, SwappedAfter(t, L, T, K, n, v, c, u)
    PROVE  \E M, V, Old, w : Swap(t, L, T, K, n, v, c, u, M, V, Old, w)
<1>0. Tree(t, L, T) /\ TreeType(t) /\ L \subseteq Node /\ t.height \in [Node -> Nat]
  BY RestIs
<1>1. /\ v \in L /\ v # n /\ v \in Under(t, T, n, "right") /\ t.child[v]["left"] = NULL
      /\ n \notin T[v] /\ v \in Node /\ n \in Node
  BY <1>0 DEF Succeeds
<1>2. "right" \in Side /\ v \in T[n]
  <2>1. "right" \in Side
    BY DEF Side
  <2> QED BY <1>0, <1>1, <2>1, TwoSides
<1>3. PICK M, V : M = L \ {n} /\ V = ReplacedIn(Without(T, v), n, v)
  BY Zenon
<1>4. V[v] = T[n] \ {n}
  <2>1. Without(T, v)[n] = T[n] \ {v}
    BY <1>1 DEF Without
  <2>2. V[v] = (Without(T, v)[n] \ {n}) \union {v}
    BY <1>1, <1>3 DEF ReplacedIn
  <2> QED BY <1>1, <1>2, <2>1, <2>2
<1>5. PICK Old : Old = [t.height EXCEPT ![v] = t.height[n]]
  BY Zenon
<1>6. Old \in [Node -> Nat] /\ Old[v] = t.height[n] /\ \A m \in Node \ {v} : Old[m] = t.height[m]
  BY <1>0, <1>1, <1>5
<1>7. /\ Shape(u, M, V, K) /\ TreeType(u) /\ u.height = t.height
      /\ \A r \in Side : u.child[v][r] = IF t.child[n][r] = v THEN c ELSE t.child[n][r]
      /\ \A a \in M \ {v}, r \in Side :
            u.child[a][r] = IF t.child[a][r] = n THEN v
                            ELSE IF t.child[a][r] = v THEN c ELSE t.child[a][r]
  <2>1. M \ {v} = L \ {n, v}
    BY <1>3
  <2> QED BY <1>3, <2>1, Zenon DEF SwappedAfter, Shape, Tree
<1>8. PICK w : w = WithHeight(u, Old)
  OBVIOUS
<1>9. TreeType(w) /\ w.child = u.child /\ w.height = Old
  BY <1>6, <1>7, <1>8, WithHeightIs
<1>10. v \in M
  BY <1>1, <1>3
<1>11. Swap(t, L, T, K, n, v, c, u, M, V, Old, w)
  BY <1>1, <1>2, <1>3, <1>4, <1>6, <1>7, <1>9, <1>10 DEF Swap
<1> QED BY <1>11

\* The nodes that have not been moved nor lost a child are as even as they were.
LEMMA SwapEven ==
    ASSUME NEW t, NEW L, NEW T, NEW K, AtRest(t, L, T, K), NEW n, NEW v, NEW c, NEW u,
           NEW M, NEW V, NEW Old, NEW w, Swap(t, L, T, K, n, v, c, u, M, V, Old, w),
           NEW m \in M \ {v}, m # t.parent[v]
    PROVE  Even(w, m)
<1>0. /\ Tree(t, L, T) /\ L \subseteq Node /\ NULL \notin L /\ NULL \notin Node
      /\ \A k \in L : Even(t, k)
  BY RestIs
<1>1. /\ M = L \ {n} /\ v \in M /\ n \in L
      /\ \A a \in M \ {v}, r \in Side :
            u.child[a][r] = IF t.child[a][r] = n THEN v
                            ELSE IF t.child[a][r] = v THEN c ELSE t.child[a][r]
      /\ Old[v] = t.height[n] /\ \A k \in Node \ {v} : Old[k] = t.height[k]
      /\ w.child = u.child /\ w.height = Old
  BY DEF Swap
<1>2. ASSUME NEW r \in Side
      PROVE  On(w, m, r) = On(t, m, r)
  <2>1. PICK z : z = t.child[m][r]
    OBVIOUS
  <2>2. z # NULL => z \in L /\ t.parent[z] = m
    BY <1>0, <1>1, <2>1, ChildIs DEF Below
  <2>3. z # v
    BY <1>0, <1>1, <2>2
  <2>4. CASE z = n
    <3>1. w.child[m][r] = v
      BY <1>1, <2>1, <2>4, Zenon
    <3> QED BY <1>0, <1>1, <2>1, <2>4, <3>1 DEF On, GetHeight
  <2>5. CASE z # n
    <3>1. w.child[m][r] = z
      BY <1>1, <2>1, <2>3, <2>5
    <3>2. z # NULL => Old[z] = t.height[z]
      BY <1>0, <1>1, <2>2, <2>3
    <3> QED BY <1>1, <2>1, <3>1, <3>2 DEF On, GetHeight
  <2> QED BY <2>4, <2>5
<1>3. w.height[m] = t.height[m] /\ Even(t, m)
  BY <1>0, <1>1
<1> QED BY <1>2, <1>3, EvenAs

\* What is right of the successor is one lower than it.
LEMMA SuccessorHeight ==
    ASSUME NEW t, NEW L, NEW T, NEW K, AtRest(t, L, T, K), NEW v \in L,
           t.child[v]["left"] = NULL, NEW c, c = t.child[v]["right"]
    PROVE  GetHeight(t, c) = t.height[v] - 1 /\ t.height[v] \in Nat
<1>0. Tree(t, L, T) /\ TreeType(t) /\ v \in Node /\ Even(t, v)
  BY RestIs
<1>1. "right" \in Side /\ Opposite("right") = "left"
  BY DEF Side, Opposite
<1>2. On(t, v, "left") = 0 /\ On(t, v, "right") = GetHeight(t, c)
  BY DEF On, GetHeight
<1>3. PICK p : p = GetHeight(t, c)
  OBVIOUS
<1>4. t.height[v] = 1 + Higher(p, 0) /\ p \in Nat /\ t.height[v] \in Nat
  BY <1>0, <1>1, <1>2, <1>3, EvenIs
<1>5. t.height[v] = 1 + p
  BY ONLY <1>4 DEF Higher
<1> QED BY <1>3, <1>4, <1>5

\* A node with two children is taken out, and the successor is its right child: the walk
\* begins at the successor.
LEMMA NextBalance ==
    ASSUME NEW t, NEW L, NEW T, NEW K, AtRest(t, L, T, K), NEW n, NEW v, NEW c, NEW u,
           NEW M, NEW V, NEW Old, NEW w, Swap(t, L, T, K, n, v, c, u, M, V, Old, w),
           v \in Under(t, T, n, "right"), t.parent[v] = n
    PROVE  BalanceOf(u, M, K, v, TRUE)
<1>0. /\ Tree(t, L, T) /\ TreeType(t) /\ L \subseteq Node /\ NULL \notin L
      /\ NULL \notin Node /\ t.height \in [Node -> Nat]
      /\ \A m \in L : Even(t, m)
      /\ \A m \in Node : t.height[m] <= N
  BY RestIs
<1>1. /\ Shape(u, M, V, K) /\ Tree(u, M, V) /\ TreeType(u) /\ u.height = t.height
      /\ M = L \ {n} /\ v \in M /\ n \in L
      /\ \A r \in Side : u.child[v][r] = IF t.child[n][r] = v THEN c ELSE t.child[n][r]
      /\ c = t.child[v]["right"] /\ t.child[v]["left"] = NULL
      /\ Old[v] = t.height[n] /\ \A m \in Node \ {v} : Old[m] = t.height[m]
      /\ TreeType(w) /\ w.child = u.child /\ w.height = Old
  BY DEF Swap, Shape
<1>2. /\ "left" \in Side /\ "right" \in Side /\ Opposite("right") = "left"
      /\ Opposite("left") = "right"
  BY DEF Side, Opposite
<1>3. t.child[n]["right"] = v /\ t.child[n]["left"] # v
  <2>1. v # t.root
    BY <1>0, <1>1 DEF Tree
  <2>2. PICK r \in Side : t.child[n][r] = v
    BY <1>0, <1>1, <2>1 DEF Tree
  <2>3. v \in Under(t, T, n, r)
    BY <1>0, <1>1, <2>2, TwoSides
  <2>4. r = "right"
    <3>1. Under(t, T, n, "right") \intersect Under(t, T, n, "left") = {}
      BY <1>0, <1>1, <1>2, TwoSides
    <3> QED BY <2>3, <3>1 DEF Side
  <2>5. t.child[n]["right"] # t.child[n]["left"]
    BY <1>0, <1>1, <1>2, <2>2, <2>4, TwoSides
  <2> QED BY <2>2, <2>4, <2>5
<1>4. \A m \in M \ {v} : Even(w, m)
  BY <1>1, SwapEven
<1>5. ASSUME NEW m \in M, v \notin V[m]
      PROVE  u.height[m] = w.height[m]
  <2>1. v \in V[v]
    BY <1>1, <1>2, TwoSides
  <2> QED BY <1>0, <1>1, <1>5, <2>1
<1>6. Began(u, M, V, w, v)
  BY <1>1, <1>4, <1>5 DEF Began
<1>7. At(u, v, TRUE, w.height[v])
  <2>1. u.child[v]["left"] = t.child[n]["left"] /\ u.child[v]["right"] = c
    BY <1>1, <1>2, <1>3
  <2>2. On(u, v, Opposite("right")) = On(t, n, Opposite("right"))
    BY <1>1, <1>2, <2>1 DEF On, GetHeight
  <2>3. Was(u, v, "right", On(t, n, "right"), t.height[n])
    BY <1>0, <1>1, <1>2, <2>2, WasEven
  <2>4. On(t, n, "right") = t.height[v]
    BY <1>0, <1>1, <1>3 DEF On, GetHeight
  <2>5. GetHeight(t, c) = t.height[v] - 1 /\ t.height[v] \in Nat
    BY <1>1, SuccessorHeight
  <2>6. On(u, v, "right") = t.height[v] - 1
    BY <1>1, <2>1, <2>5 DEF On, GetHeight
  <2>7. Was(u, v, "right", t.height[v], t.height[n]) /\ Grown(TRUE, t.height[v], On(u, v, "right"))
    BY <2>3, <2>4, <2>6 DEF Grown
  <2> QED BY <1>1, <1>2, <2>5, <2>7, Zenon DEF At
<1>8. \A m \in Node : u.height[m] <= N
  BY <1>0, <1>1
<1> QED BY <1>1, <1>6, <1>7, <1>8, BeganBalance, Zenon

\* The successor is further down: the walk begins at its parent.
LEMMA FarBalance ==
    ASSUME NEW t, NEW L, NEW T, NEW K, AtRest(t, L, T, K), NEW n, NEW v, NEW c, NEW u,
           NEW M, NEW V, NEW Old, NEW w, Swap(t, L, T, K, n, v, c, u, M, V, Old, w),
           NEW q, q = t.parent[v], q # n
    PROVE  BalanceOf(u, M, K, q, TRUE)
<1>0. /\ Tree(t, L, T) /\ TreeType(t) /\ L \subseteq Node /\ NULL \notin L
      /\ NULL \notin Node /\ t.height \in [Node -> Nat]
      /\ \A m \in L : Even(t, m)
      /\ \A m \in Node : t.height[m] <= N
  BY RestIs
<1>1. /\ Shape(u, M, V, K) /\ Tree(u, M, V) /\ TreeType(u) /\ u.height = t.height
      /\ M = L \ {n} /\ v \in M /\ n \in L /\ v \in T[n] /\ n \notin T[v]
      /\ V[v] = T[n] \ {n}
      /\ \A r \in Side : u.child[v][r] = IF t.child[n][r] = v THEN c ELSE t.child[n][r]
      /\ \A a \in M \ {v}, r \in Side :
            u.child[a][r] = IF t.child[a][r] = n THEN v
                            ELSE IF t.child[a][r] = v THEN c ELSE t.child[a][r]
      /\ c = t.child[v]["right"] /\ t.child[v]["left"] = NULL
      /\ Old[v] = t.height[n] /\ \A m \in Node \ {v} : Old[m] = t.height[m]
      /\ TreeType(w) /\ w.child = u.child /\ w.height = Old
  BY DEF Swap, Shape
<1>2. v # t.root
  BY <1>0, <1>1 DEF Tree
<1>3. q \in L /\ q # v /\ q \in T[n] /\ q \in M
  <2>1. q \in L /\ q # v /\ \A m \in L : v \in T[m] <=> m = v \/ q \in T[m]
    BY <1>0, <1>1, <1>2, Above
  <2> QED BY <1>1, <2>1
<1>4. PICK s \in Side : t.child[q][s] = v
  BY <1>0, <1>1, <1>2 DEF Tree
<1>5. \A r \in Side : t.child[n][r] # v /\ t.child[q][r] # n
  <2>1. ASSUME NEW r \in Side, t.child[n][r] = v
        PROVE  FALSE
    <3>1. Below(t, L, T, n, v)
      BY <1>0, <1>1, <2>1, ChildIs
    <3> QED BY <3>1 DEF Below
  <2>2. ASSUME NEW r \in Side, t.child[q][r] = n
        PROVE  FALSE
    BY <1>0, <1>1, <1>3, <2>2, NotUp
  <2> QED BY <2>1, <2>2
<1>6. Even(w, v)
  <2>1. ASSUME NEW r \in Side
        PROVE  On(w, v, r) = On(t, n, r)
    <3>1. PICK z : z = t.child[n][r]
      OBVIOUS
    <3>2. z # v /\ w.child[v][r] = z
      BY <1>1, <1>5, <3>1
    <3>3. z # NULL => z \in L
      BY <1>0, <1>1, <3>1, ChildIs DEF Below
    <3>4. z # NULL => Old[z] = t.height[z]
      BY <1>0, <1>1, <3>2, <3>3
    <3> QED BY <1>1, <3>1, <3>2, <3>4 DEF On, GetHeight
  <2>2. w.height[v] = t.height[n] /\ Even(t, n)
    BY <1>0, <1>1
  <2> QED BY <2>1, <2>2, EvenAs
<1>7. \A m \in M \ {q} : Even(w, m)
  <2>1. \A m \in (M \ {v}) \ {q} : Even(w, m)
    BY SwapEven
  <2> QED BY <1>6, <2>1
<1>8. ASSUME NEW m \in M, q \notin V[m]
      PROVE  u.height[m] = w.height[m]
  <2>1. q \in V[v]
    BY <1>1, <1>3
  <2> QED BY <1>0, <1>1, <1>8, <2>1
<1>9. Began(u, M, V, w, q)
  BY <1>1, <1>7, <1>8 DEF Began
<1>10. At(u, q, TRUE, w.height[q])
  <2>1. Opposite(s) \in Side /\ t.child[q][Opposite(s)] # v
    BY <1>0, <1>1, <1>3, <1>4, Sides, TwoSides
  <2>2. v # n
    BY <1>1
  <2>3. u.child[q][Opposite(s)] = t.child[q][Opposite(s)] /\ u.child[q][s] = c
    BY <1>1, <1>3, <1>4, <1>5, <2>1, <2>2
  <2>4. On(u, q, Opposite(s)) = On(t, q, Opposite(s))
    BY <1>1, <2>3 DEF On, GetHeight
  <2>5. Was(u, q, s, On(t, q, s), t.height[q])
    BY <1>0, <1>3, <1>4, <2>4, WasEven
  <2>6. On(t, q, s) = t.height[v]
    BY <1>0, <1>1, <1>4 DEF On, GetHeight
  <2>7. GetHeight(t, c) = t.height[v] - 1 /\ t.height[v] \in Nat
    BY <1>1, SuccessorHeight
  <2>8. On(u, q, s) = t.height[v] - 1
    BY <1>1, <2>3, <2>7 DEF On, GetHeight
  <2>9. w.height[q] = t.height[q]
    BY <1>0, <1>1, <1>3
  <2>10. Was(u, q, s, t.height[v], w.height[q]) /\ Grown(TRUE, t.height[v], On(u, q, s))
    BY <2>5, <2>6, <2>8, <2>9 DEF Grown
  <2>11. s \in Side
    BY <1>4
  <2> QED BY <2>7, <2>10, <2>11, Zenon DEF At
<1>11. \A m \in Node : u.height[m] <= N
  BY <1>0, <1>1
<1> QED BY <1>1, <1>3, <1>9, <1>10, <1>11, BeganBalance, Zenon

LEMMA InsertNewInBalance ==
    ASSUME InBalance, NEW n \in Node, NEW k \in Key, InsertNew(n, k)
    PROVE  BalanceOf(tree, linked, key, node, isDelete)'
<1>1. /\ node = NULL /\ n \notin linked /\ key' = [key EXCEPT ![n] = k] /\ NodeFind(k) = NULL
      /\ linked' = linked \union {n} /\ node' = LastOnWay(k, Key) /\ isDelete' = FALSE
  BY DEF InsertNew, BeginInsert
<1>2. PICK t, L, K : t = tree /\ L = linked /\ K = key
  OBVIOUS
<1>3. PICK u, J, p : u = tree' /\ J = key' /\ p = LastOnWay(k, Key)
  OBVIOUS
<1>4. PICK T : AtRest(t, L, T, K)
  BY <1>1, <1>2, AtRestIs
<1>a. InShape
  BY DEF InBalance
<1>b. Shape(t, L, T, K) /\ \A m \in Node : t.height[m] <= N
  BY <1>4 DEF AtRest
<1>5. /\ L \subseteq Node /\ n \notin L /\ k \in Nat /\ n \in Node
      /\ K \in [Node -> Key \union {0}] /\ \A m \in L : K[m] \in Key
      /\ p = SearchIn(t, K, k, Key)
  BY <1>a, <1>1, <1>2, <1>3, KeyAssumption, SearchIs DEF InShape
<1>6. /\ J \in [Node -> Key \union {0}] /\ J[n] = k
      /\ \A m \in L : J[m] = K[m]
  BY <1>1, <1>2, <1>3, <1>5
<1>7. \A m \in L : K[m] # k
  <2>1. NULL \notin linked
    BY <1>a, NodeAssumption DEF InShape
  <2> QED BY <1>a, <1>1, <1>2, <2>1, NodeFindIs
<1>8. BalanceOf(u, L \union {n}, J, p, FALSE)
  <2>1. CASE L = {}
    <3>1. p = NULL
      BY <1>b, <1>5, <2>1, SearchEmpty
    <3>2. u = [Cleared(t, n) EXCEPT !.root = n]
      BY <1>2, <1>3, <3>1 DEF InsertNew
    <3>3. Ordered(t, L, T, J) /\ Tree(t, L, T)
      BY <1>b, <2>1 DEF Shape, Ordered
    <3>4. Shape(t, L, T, J) /\ J[n] \in Nat
      BY <1>5, <1>6, <3>3 DEF Shape
    <3>5. /\ Shape(u, {n}, AloneIn(n), J) /\ u.height[n] = 1
          /\ \A r \in Side : u.child[n][r] = NULL
          /\ \A m \in Node \ {n} : u.height[m] = t.height[m]
      <4>1. AloneAfter(t, n, J, u)
        BY <2>1, <3>2, <3>4, HungAloneIs
      <4> QED BY <4>1 DEF AloneAfter
    <3>6. TreeType(u)
      BY <3>5 DEF Shape, Tree
    <3>7. Even(u, n)
      BY <3>5, <3>6, LeafEven
    <3>8. WalkingOn(u, {n}, AloneIn(n), p, FALSE, t.height)
      BY <3>1, <3>7 DEF WalkingOn
    <3>9. \A m \in Node : u.height[m] <= N
      BY <1>b, <3>5, SomeNode
    <3>10. L \union {n} = {n}
      BY <2>1
    <3> QED BY <3>5, <3>8, <3>9, <3>10, Zenon DEF BalanceOf
  <2>2. CASE L # {}
    <3>1. PICK w : w = WayIn(t, K, k)
      OBVIOUS
    <3>2. p = w[Len(w)]
      BY <1>b, <1>5, <2>2, <3>1, ParentIs
    <3>3. p \in L
      <4>1. Searched(t, L, T, K, k, w)
        BY <1>b, <1>5, <2>2, <3>1, WayIs DEF Shape
      <4> QED BY <3>2, <4>1 DEF Searched
    <3>4. PICK s : s = (IF k < K[p] THEN "left" ELSE "right")
      OBVIOUS
    <3>5. u = HungOn(t, n, p, s)
      <4>1. p # NULL
        BY <1>5, <3>3, NodeAssumption
      <4> QED BY <1>2, <1>3, <3>4, <4>1 DEF InsertNew, HungOn
    <3>6. NewKey(L, K, n, k, J)
      BY <1>5, <1>6, <1>7 DEF NewKey
    <3>7. HungAfter(t, L, T, J, n, p, s, u)
      BY <1>b, <2>2, <3>1, <3>2, <3>4, <3>5, <3>6, HungOnIs
    <3> QED BY <1>4, <1>5, <3>7, HungBalance, Zenon
  <2> QED BY <2>1, <2>2, Zenon
<1> QED BY <1>1, <1>2, <1>3, <1>8, Zenon

LEMMA InsertExistingInBalance ==
    ASSUME InBalance, NEW n \in Node, NEW k \in Key, InsertExisting(n, k)
    PROVE  BalanceOf(tree, linked, key, node, isDelete)'
<1>1. /\ node = NULL /\ n \notin linked /\ key' = [key EXCEPT ![n] = k]
      /\ tree' = Cleared(tree, n) /\ linked' = linked /\ node' = node /\ isDelete' = isDelete
  BY DEF InsertExisting, BeginInsert
<1>2. PICK t, L, K, d : t = tree /\ L = linked /\ K = key /\ d = isDelete
  OBVIOUS
<1>3. PICK u, J : u = tree' /\ J = key'
  OBVIOUS
<1>4. PICK T : AtRest(t, L, T, K)
  BY <1>1, <1>2, AtRestIs
<1>5. /\ Tree(t, L, T) /\ TreeType(t) /\ L \subseteq Node /\ NULL \notin L
      /\ \A m \in L : Even(t, m)
      /\ \A m \in Node : t.height[m] <= N
  BY <1>4, RestIs
<1>6. n \notin L /\ K \in [Node -> Key \union {0}]
  BY <1>1, <1>2 DEF InBalance, InShape
<1>7. \A m \in L : J[m] = K[m]
  BY <1>1, <1>2, <1>3, <1>5, <1>6
<1>8. Shape(u, L, T, J)
  <2>1. Shape(t, L, T, K) /\ u = Cleared(t, n)
    BY <1>1, <1>2, <1>3, <1>4 DEF AtRest
  <2> QED BY <1>6, <1>7, <2>1, ClearedShape
<1>9. /\ \A m \in Node \ {n} : u.child[m] = t.child[m] /\ u.height[m] = t.height[m]
      /\ u.height[n] = 1
  <2>1. ClearedLinks(t, n, u)
    BY <1>1, <1>2, <1>3, <1>5, ClearedIs
  <2> QED BY <2>1 DEF ClearedLinks
<1>10. ASSUME NEW m \in L
       PROVE  Even(u, m)
  <2>1. ASSUME NEW r \in Side
        PROVE  On(u, m, r) = On(t, m, r)
    <3>1. PICK z : z = t.child[m][r]
      OBVIOUS
    <3>2. z # NULL => z \in L
      BY <1>5, <3>1, ChildIs DEF Below
    <3>3. u.child[m][r] = z
      BY <1>5, <1>6, <1>9, <3>1
    <3>4. z # NULL => u.height[z] = t.height[z]
      BY <1>5, <1>6, <1>9, <3>2
    <3> QED BY <3>1, <3>3, <3>4 DEF On, GetHeight
  <2>2. u.height[m] = t.height[m] /\ Even(t, m)
    BY <1>5, <1>6, <1>9
  <2> QED BY <2>1, <2>2, EvenAs
<1>11. WalkingOn(u, L, T, NULL, d, t.height)
  BY <1>10 DEF WalkingOn
<1>12. \A m \in Node : u.height[m] <= N
  BY <1>5, <1>9, SomeNode
<1>13. BalanceOf(u, L, J, NULL, d)
  BY <1>8, <1>11, <1>12 DEF BalanceOf
<1> QED BY <1>1, <1>2, <1>3, <1>13

LEMMA RemoveLeafInBalance ==
    ASSUME InBalance, NEW n \in Node, RemoveLeaf(n)
    PROVE  BalanceOf(tree, linked, key, node, isDelete)'
<1>1. /\ node = NULL /\ n \in linked /\ tree.child[n] = NoChild
      /\ linked' = linked \ {n} /\ node' = tree.parent[n] /\ isDelete' = TRUE /\ key' = key
  BY DEF RemoveLeaf, Removed
<1>2. PICK t, L, K : t = tree /\ L = linked /\ K = key
  OBVIOUS
<1>3. PICK T : AtRest(t, L, T, K)
  BY <1>1, <1>2, AtRestIs
<1>4. PICK u, q : u = TakenOut(t, n, NULL) /\ q = t.parent[n]
  OBVIOUS
<1>5. tree' = u
  BY <1>2, <1>4 DEF RemoveLeaf, Removed, TakenOut, Spliced, Zeroed, SetParent
<1>6. "left" \in Side /\ Opposite("left") \in Side /\ \A s \in Side : t.child[n][s] = NULL
  BY <1>1, <1>2 DEF NoChild, Side, Opposite
<1>7. TakenAfter(t, L, T, K, n, NULL, u)
  <2>1. t.child[n][Opposite("left")] = NULL /\ NULL = t.child[n]["left"] /\ n \in L
    BY <1>1, <1>2, <1>6
  <2>2. Shape(t, L, T, K)
    BY <1>3 DEF AtRest
  <2> QED BY <1>4, <1>6, <2>1, <2>2, TakenOutIs
<1>8. BalanceOf(u, L \ {n}, K, q, TRUE)
  <2>1. n \in L
    BY <1>1, <1>2
  <2> QED BY <1>3, <1>4, <1>6, <1>7, <2>1, LeafBalance, Zenon
<1> QED BY <1>1, <1>2, <1>4, <1>5, <1>8, Zenon

LEMMA RemoveWithChildInBalance ==
    ASSUME InBalance, NEW n \in Node, NEW s \in Side, RemoveWithChild(n, s)
    PROVE  BalanceOf(tree, linked, key, node, isDelete)'
<1>1. PICK t, L, K : t = tree /\ L = linked /\ K = key
  OBVIOUS
<1>2. PICK c, u : c = t.child[n][s] /\ u = TakenOut(t, n, c)
  OBVIOUS
<1>3. /\ node = NULL /\ n \in L /\ c # NULL /\ t.child[n][Opposite(s)] = NULL
      /\ linked' = linked \ {n} /\ node' = c /\ isDelete' = TRUE /\ key' = key /\ tree' = u
  BY <1>1, <1>2 DEF RemoveWithChild, Removed, TakenOut, Spliced, Zeroed
<1>4. PICK T : AtRest(t, L, T, K)
  BY <1>1, <1>3, AtRestIs
<1>5. TakenAfter(t, L, T, K, n, c, u)
  <2>1. Shape(t, L, T, K)
    BY <1>4 DEF AtRest
  <2> QED BY <1>2, <1>3, <2>1, TakenOutIs
<1>6. BalanceOf(u, L \ {n}, K, c, TRUE)
  BY <1>2, <1>3, <1>4, <1>5, ChildBalance, Zenon
<1> QED BY <1>1, <1>3, <1>6, Zenon

LEMMA RemoveWithBothInBalance ==
    ASSUME InBalance, NEW n \in Node, RemoveWithBoth(n)
    PROVE  BalanceOf(tree, linked, key, node, isDelete)'
<1>1. PICK t, L, K : t = tree /\ L = linked /\ K = key
  OBVIOUS
<1>2. PICK v : v = Outermost(t, t.child[n]["right"], "left")
  OBVIOUS
<1>3. PICK u : u = SwappedOut(t, n, v)
  OBVIOUS
<1>4. /\ node = NULL /\ n \in L /\ t.child[n]["right"] # NULL
      /\ linked' = linked \ {n} /\ node' = AboveSuccessor(n, v) /\ isDelete' = TRUE
      /\ key' = key
  BY <1>1, <1>2, Zenon DEF RemoveWithBoth, Removed, Side
<1>5. tree' = u
  <2>1. Removed(n, Replaced(Spliced(t, v, t.child[v]["right"]), n, v, t.parent[n]),
                AboveSuccessor(n, v))
    BY <1>1, <1>2, ZenonT(30) DEF RemoveWithBoth, Spliced, Replaced
  <2> QED BY <1>3, <2>1 DEF Removed, SwappedOut, Zeroed
<1>6. PICK T : AtRest(t, L, T, K)
  BY <1>1, <1>4, AtRestIs
<1>7. Shape(t, L, T, K)
  BY <1>6 DEF AtRest
<1>8. PICK c : c = t.child[v]["right"]
  OBVIOUS
<1>9. SwappedAfter(t, L, T, K, n, v, c, u)
  BY <1>2, <1>3, <1>4, <1>7, <1>8, SwappedOutIs
<1>10. Succeeds(t, L, T, K, n, v)
  BY <1>2, <1>4, <1>7, SuccessorIs
<1>11. PICK M, V, Old, w : Swap(t, L, T, K, n, v, c, u, M, V, Old, w)
  BY <1>4, <1>6, <1>8, <1>9, <1>10, SwapIs
<1>12. PICK q : q = t.parent[v]
  OBVIOUS
<1>13. v \in Under(t, T, n, "right")
  BY <1>10 DEF Succeeds
<1>14. BalanceOf(u, M, K, node', TRUE)
  <2>1. CASE q = n
    <3>1. node' = v
      BY <1>1, <1>4, <1>12, <2>1 DEF AboveSuccessor
    <3>2. BalanceOf(u, M, K, v, TRUE)
      BY <1>6, <1>11, <1>12, <1>13, <2>1, NextBalance, Zenon
    <3> QED BY <3>1, <3>2, Zenon
  <2>2. CASE q # n
    <3>1. node' = q
      BY <1>1, <1>4, <1>12, <2>2 DEF AboveSuccessor
    <3>2. BalanceOf(u, M, K, q, TRUE)
      BY <1>6, <1>11, <1>12, <2>2, FarBalance, Zenon
    <3> QED BY <3>1, <3>2, Zenon
  <2> QED BY <2>1, <2>2, Zenon
<1>15. M = L \ {n}
  BY <1>11 DEF Swap
<1> QED BY <1>1, <1>4, <1>5, <1>14, <1>15, Zenon

LEMMA DeinitializeInBalance ==
    ASSUME InBalance, Deinitialize
    PROVE  BalanceOf(tree, linked, key, node, isDelete)'
<1>1. PICK t, K, d : t = tree /\ K = key /\ d = isDelete
  OBVIOUS
<1>2. PICK T : Tree(t, linked, T) /\ \A m \in Node : t.height[m] <= N
  BY <1>1 DEF InBalance, BalanceOf, Shape
<1>3. PICK u : u = [t EXCEPT !.root = NULL]
  BY Zenon
<1>4. TreeType(u) /\ u.root = NULL /\ u.height = t.height
  BY <1>2, <1>3 DEF Tree, TreeType, Link
<1>5. Shape(u, {}, T, K)
  BY <1>2, <1>4 DEF Tree, Ordered, Shape
<1>6. WalkingOn(u, {}, T, NULL, d, t.height)
  BY DEF WalkingOn
<1>7. BalanceOf(u, {}, K, NULL, d)
  BY <1>2, <1>4, <1>5, <1>6 DEF BalanceOf
<1>8. tree' = u /\ linked' = {} /\ key' = K /\ node' = NULL /\ isDelete' = d
  BY <1>1, <1>3 DEF Deinitialize
<1> QED BY <1>7, <1>8

LEMMA InitInBalance == Init => InBalance
<1> SUFFICES ASSUME Init PROVE InBalance
  OBVIOUS
<1>1. InShape
  BY InitInShape
<1>2. PICK t : t = tree
  OBVIOUS
<1>3. /\ t = [root |-> NULL, child |-> [n \in Node |-> NoChild],
              parent |-> [n \in Node |-> NULL], height |-> [n \in Node |-> 0]]
      /\ linked = {} /\ node = NULL
  BY <1>2 DEF Init
<1>4. PICK T : Shape(t, {}, T, key)
  BY <1>1, <1>2, <1>3 DEF InShape, ShapeOf
<1>5. \A n \in Node : t.height[n] <= N
  BY <1>3, Count
<1>6. WalkingOn(t, {}, T, NULL, isDelete, t.height)
  BY DEF WalkingOn
<1>7. BalanceOf(t, {}, key, NULL, isDelete)
  BY <1>4, <1>5, <1>6 DEF BalanceOf
<1> QED BY <1>1, <1>2, <1>3, <1>7 DEF InBalance

\* In every state, between two iterations of a walk too, the walk has left balanced
\* nodes of the right heights behind it.
THEOREM AlwaysInBalance == Spec => []InBalance
<1>1. ASSUME InBalance, InShape', [Next]_vars
      PROVE  InBalance'
  <2> SUFFICES BalanceOf(tree, linked, key, node, isDelete)'
    BY <1>1 DEF InBalance
  <2>1. ASSUME NEW n \in Node, NodeInsert(n)
        PROVE  BalanceOf(tree, linked, key, node, isDelete)'
    BY <1>1, <2>1, InsertNewInBalance, InsertExistingInBalance DEF NodeInsert
  <2>2. ASSUME NEW n \in Node, NodeRemove(n)
        PROVE  BalanceOf(tree, linked, key, node, isDelete)'
    BY <1>1, <2>2, RemoveLeafInBalance, RemoveWithChildInBalance, RemoveWithBothInBalance
       DEF NodeRemove
  <2>3. CASE Rebalance
    BY <1>1, <2>3, RotateOnceInBalance, RotateTwiceInBalance, KeepShapeInBalance DEF Rebalance
  <2>4. CASE Deinitialize
    BY <1>1, <2>4, DeinitializeInBalance
  <2>5. CASE UNCHANGED vars
    BY <1>1, <2>5 DEF InBalance, vars
  <2> QED BY <1>1, <2>1, <2>2, <2>3, <2>4, <2>5 DEF Next
<1> QED BY <1>1, InitInBalance, AlwaysInShape, PTL DEF Spec

\* The node the walk is at leans by two at most.
LEMMA AtLean ==
    ASSUME NEW t, TreeType(t), NEW x \in Node, NEW d, NEW h, At(t, x, d, h)
    PROVE  Lean(t, x, "left") \in -2..2
<1>1. PICK s \in Side, o \in Nat : Was(t, x, s, o, h) /\ Grown(d, o, On(t, x, s))
  BY DEF At
<1>2. PICK a, b : a = On(t, x, s) /\ b = On(t, x, Opposite(s))
  OBVIOUS
<1>3. a \in Nat /\ b \in Nat /\ Lean(t, x, s) = a - b
  BY <1>2, EvenIs
<1>4. Lean(t, x, Opposite(s)) = b - a
  BY <1>3, LeanUp
<1>5. Near(o, b) /\ Grown(d, o, a)
  BY <1>1, <1>2 DEF Was
<1>6. a - b \in -2..2 /\ b - a \in -2..2
  BY ONLY <1>1, <1>3, <1>5 DEF Near, Grown
<1>7. s = "left" \/ Opposite(s) = "left"
  BY DEF Side, Opposite
<1> QED BY <1>3, <1>4, <1>6, <1>7

LEMMA BalancedIs ==
    ASSUME InBalance
    PROVE  Balanced
<1>1. PICK T, Old : /\ Tree(tree, linked, T)
                    /\ WalkingOn(tree, linked, T, node, isDelete, Old)
  BY DEF InBalance, BalanceOf, Shape
<1>2. TreeType(tree) /\ linked \subseteq Node
  BY <1>1 DEF Tree
<1>3. ASSUME NEW n \in linked, Even(tree, n)
      PROVE  HeightIsRight(n) /\ Lean(tree, n, "left") \in -1..1
  <2>1. RecalculateHeight(tree, n).height[n] = HeightFrom(tree, n)
    BY <1>2, RecalculateIs
  <2> QED BY <1>3, <2>1 DEF HeightIsRight, Even
<1>4. CASE node = NULL
  <2>1. \A n \in linked : Even(tree, n)
    BY <1>1, <1>4 DEF WalkingOn
  <2> QED BY <1>3, <1>4, <2>1 DEF Balanced
<1>5. CASE node # NULL
  <2>1. Walking(tree, linked, T, node, isDelete, Old)
    BY <1>1, <1>5 DEF WalkingOn
  <2>2. node \in linked /\ At(tree, node, isDelete, Old[node])
    BY <2>1 DEF Walking
  <2>3. Lean(tree, node, "left") \in -2..2
    BY <1>2, <2>2, AtLean
  <2>4. StillToVisit = {m \in linked : node \in T[m]}
    <3>1. WayUp(tree, node) = {m \in linked : node \in T[m]}
      BY <1>1, <2>2, WayUpIs
    <3> QED BY <3>1 DEF StillToVisit, Climb, WayUp
  <2>5. \A n \in linked \ StillToVisit : Even(tree, n)
    BY <2>1, <2>4 DEF Walking
  <2> QED BY <1>3, <2>3, <2>5 DEF Balanced
<1> QED BY <1>4, <1>5

LEMMA TypeIs ==
    ASSUME InBalance
    PROVE  TypeOK
<1>1. PICK T : Tree(tree, linked, T) /\ \A n \in Node : tree.height[n] <= N
  BY DEF InBalance, BalanceOf, Shape
<1>2. TreeType(tree)
  BY <1>1 DEF Tree
<1>3. tree.height \in [Node -> 0..N]
  <2>1. tree.height \in [Node -> Nat]
    BY <1>2 DEF TreeType
  <2>2. \A n \in Node : tree.height[n] \in 0..N
    BY <1>1, <2>1, Count
  <2> QED BY <2>1, <2>2
<1>4. tree \in [root : Link, child : [Node -> [Side -> Link]],
                parent : [Node -> Link], height : [Node -> 0..N]]
  BY <1>2, <1>3 DEF TreeType
<1> QED BY <1>4 DEF InBalance, InShape, TypeOK, N

\* The walk is at a node of the tree, the links lead to nodes, and no height is above
\* the number of nodes.
THEOREM TypeCorrect == Spec => []TypeOK
  BY AlwaysInBalance, TypeIs, PTL

\* cuAvlTreeNodeRebalance makes the tree one that cuAvlTreeAssertValid accepts: the walk
\* up from where an insert or a remove has changed the links, one rotation or two at a
\* node, leaves right heights and balanced nodes, and never meets one that leans by three.
THEOREM WalksBalance == Spec => []Balanced
  BY AlwaysInBalance, BalancedIs, PTL

\* Each iteration of cuAvlTreeNodeRebalance, whatever it rotates, leaves fewer nodes for
\* the walk to visit and adds none: no rotation brings a node below the walk above it.
\* With the fairness of FairSpec that is why EveryWalkEnds.
THEOREM WalksClimb ==
    Spec => [][Rebalance => StillToVisit' \subseteq StillToVisit
                            /\ StillToVisit' # StillToVisit]_vars
<1>1. ASSUME InBalance, Rebalance
      PROVE  StillToVisit' \subseteq StillToVisit /\ StillToVisit' # StillToVisit
  <2>1. GoesUp(tree, node, tree', node')
    BY <1>1, RotateOnceInBalance, RotateTwiceInBalance, KeepShapeInBalance DEF Rebalance
  <2>2. StillToVisit = WayUp(tree, node) /\ StillToVisit' = WayUp(tree', node')
    BY DEF StillToVisit, Climb, WayUp
  <2> QED BY <2>1, <2>2 DEF GoesUp
<1> QED BY <1>1, AlwaysInBalance, PTL
=============================================================================
