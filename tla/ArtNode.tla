------------------------------- MODULE ArtNode -------------------------------
(***************************************************************************)
(* The inner nodes of the adaptive radix tree of art.c: a map from bytes   *)
(* to children in one of four layouts, which grows and shrinks from one to *)
(* the next.  NODE4 and NODE16 keep a list of keys beside a list of        *)
(* children, NODE48 an index of its children for every byte, NODE256 a     *)
(* child for every byte.                                                   *)
(***************************************************************************)
EXTENDS Integers, FiniteSets

CONSTANTS ByteCount,               \* values of a byte, 256 in the code
          HighByte,                \* the least byte that add_child16 compares as
                                   \* a negative one: 128 on x86, 256 elsewhere
          Max4, Max16, Max48,      \* children of a full node: 4, 16, 48
          Min16, Min48, Min256     \* children at which a node shrinks: 3, 12, 37

ASSUME SizesAssumption ==
    /\ ByteCount \in Nat /\ HighByte \in Nat
    /\ \A m \in {Max4, Max16, Max48, Min16, Min48, Min256} : m \in Nat
    /\ 2 <= Min16 /\ Min16 <= Max4 /\ Max4 < Max16
    /\ Min16 < Min48 /\ Min48 <= Max16 /\ Max16 < Max48
    /\ Min48 < Min256 /\ Min256 <= Max48 /\ Max48 < ByteCount

Byte == 0..(ByteCount - 1)

\* No node.
NULL == [type |-> "NULL"]

Least(S) == CHOOSE x \in S : \A y \in S : x <= y

\* A fresh NODE4.  "keys" and "children" of NODE4 and NODE16 are as long as the
\* node has children: what lies behind in the code's arrays is never read.
alloc_node4(partial_len, partial) ==
    [type |-> "NODE4", num_children |-> 0, partial_len |-> partial_len, partial |-> partial,
     keys |-> <<>>, children |-> <<>>]

Listed(n) == n.type \in {"NODE4", "NODE16"}

\* Where find_child finds the child of c: the first match or nothing.
SlotsOf(n, c) ==
    CASE Listed(n) -> {i \in 1..n.num_children : n.keys[i] = c}
      [] n.type = "NODE48" -> {n.keys[c]} \ {0}
      [] n.type = "NODE256" -> {b \in {c} : n.children[b] # NULL}

find_child(n, c) ==
    IF SlotsOf(n, c) = {} THEN NULL ELSE n.children[Least(SlotsOf(n, c))]

\* What *ref = child does when ref is what find_child has returned.
SetChild(n, c, child) == [n EXCEPT !.children[Least(SlotsOf(n, c))] = child]

\* The bytes with a child, and the one with i - 1 others below it.
Present(n) == {b \in Byte : SlotsOf(n, b) # {}}
Rank(S, b) == Cardinality({a \in S : a <= b})
Nth(S, i) == CHOOSE b \in S : Rank(S, b) = i

-----------------------------------------------------------------------------
(* Adding a child to a byte that has none.                                  *)

\* The key and the child go in before the first of the keys at "larger".
InsertAt(n, larger, c, child) ==
    LET idx == IF larger = {} THEN n.num_children + 1 ELSE Least(larger)
        Shifted(f, new) == [i \in 1..(n.num_children + 1) |->
                               IF i < idx THEN f[i] ELSE IF i = idx THEN new ELSE f[i - 1]]
    IN  [n EXCEPT !.num_children = @ + 1,
                  !.keys = Shifted(@, c), !.children = Shifted(@, child)]

\* num_children is a uint8_t: it is 0 when all 256 children are there.
add_child256(n, c, child) ==
    [n EXCEPT !.num_children = (@ + 1) % ByteCount, !.children[c] = child]

\* A NODE48 as a NODE256, with the header copied.
Grown48(n) ==
    [n EXCEPT !.type = "NODE256", !.keys = <<>>,
              !.children = [b \in Byte |-> find_child(n, b)]]

add_child48(n, c, child) ==
    IF n.num_children < Max48
    THEN LET pos == Least({p \in 1..Max48 : n.children[p] = NULL})
         IN  [n EXCEPT !.num_children = @ + 1, !.keys[c] = pos, !.children[pos] = child]
    ELSE add_child256(Grown48(n), c, child)

\* A NODE16 as a NODE48.
Grown16(n) ==
    [n EXCEPT !.type = "NODE48",
              !.keys = [b \in Byte |-> IF SlotsOf(n, b) = {} THEN 0 ELSE Least(SlotsOf(n, b))],
              !.children = [p \in 1..Max48 |-> IF p <= n.num_children THEN n.children[p]
                                               ELSE NULL]]

\* The value of a byte in the comparison of add_child16.
AsCompared(b) == IF b >= HighByte THEN b - ByteCount ELSE b

\* A mutant of add_child16: a new key goes to the end.
append16(n, c, child) ==
    IF n.num_children < Max16 THEN InsertAt(n, {}, c, child)
    ELSE add_child48(Grown16(n), c, child)

add_child16(n, c, child) ==
    IF n.num_children < Max16
    THEN InsertAt(n, {i \in 1..n.num_children : AsCompared(c) < AsCompared(n.keys[i])}, c, child)
    ELSE add_child48(Grown16(n), c, child)

add_child4(n, c, child) ==
    IF n.num_children < Max4
    THEN InsertAt(n, {i \in 1..n.num_children : c < n.keys[i]}, c, child)
    ELSE add_child16([n EXCEPT !.type = "NODE16"], c, child)

add_child(n, c, child) ==
    CASE n.type = "NODE4" -> add_child4(n, c, child)
      [] n.type = "NODE16" -> add_child16(n, c, child)
      [] n.type = "NODE48" -> add_child48(n, c, child)
      [] n.type = "NODE256" -> add_child256(n, c, child)

-----------------------------------------------------------------------------
(* Removing the child of c.                                                 *)

\* A NODE256 as a NODE48 and a NODE48 as a NODE16, in the order of the bytes.
Shrunk256(n) ==
    LET has == {b \in Byte : n.children[b] # NULL}
    IN  [n EXCEPT !.type = "NODE48",
                  !.keys = [b \in Byte |-> IF b \in has THEN Rank(has, b) ELSE 0],
                  !.children = [p \in 1..Max48 |-> IF p <= n.num_children
                                                   THEN n.children[Nth(has, p)] ELSE NULL]]

Shrunk48(n) ==
    LET has == {b \in Byte : n.keys[b] # 0}
    IN  [n EXCEPT !.type = "NODE16",
                  !.keys = [i \in 1..n.num_children |-> Nth(has, i)],
                  !.children = [i \in 1..n.num_children |-> n.children[n.keys[Nth(has, i)]]]]

remove_child256(n, c) ==
    LET left == [n EXCEPT !.num_children = (@ - 1) % ByteCount, !.children[c] = NULL]
    IN  IF left.num_children = Min256 THEN Shrunk256(left) ELSE left

\* A mutant of remove_child48: the pointer of the child stays.
forget48(n, c) ==
    LET left == [n EXCEPT !.num_children = @ - 1, !.keys[c] = 0]
    IN  IF left.num_children = Min48 THEN Shrunk48(left) ELSE left

remove_child48(n, c) ==
    LET left == [n EXCEPT !.num_children = @ - 1, !.keys[c] = 0, !.children[n.keys[c]] = NULL]
    IN  IF left.num_children = Min48 THEN Shrunk48(left) ELSE left

\* The lists without the key and the child at pos.
RemoveAt(n, pos) ==
    LET Closed(f) == [i \in 1..(n.num_children - 1) |-> IF i < pos THEN f[i] ELSE f[i + 1]]
    IN  [n EXCEPT !.num_children = @ - 1, !.keys = Closed(@), !.children = Closed(@)]

remove_child16(n, pos) ==
    LET left == RemoveAt(n, pos)
    IN  IF left.num_children = Min16 THEN [left EXCEPT !.type = "NODE4"] ELSE left
=============================================================================
