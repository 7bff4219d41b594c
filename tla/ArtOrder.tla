------------------------------ MODULE ArtOrder ------------------------------
(***************************************************************************)
(* The order of the adaptive radix tree: art_minimum, art_maximum and      *)
(* art_iter, with a record of what the order depends on: whether a key was *)
(* inserted with a byte that add_child16 takes for a negative number.      *)
(***************************************************************************)
EXTENDS Art

VARIABLE high     \* whether a key with a byte from HighByte on has been inserted

HasHigh(k) == \E i \in 1..Len(k) : k[i] >= HighByte

HistoryInit == Init /\ high = FALSE

HistoryNext ==
    /\ Next
    /\ high' = /\ root' # Dangling
               /\ high \/ (call'.op = "insert" /\ HasHigh(call'.key))

HistorySpec == HistoryInit /\ [][HistoryNext]_<<vars, high>>

-----------------------------------------------------------------------------
Greatest(S) == CHOOSE x \in S : \A y \in S : y <= x

GreatestChild(n) ==
    IF Listed(n) THEN n.children[n.num_children] ELSE find_child(n, Greatest(Present(n)))

\* The way down to the last leaf: at each step the one node it has come to.
maximum(n) ==
    LET at[i \in 0..Longest] ==
            IF i = 0 THEN {n} ELSE {IF AtEnd(m) THEN m ELSE GreatestChild(m) : m \in at[i - 1]}
    IN  CHOOSE m \in at[Longest] : TRUE

\* A sequence of bytes or places is before another that is greater where they first differ.
Before(s, t) == \E i \in 1..min(Len(s), Len(t)) : s[i] < t[i] /\ \A h \in 1..(i - 1) : s[h] = t[h]

\* recursive_iter goes through the places of a node one after the other, and at each through
\* all that is below it: it comes to one leaf before another if its way is before that one's.
IteratedBefore(e, f) == Before(e.way, f.way)

LeafVisits(n) == {e \in Visited(n) : IS_LEAF(e.node)}

\* art.c: art_minimum "Returns the minimum valued leaf", art_maximum the maximum one; and
\* art_iter goes through the keys from the one to the other in their order.
InOrder ==
    root \notin {NULL, Dangling} =>
        /\ {minimum(root), maximum(root)} \subseteq LeavesBelow(root)
        /\ \A e \in LeafVisits(root) :
            /\ \A f \in LeafVisits(root) : IteratedBefore(e, f) <=> Before(e.node.key, f.node.key)
            /\ e.node = minimum(root) \/ Before(minimum(root).key, e.node.key)
            /\ e.node = maximum(root) \/ Before(e.node.key, maximum(root).key)

\* The order is right as long as no key has had a byte that add_child16 takes for a
\* negative number, whatever has been inserted and removed.
OrderedWhileLow == ~high => InOrder
=============================================================================
