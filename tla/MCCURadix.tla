----------------------------- MODULE MCCURadix -----------------------------
(* Trees of a few nodes, which the caller may put in with any keys, take out *)
(* in any order and use again.                                               *)
EXTENDS CURadix, TLC

Nodes == Permutations(Node)

\* What a node holds that is not in the tree is never read: an insert clears
\* it first.  States that differ in nothing else are one.
InUse ==
    <<root, callVars,
      [n \in linked |-> <<child[n], parent[n], selfPtr[n], next[n], prev[n], key[n]>>]>>
=============================================================================
