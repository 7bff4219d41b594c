----------------------------- MODULE MCRadixNew -----------------------------
(* Small trees: two words of two bits, so four children a node, and keys     *)
(* that share a leaf array, a node, a node array, or nothing but the root.   *)
EXTENDS RadixNewHistory, TLC

\* Three levels: 0 = 0.0.0, 1 = 0.0.1, 3 = 0.0.3, 4 = 0.1.0, 16 = 1.0.0, and
\* 63 = 3.3.3 under the root's other word.
Keys == {0, 1, 3, 4, 16, 63}

\* Two keys below different children of the root, for which the arrays always suffice.
TwoKeys == {0, 16}

\* The arrays of a pool are interchangeable.
Arrays == Permutations(NonLeafArray) \union Permutations(LeafArray)
=============================================================================
