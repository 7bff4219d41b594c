----------------------------- MODULE MCWideRadix -----------------------------
(* Trees of three levels with two children each: every set of keys, with every *)
(* set of inner nodes that failed inserts and deletes may leave behind.        *)
EXTENDS WideRadix
=============================================================================
