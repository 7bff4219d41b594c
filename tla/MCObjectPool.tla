---------------------------- MODULE MCObjectPool ----------------------------
(* The object pool with two initial capacities and three blocks: blocks of   *)
(* different sizes, growth from an empty pool and from exhausted ones.       *)
EXTENDS ObjectPool
=============================================================================
