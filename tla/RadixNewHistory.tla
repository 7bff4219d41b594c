-------------------------- MODULE RadixNewHistory --------------------------
(***************************************************************************)
(* RadixNew with a record of whether memory has run out: what treeRemove   *)
(* and treeFindGEQ promise only as long as every allocation has succeeded. *)
(***************************************************************************)
EXTENDS RadixNew

VARIABLE failed     \* whether an insert has failed since the tree was made

HistoryInit == Init /\ failed = FALSE

HistoryNext == Next /\ failed' = (numLevels' # 0 /\ (failed \/ answer' = Failed))

HistorySpec == HistoryInit /\ [][HistoryNext]_<<vars, failed>>

\* While allocation succeeds, treeRemove leaves nothing hollow but root bits.
NothingHollowUnlessFailed == ~failed => NothingHollowBelowRoot

\* While allocation succeeds, treeFindGEQ returns the value of the least key
\* from the one asked for on, if no root bit after that one's is hollow.
GEQExactUnlessFailed == ~failed => GEQExactUnlessHollow

\* While allocation succeeds, a tree all of whose keys were removed by
\* treeRemove has given back what they needed.
SmallWhenEmptied == ~failed => EmptiedTreeIsSmall
=============================================================================
