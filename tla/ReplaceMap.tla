----------------------------- MODULE ReplaceMap -----------------------------
(***************************************************************************)
(* What the adaptive radix tree promises: a map that counts its keys.  An  *)
(* insert returns the value the key had and replaces it, or, in the other  *)
(* form, leaves it; a delete returns the value it has taken out.           *)
(***************************************************************************)
EXTENDS FiniteSets

CONSTANTS Key, Value, NULL

VARIABLES entries,   \* the keys with their values
          size,
          call,      \* the last call
          answer     \* what it returned

vars == <<entries, size, call, answer>>

Of(k) == {e \in entries : e.key = k}

\* The value among what has been found of a key.
ValueIn(found) == IF found = {} THEN NULL ELSE (CHOOSE e \in found : TRUE).value

Counted == size' = Cardinality(entries')

\* The calls; one that makes or ends a map has no arguments.
InsertOf(k, v, replace) == [op |-> "insert", key |-> k, value |-> v, replace |-> replace]
DeleteOf(k) == [op |-> "delete", key |-> k]
Cleared == [op |-> "clear"]

Init == entries = {} /\ size = 0 /\ call = Cleared /\ answer = NULL

Insert(k, v, replace) ==
    /\ call' = InsertOf(k, v, replace)
    /\ \E found \in {Of(k)} :
          /\ answer' = ValueIn(found)
          /\ entries' = IF replace \/ found = {}
                        THEN (entries \ found) \union {[key |-> k, value |-> v]} ELSE entries
    /\ Counted

Delete(k) ==
    /\ call' = DeleteOf(k)
    /\ \E found \in {Of(k)} : answer' = ValueIn(found) /\ entries' = entries \ found
    /\ Counted

Clear == call' = Cleared /\ answer' = NULL /\ entries' = {} /\ size' = 0

Next ==
    \/ \E k \in Key, v \in Value, replace \in BOOLEAN : Insert(k, v, replace)
    \/ \E k \in Key : Delete(k)
    \/ Clear

Spec == Init /\ [][Next]_vars
=============================================================================
