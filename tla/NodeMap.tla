------------------------------ MODULE NodeMap ------------------------------
(***************************************************************************)
(* What the AVL tree promises: a map from keys to the caller's nodes.  A   *)
(* node put in under a key that is taken stays out, and the node that has  *)
(* the key is the answer.                                                  *)
(***************************************************************************)
CONSTANTS Node, Key, NULL

VARIABLES dict,     \* the node of each key, or NULL
          answer    \* what the last call returned

vars == <<dict, answer>>

Empty == [k \in Key |-> NULL]

Init == dict = Empty /\ answer = NULL

\* A node that is not in the map goes in under a free key.
Insert(k) ==
    /\ dict[k] = NULL
    /\ dict'[k] \in Node /\ \A j \in Key : dict[j] # dict'[k]
    /\ \A j \in Key \ {k} : dict'[j] = dict[j]
    /\ answer' = NULL

InsertExisting(k) ==
    /\ answer' # NULL /\ answer' = dict[k]
    /\ UNCHANGED dict

Remove(k) ==
    /\ dict[k] # NULL /\ dict'[k] = NULL
    /\ \A j \in Key \ {k} : dict'[j] = dict[j]
    /\ answer' = NULL

Clear == (\A k \in Key : dict'[k] = NULL) /\ answer' = NULL

Next ==
    \/ \E k \in Key : Insert(k) \/ InsertExisting(k) \/ Remove(k)
    \/ Clear

Spec == Init /\ [][Next]_vars
=============================================================================
