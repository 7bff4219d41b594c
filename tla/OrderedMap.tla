----------------------------- MODULE OrderedMap -----------------------------
(***************************************************************************)
(* What a search tree of this library promises: a map from keys to values, *)
(* 0 standing for "no value", with insert-or-return-existing and remove.   *)
(* A call is begun, takes effect once, and returns.  An insert may fail    *)
(* for lack of memory, and then changes nothing.                           *)
(***************************************************************************)
EXTENDS Integers

CONSTANTS Key, Value,       \* sets of numbers; a stored value is not 0
          NoCall,           \* no call is running
          Pending, Failed   \* answers that are not values

VARIABLES dict,     \* the map
          call,     \* the running call
          answer    \* its answer

NoValue == 0

Call == [op : {"insert"}, key : Key, value : Value] \union [op : {"remove"}, key : Key]

Init ==
    /\ dict = [k \in Key |-> NoValue]
    /\ call = NoCall
    /\ answer = Pending

Begin(c) ==
    /\ call = NoCall
    /\ call' = c
    /\ UNCHANGED <<dict, answer>>

\* The value found at the key is the answer; the new one is stored if there
\* was none.
Insert ==
    /\ call # NoCall /\ call.op = "insert" /\ answer = Pending
    /\ answer' = dict[call.key]
    /\ dict' = IF dict[call.key] = NoValue
               THEN [dict EXCEPT ![call.key] = call.value]
               ELSE dict
    /\ UNCHANGED call

InsertFails ==
    /\ call # NoCall /\ call.op = "insert" /\ answer = Pending
    /\ answer' = Failed
    /\ UNCHANGED <<dict, call>>

Remove ==
    /\ call # NoCall /\ call.op = "remove" /\ answer = Pending
    /\ answer' = dict[call.key]
    /\ dict' = [dict EXCEPT ![call.key] = NoValue]
    /\ UNCHANGED call

Return ==
    /\ call # NoCall /\ answer # Pending
    /\ call' = NoCall
    /\ answer' = Pending
    /\ UNCHANGED dict

\* The map is destroyed with everything in it.
Clear ==
    /\ call = NoCall
    /\ dict' = [k \in Key |-> NoValue]
    /\ UNCHANGED <<call, answer>>

Next ==
    \/ \E c \in Call : Begin(c)
    \/ Insert \/ InsertFails \/ Remove \/ Return \/ Clear

Spec == Init /\ [][Next]_<<dict, call, answer>>

-----------------------------------------------------------------------------
\* The least key with a value from k on, by its value; NoValue if there is none.
ValueAtOrAfter(d, k) ==
    LET present == {j \in Key : j >= k /\ d[j] # NoValue}
    IN  IF present = {} THEN NoValue
        ELSE d[CHOOSE j \in present : \A i \in present : j <= i]
=============================================================================
