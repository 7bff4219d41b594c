------------------------------- MODULE PutMap -------------------------------
(***************************************************************************)
(* What the wide radix tree promises: a map in which a key is put with a   *)
(* value, in place of the value it had, and from which it is deleted.  A   *)
(* call is begun, takes effect once, and returns whether it had one.  A    *)
(* put may fail for lack of memory, and then changes nothing.              *)
(***************************************************************************)
EXTENDS Integers

CONSTANTS Key, Value, NoValue,
          NULL      \* no call is running; no answer has been given

VARIABLES dict, call, answer

vars == <<dict, call, answer>>

Call == [op : {"insert"}, key : Key, value : Value]
        \union [op : {"delete"}, key : Key, value : {0}]

Empty == [k \in Key |-> NoValue]

Init == dict = Empty /\ call = NULL /\ answer = NULL

Begin(c) == call = NULL /\ call' = c /\ UNCHANGED <<dict, answer>>

Running(op) == call # NULL /\ call.op = op /\ answer = NULL

Put ==
    /\ Running("insert")
    /\ dict' = [dict EXCEPT ![call.key] = call.value]
    /\ answer' = TRUE
    /\ UNCHANGED call

PutFails ==
    /\ Running("insert")
    /\ answer' = FALSE
    /\ UNCHANGED <<dict, call>>

Delete ==
    /\ Running("delete")
    /\ dict' = [dict EXCEPT ![call.key] = NoValue]
    /\ answer' = (dict[call.key] # NoValue)
    /\ UNCHANGED call

Return ==
    /\ answer # NULL
    /\ call' = NULL /\ answer' = NULL
    /\ UNCHANGED dict

\* The map is destroyed with everything in it.
Clear == call = NULL /\ dict' = Empty /\ UNCHANGED <<call, answer>>

Next ==
    \/ \E c \in Call : Begin(c)
    \/ Put \/ PutFails \/ Delete \/ Return \/ Clear

Spec == Init /\ [][Next]_vars

-----------------------------------------------------------------------------
Keys(d) == {k \in Key : d[k] # NoValue}

\* The least key from k on.
NextKey(d, k) == CHOOSE j \in Keys(d) : j >= k /\ \A i \in Keys(d) : i >= k => j <= i
=============================================================================
