------------------------------ MODULE MultiMap ------------------------------
(***************************************************************************)
(* What the CUDA radix tree promises: a map from keys to queues of nodes,  *)
(* to which a node is added at the end and from which any node may be      *)
(* taken; the node first added is the one a search answers with.           *)
(***************************************************************************)
EXTENDS Integers, Sequences

CONSTANTS Node, Key

VARIABLE queue     \* queue[k]: the nodes with key k, oldest first

Init == queue = [k \in Key |-> <<>>]

Nodes(q) == {q[i] : i \in 1..Len(q)}

Insert(n, k) ==
    /\ \A j \in Key : n \notin Nodes(queue[j])
    /\ queue' = [queue EXCEPT ![k] = Append(@, n)]

Remove(n, k) ==
    \E i \in 1..Len(queue[k]) :
        /\ queue[k][i] = n
        /\ queue' = [queue EXCEPT ![k] = SubSeq(@, 1, i - 1) \o SubSeq(@, i + 1, Len(@))]

Next == \E n \in Node, k \in Key : Insert(n, k) \/ Remove(n, k)

Spec == Init /\ [][Next]_queue
=============================================================================
