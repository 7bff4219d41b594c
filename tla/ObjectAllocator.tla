-------------------------- MODULE ObjectAllocator --------------------------
(***************************************************************************)
(* What an allocator of fixed-size objects promises its client: an object  *)
(* that is handed out is not in use, a freed object was in use, and        *)
(* destroying the allocator takes every object back.  ObjectPool           *)
(* implements it; RadixNew is built on two instances of its operators.     *)
(***************************************************************************)


CONSTANT Object     \* every object the allocator could ever hand out
VARIABLE live       \* the objects in use

TypeOK == live \subseteq Object

Init == live = {}

Alloc(o) == o \notin live /\ live' = live \union {o}

Free(o) == o \in live /\ live' = live \ {o}

Destroy == live' = {}

Next == (\E o \in Object : Alloc(o) \/ Free(o)) \/ Destroy

Spec == Init /\ [][Next]_live
=============================================================================
