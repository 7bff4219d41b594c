-------------------------- MODULE MCRadixNewAlign --------------------------
(* A tree made for aligned keys: 6-bit keys that are multiples of 4.  The     *)
(* keys that were stored and not removed are kept beside the tree.            *)
EXTENDS RadixNew, TLC

VARIABLE stored

StoredInit == Init /\ stored = {}

StoredNext ==
    /\ Next
    /\ stored' = IF pc = "insert" /\ pc' = "return" /\ answer' = 0
                 THEN stored \union {call.key}
                 ELSE IF pc = "remove" /\ pc' = "clean" THEN stored \ {call.key}
                 ELSE IF numLevels' = 0 THEN {}
                 ELSE stored

StoredSpec == StoredInit /\ [][StoredNext]_<<vars, stored>>

AlignedKeys == {4, 20, 36}

\* README.md: "64-bit Key Support", and benchmark.cpp makes its tree with
\* treeInit(&tree, 64, 8) for "64-bit keys, 8-byte alignment": of the keys below
\* 2^log2Max treeFind finds only those that were stored.
FoundKeysWereStored ==
    pc = "idle" => \A k \in Key : treeFind(k) # 0 => k \in stored
=============================================================================
