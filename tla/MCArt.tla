-------------------------------- MODULE MCArt --------------------------------
(* Small nodes, and keys of three to six bytes whose prefixes are split at    *)
(* and behind the one byte that is stored of them.                           *)
EXTENDS ArtOrder

MCKeys ==
    {<<0, 0, 0, b, 0, 0>> : b \in 0..4} \union
    {<<0, 0, 0, 5>>, <<0, 0, 0, 0, 0, 1>>, <<1, 0, 0>>}

MCValuesOf == [k \in MCKeys |-> IF k = <<1, 0, 0>> THEN {1, 2} ELSE {1}]

\* The beginnings of keys, and some that no key has.
MCPrefixes ==
    {<<>>, <<0, 0>>, <<0, 0, 0>>, <<0, 0, 0, 0>>, <<0, 0, 0, 0, 0>>, <<0, 1>>, <<0, 1, 0, 0, 0>>}

\* All but the last call and its answer.
TheTree == <<root, size, blocks, high>>

=============================================================================
