----------------------------- MODULE MCBitScan -----------------------------
(* Four 64-bit words, as in a WideRadixNode, filled from words whose bits sit *)
(* at the ends, at the borders of the masks and in pairs, and ranges that     *)
(* start and end at, before and after the borders of words.                   *)
EXTENDS BitScan

MCSamples == {{}, {0}, {63}, {31, 32}, {21, 42}, 0..63}
MCStartBits == {0, 1, 22, 63, 64, 65, 128, 191, 192, 255, 256}
MCEndBits == {0, 62, 64, 191, 255}
=============================================================================
