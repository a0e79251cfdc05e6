---------------------------- MODULE MCFileCipher ----------------------------
(* TLC instances of FileCipher: three calls, two of them for the same path *)
(* and of different lengths, and one that writes an empty file.            *)
EXTENDS FileCipher, TLC

CONSTANTS a, b, c1, c2, c3

MCOutputOf == (c1 :> a) @@ (c2 :> a) @@ (c3 :> b)
MCBlocks   == (c1 :> 1) @@ (c2 :> 2) @@ (c3 :> 0)
=============================================================================
