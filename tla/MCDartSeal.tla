----------------------------- MODULE MCDartSeal -----------------------------
(* TLC instance of DartSeal with its buffers: frames of three bytes,       *)
(* sources of up to sixteen (five full frames and a rest), events from     *)
(* empty to eight bytes (two chunks and a rest).                           *)
EXTENDS SealBuffers
=============================================================================
