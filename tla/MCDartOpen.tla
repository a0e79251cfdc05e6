----------------------------- MODULE MCDartOpen -----------------------------
(* TLC instance of DartOpen: the opener cuts at chunks of two bytes, the   *)
(* sealer may have used one, two or three; the tag has two bytes, so that  *)
(* a tail shorter than a tag exists.                                       *)
EXTENDS DartOpen, MCWires
=============================================================================
