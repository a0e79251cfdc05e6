----------------------------- MODULE MCEnvelope -----------------------------
(* TLC instances of Envelope: two seals, two KEM algorithms whose          *)
(* ciphertexts differ in length, two fields overwritten at once.  One aad  *)
(* is the first unit a sealed part could start with, so that bytes could   *)
(* move between the sealed part and the aad.                               *)
EXTENDS Envelope

MCAads == {NoAad, << <<"data", 1>> >>}
MCCiphertextUnits == <<1, 2>>
=============================================================================
