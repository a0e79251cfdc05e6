----------------------------- MODULE MCFileSeal -----------------------------
(* TLC instances of FileSeal: blocks of two bytes, a counter of three bits *)
(* in a nonce of five, so the native counter ends after the eighth frame   *)
(* and Dart's signed one turns negative after the fourth.  MCFileSeal.cfg  *)
(* goes up to the end of the counter, MCFileSealOpens.cfg takes short      *)
(* files that grow while being sealed.                                     *)
EXTENDS FileSeal
=============================================================================
