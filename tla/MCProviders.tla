---------------------------- MODULE MCProviders -----------------------------
(* The TLC instance of Providers and Selector: one process with one        *)
(* library, two isolates that resolve their backends beside the providers  *)
(* and give them to two clients, two values to compare or a value and a    *)
(* signature.                                                              *)
EXTENDS Providers
=============================================================================
