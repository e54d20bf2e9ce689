------------------------------- MODULE MCCalls -------------------------------
(* Calls between two clients. *)
EXTENDS Calls

CONSTANTS alice, bob
=============================================================================
