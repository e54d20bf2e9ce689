---------------------------- MODULE MCMessageLog -----------------------------
(* MessageLog with two clients. *)
EXTENDS MessageLog

CONSTANTS alice, bob

(* alice has even learned her own key, as the second session of a user does; *)
(* bob has learned none yet, and takes whatever verifies.                  *)
MCKnown == [n \in Nodes |-> IF n = alice THEN {alice, bob} ELSE {}]

(* Everyone knows the key of everyone else. *)
MCKnowOthers == [n \in Nodes |-> Nodes \ {n}]
=============================================================================
