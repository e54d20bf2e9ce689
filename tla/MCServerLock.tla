---------------------------- MODULE MCServerLock -----------------------------
(* ServerLock with two connections and the accept loop. *)
EXTENDS ServerLock

CONSTANTS c1, c2
=============================================================================
