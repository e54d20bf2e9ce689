------------------------------- MODULE MCRoles ------------------------------
(* Instances of Roles for TLC. *)
EXTENDS Roles

CONSTANTS ann, hal, zoe, lobby, den

MCNickname == [u \in Users |-> IF u = ann THEN 1 ELSE IF u = hal THEN 2 ELSE 3]
=============================================================================
