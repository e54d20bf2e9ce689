------------------------------- MODULE MCAudio ------------------------------
(* Instances of Audio for TLC: a host and two friends. *)
EXTENDS Audio

CONSTANTS ann, bob, hal
=============================================================================
