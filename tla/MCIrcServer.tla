----------------------------- MODULE MCIrcServer -----------------------------
(* Instances of IrcServer for TLC. *)
EXTENDS IrcServer

CONSTANTS a1, a2, a3, ip1, ip2, n1, n2, k1, k2, ch

(* a1 and a2 are two connections from one host, a3 comes from another. *)
MCIpOf == [a \in Addrs |-> IF a = a3 THEN ip2 ELSE ip1]

(* a1 and a3 are the same user, who connects again from elsewhere. *)
MCKeyOf == [a \in Addrs |-> IF a = a2 THEN k2 ELSE k1]

(* The user of k1 has mined nick n1; n2 costs nothing. *)
MCPowBits == [p \in Nicks \X Keys |-> IF p = <<n1, k1>> THEN 8 ELSE 0]
=============================================================================
