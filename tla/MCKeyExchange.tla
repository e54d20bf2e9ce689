---------------------------- MODULE MCKeyExchange ----------------------------
(* Instances of KeyExchange for TLC: every user has a nick and a key. *)
EXTENDS KeyExchange

CONSTANTS a1, a2, ip1, n1, n2, k1, k2, lobby, den

MCIpOf == [a \in Addrs |-> ip1]
MCKeyOf == [a \in Addrs |-> IF a = a1 THEN k1 ELSE k2]
MCNickOf == [a \in Addrs |-> IF a = a1 THEN n1 ELSE n2]
MCPowBits == [p \in Nicks \X Keys |-> 0]
=============================================================================
