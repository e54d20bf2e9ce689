----------------------------- MODULE MCSessions -----------------------------
(* Instances of Sessions for TLC: hashes of two bytes of two bits, one name *)
(* with two suffixes; nothing that is tried counts three bits.              *)
EXTENDS Sessions

CONSTANTS alice

MCFirstName == <<alice, Plain>>

MCTypedNames == {<<alice, Plain>>, <<alice, 1>>}

MCHash == [n \in Nicks |-> CASE n[2] = 0 -> <<1, 3>>      \* one bit
                             [] n[2] = 1 -> <<0, 3>>      \* two bits
                             [] OTHER -> <<0, 0>>]        \* four: the counter wraps

(* What SessionsProofs asks of the hashes. *)
ASSUME HashArithmetic ==
    \A nick \in Nicks, bits \in LinkBits : check_difficulty(nick, bits) => Meets(nick, bits)
=============================================================================
