------------------------------ MODULE MCSignals ------------------------------
(* alice offers and sends a candidate, bob offers; the two offers happen to *)
(* be given the same id.                                                    *)
EXTENDS Signals

CONSTANTS alice, bob, offer, candidate, call, id1, id2

MCSenderOf == [s \in Signals |-> IF s = call THEN bob ELSE alice]
MCMsgId == [s \in Signals |-> IF s = candidate THEN id2 ELSE id1]
MCTotal == [s \in Signals |-> IF s = offer THEN 3 ELSE 2]
MCBlank == {<<offer, 1>>}
=============================================================================
