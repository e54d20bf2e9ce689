---------------------------- MODULE SignalChannel ----------------------------
(***************************************************************************)
(* What the signalling promises to the call set-up: a signal handed over   *)
(* comes out at most once, whole, under the name of its sender, or not at  *)
(* all; what is lost stays lost, and signals may overtake each other.      *)
(***************************************************************************)
EXTENDS Sequences

CONSTANTS
    Signals,   \* everything that is ever signalled
    Whole(_)   \* the event a signal becomes at the receiver

VARIABLES
    pending,   \* signals handed over and not yet out
    events     \* what came out, in order

Init == pending = {} /\ events = <<>>

HandOver(s) ==
    /\ s \notin pending
    /\ Whole(s) \notin {events[i] : i \in DOMAIN events}
    /\ pending' = pending \cup {s}
    /\ UNCHANGED events

(* Losing is noticed late or never, and may happen to several at once. *)
Lose(gone) ==
    /\ pending' = pending \ gone
    /\ UNCHANGED events

Deliver(s, gone) ==
    /\ s \in pending
    /\ pending' = pending \ ({s} \cup gone)
    /\ events' = Append(events, Whole(s))

Next ==
    \/ \E s \in Signals : HandOver(s)
    \/ \E gone \in SUBSET Signals : Lose(gone) \/ \E s \in Signals : Deliver(s, gone)

Spec == Init /\ [][Next]_<<pending, events>>
=============================================================================
