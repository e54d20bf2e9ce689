------------------------------- MODULE Signals -------------------------------
(***************************************************************************)
(* A WebRTC signal is cut into fragments that fit a line of the server     *)
(* (send_webrtc_signal) and put together again by the reader of the        *)
(* receiver (handle_fragment, src/src/irc_client.rs).  Several clients     *)
(* signal one receiver; in each, the event loop (offers and answers) and   *)
(* the task that forwards candidates send at the same time.                *)
(***************************************************************************)
EXTENDS Naturals, Sequences, FiniteSets

CONSTANTS
    Senders,    \* the nicks that signal the receiver
    Signals,    \* the signals of this run
    SenderOf,   \* who sends each signal
    MsgId,      \* the id a signal is given: eight digits drawn at random
    Total,      \* the number of its fragments of up to 400 bytes
    Blank,      \* <<signal, number>> of the fragments that end in a blank
    MaxForgets  \* bound: how often a key is forgotten

Tasks == Senders \X {"loop", "forwarder"}

(* Random ids: those of one sender differ. *)
ASSUME SignalAssumption ==
    /\ SenderOf \in [Signals -> Senders]
    /\ Total \in [Signals -> Nat \ {0}]
    /\ \A r, s \in Signals : SenderOf[r] = SenderOf[s] /\ MsgId[r] = MsgId[s] => r = s

VARIABLES
    unsent,     \* signals nobody has begun to send
    sending,    \* the signal each task is sending, and the next fragment
    wire,       \* each sender's fragments the receiver has not read
    known,      \* the senders whose key the receiver knows
    fragments,  \* HandlerContext.fragments: the buffers of the reader
    events,     \* the WebRtcSignal events, oldest first
    forgets,    \* how often a key was forgotten
    lost        \* history: signals of which a fragment was thrown away

vars == <<unsent, sending, wire, known, fragments, events, forgets, lost>>

-----------------------------------------------------------------------------
None == [at |-> "idle"]
Busy(s, i) == [at |-> "sending", signal |-> s, next |-> i]

(* A fragment, and whether it came out of the server shorter than it was. *)
Piece(s, i, cut) == [signal |-> s, seq |-> i, cut |-> cut]

(* The server reads a line with line.trim(). *)
Relayed(s, i) == Piece(s, i, <<s, i>> \in Blank)

(* Mutation: one buffer per sender. *)
KeyOfSender(s) == <<SenderOf[s]>>

(* Mutation: one buffer per id. *)
KeyOfIdOnly(s) == <<MsgId[s]>>

Key(s) == <<SenderOf[s], MsgId[s]>>

(* An event: the payload is its pieces in the order of their numbers. *)
Event(sender, parts) == [from |-> sender, payload |-> parts]

Keys == {Key(s) : s \in Signals}

Init ==
    /\ unsent = Signals
    /\ sending = [t \in Tasks |-> None]
    /\ wire = [n \in Senders |-> <<>>]
    /\ known = Senders
    /\ fragments = <<>>
    /\ events = <<>>
    /\ forgets = 0
    /\ lost = {}

-----------------------------------------------------------------------------
(* The senders. *)

Begin(t) ==
    /\ sending[t] = None
    /\ \E s \in unsent :
          /\ SenderOf[s] = t[1]
          /\ sending' = [sending EXCEPT ![t] = Busy(s, 1)]
          /\ unsent' = unsent \ {s}
    /\ UNCHANGED <<wire, known, fragments, events, forgets, lost>>

(* Mutation: all but the last. *)
SendFragmentShort(t) ==
    /\ sending[t] # None
    /\ LET s == sending[t].signal
           i == sending[t].next
       IN  /\ wire' = [wire EXCEPT ![t[1]] = Append(@, Relayed(s, i))]
           /\ sending' = [sending EXCEPT ![t] = IF i + 1 >= Total[s] THEN None ELSE Busy(s, i + 1)]
    /\ UNCHANGED <<unsent, known, fragments, events, forgets, lost>>

(* One send_raw of the loop over the chunks. *)
SendFragment(t) ==
    /\ sending[t] # None
    /\ LET s == sending[t].signal
           i == sending[t].next
       IN  /\ wire' = [wire EXCEPT ![t[1]] = Append(@, Relayed(s, i))]
           /\ sending' = [sending EXCEPT ![t] = IF i = Total[s] THEN None ELSE Busy(s, i + 1)]
    /\ UNCHANGED <<unsent, known, fragments, events, forgets, lost>>

-----------------------------------------------------------------------------
(* The reader of the receiver. *)

Without(buffers, ks) == [k \in DOMAIN buffers \ ks |-> buffers[k]]

With(buffers, k, b) == [j \in DOMAIN buffers \cup {k} |-> IF j = k THEN b ELSE buffers[j]]

Stale == {k \in DOMAIN fragments : fragments[k].stale}

Pieces(b) == {b.parts[i] : i \in DOMAIN b.parts}

Expired == {p.signal : p \in UNION {Pieces(fragments[k]) : k \in Stale}}

(* Every message first sweeps the buffers that nothing came for in 60 s. *)
ReadOther ==
    /\ Stale # {}
    /\ fragments' = Without(fragments, Stale)
    /\ lost' = lost \cup Expired
    /\ UNCHANGED <<unsent, sending, wire, known, events, forgets>>

(* The buffer under k with p in it; its total is that of its first piece. *)
Filled(buffers, k, p) ==
    LET old == IF k \in DOMAIN buffers THEN buffers[k]
               ELSE [parts |-> <<>>, total |-> Total[p.signal]]
    IN  [parts |-> [i \in DOMAIN old.parts \cup {p.seq} |->
                        IF i = p.seq THEN p ELSE old.parts[i]],
         total |-> old.total, stale |-> FALSE]

(* Mutation: the fragments are counted before the insertion. *)
FullBefore(b) == Cardinality(DOMAIN b.parts) - 1 = b.total

Full(b) == Cardinality(DOMAIN b.parts) = b.total

(* A fragment of someone whose key is not known is dropped. *)
DropFragment(n) ==
    /\ wire[n] # <<>> /\ n \notin known
    /\ wire' = [wire EXCEPT ![n] = Tail(@)]
    /\ fragments' = Without(fragments, Stale)
    /\ lost' = lost \cup Expired \cup {Head(wire[n]).signal}
    /\ UNCHANGED <<unsent, sending, known, events, forgets>>

ReadFragment(n) ==
    /\ wire[n] # <<>> /\ n \in known
    /\ wire' = [wire EXCEPT ![n] = Tail(@)]
    /\ LET p == Head(wire[n])
           k == Key(p.signal)
           swept == Without(fragments, Stale)
           b == Filled(swept, k, p)
       IN  \/ /\ Full(b)
              /\ fragments' = Without(swept, {k})
              /\ events' = Append(events, Event(n, b.parts))
           \/ /\ ~Full(b)
              /\ fragments' = With(swept, k, b)
              /\ UNCHANGED events
    /\ lost' = lost \cup Expired
    /\ UNCHANGED <<unsent, sending, known, forgets>>

-----------------------------------------------------------------------------
(* The environment: 60 seconds go by; keys come and go (see KeyExchange). *)

TimePasses ==
    /\ Stale # DOMAIN fragments
    /\ fragments' = [k \in DOMAIN fragments |-> [fragments[k] EXCEPT !.stale = TRUE]]
    /\ UNCHANGED <<unsent, sending, wire, known, events, forgets, lost>>

Forget(n) ==
    /\ n \in known /\ forgets < MaxForgets
    /\ known' = known \ {n}
    /\ forgets' = forgets + 1
    /\ UNCHANGED <<unsent, sending, wire, fragments, events, lost>>

Learn(n) ==
    /\ n \notin known
    /\ known' = known \cup {n}
    /\ UNCHANGED <<unsent, sending, wire, fragments, events, forgets, lost>>

-----------------------------------------------------------------------------
Send(t) == Begin(t) \/ SendFragment(t)

Read(n) == ReadFragment(n) \/ DropFragment(n)

Next ==
    \/ \E t \in Tasks : Send(t)
    \/ \E n \in Senders : Read(n) \/ Forget(n) \/ Learn(n)
    \/ ReadOther \/ TimePasses

(* Tasks go on with what they are sending, the reader with what it is sent. *)
Fairness ==
    /\ \A t \in Tasks : WF_vars(SendFragment(t))
    /\ \A n \in Senders : WF_vars(Read(n))

Spec == Init /\ [][Next]_vars /\ Fairness

-----------------------------------------------------------------------------
(* The variables have their types. *)
TypeOK ==
    /\ unsent \subseteq Signals /\ lost \subseteq Signals /\ known \subseteq Senders
    /\ \A t \in Tasks : sending[t] # None => sending[t].next \in 1..Total[sending[t].signal]
    /\ DOMAIN fragments \subseteq Keys
    /\ \A k \in DOMAIN fragments :
          /\ DOMAIN fragments[k].parts # {}
          /\ Cardinality(DOMAIN fragments[k].parts) < fragments[k].total

(* Where the fragments of s are. *)
ToSend(s) == UNION {IF sending[t] # None /\ sending[t].signal = s
                    THEN sending[t].next .. Total[s] ELSE {} : t \in Tasks}

OnWire(s) ==
    LET w == wire[SenderOf[s]]
    IN  {w[i].seq : i \in {j \in DOMAIN w : w[j].signal = s}}

Kept(s) ==
    IF Key(s) \in DOMAIN fragments THEN DOMAIN fragments[Key(s)].parts ELSE {}

(* "Large SDP payloads are fragmented" (DESIGN.md:4): whole, but for the    *)
(* blanks in which a fragment ends, which the server takes off.            *)
WholeSignal(s) == Event(SenderOf[s], [i \in 1..Total[s] |-> Relayed(s, i)])

Arrived == {s \in Signals : \E i \in DOMAIN events :
                               /\ events[i].from = SenderOf[s]
                               /\ \E j \in DOMAIN events[i].payload :
                                     events[i].payload[j].signal = s}

Begun == Signals \ unsent

(* Until a signal has arrived or one of its fragments was thrown away, its  *)
(* fragments are all there: to be sent, on the way or in the buffer, each   *)
(* once, and no buffer waits for a fragment that will not come.             *)
NothingVanishes ==
    \A s \in Begun \ (Arrived \cup lost) :
        /\ ToSend(s) \cup OnWire(s) \cup Kept(s) = 1..Total[s]
        /\ ToSend(s) \cap OnWire(s) = {} /\ OnWire(s) \cap Kept(s) = {}
        /\ ToSend(s) \cap Kept(s) = {}

Channel == INSTANCE SignalChannel WITH pending <- Begun \ (Arrived \cup lost), Whole <- WholeSignal

(* Interleaved fragments of two tasks and two senders, keys forgotten in    *)
(* the middle and buffers that expire: what comes out is what went in, once *)
(* and under the right name.                                               *)
ImplementsChannel == Channel!Spec

(* A signal comes out in the end, unless a fragment of it was thrown away   *)
(* for want of a key or after 60 s without another.                        *)
SignalsArrive == \A s \in Signals : s \in Begun ~> s \in Arrived \cup lost
=============================================================================
