-------------------------------- MODULE Audio -------------------------------
(***************************************************************************)
(* The way of a voice packet: the mic, mix and forward tasks of            *)
(* src/src/gui.rs, the tracks of src/src/webrtc_peer.rs (external: RTP may *)
(* lose a packet), the TCP relay of src/src/relay.rs and the decoders of   *)
(* src/src/voice_mixer.rs.  Nobody learns a host's role (Roles), so all    *)
(* call all, and the host forwards on top of that.  A packet is known by   *)
(* its speaker and a number.                                               *)
(***************************************************************************)
EXTENDS Integers, FiniteSets, SequencesExt

CONSTANTS
    Users,
    Superpeers,     \* the users whose state.our_role is host or mod
    MaxSpoken,      \* bound: packets
    MaxChanges,     \* bound: changes of a table of peers
    MaxLosses       \* bound: relay connections lost

ASSUME AudioAssumption ==
    /\ IsFiniteSet(Users) /\ Superpeers \subseteq Users
    /\ {MaxSpoken, MaxChanges, MaxLosses} \subseteq Nat

VARIABLES
    peers,     \* the table of calls, which the loop changes under its write guard
    relay,     \* the relay connection: "none", "greeted", "up", "lost"
    mic, mix, fwd,   \* the three channels between the tasks
    relaying,  \* what the mic task writes to the relay, under its read guard
    changing,  \* the peer whose call the event loop waits to change
    spoken, changes, losses,
    decoded,   \* history: the packets each user's mix task has decoded, a bag
    owed       \* history: <<p, u>> for packets spoken while both relays are up

vars == <<peers, relay, mic, mix, fwd, relaying, changing, spoken, changes, losses,
          decoded, owed>>

Packets == [by : Users, nth : 1..MaxSpoken]

Init ==
    /\ peers = [u \in Users |-> Users \ {u}]
    /\ relay = [u \in Users |-> "none"]
    /\ mic = [u \in Users |-> <<>>]
    /\ mix = [u \in Users |-> <<>>] /\ fwd = [u \in Users |-> <<>>]
    /\ relaying = [u \in Users |-> <<>>] /\ changing = [u \in Users |-> {}]
    /\ spoken = 0 /\ changes = 0 /\ losses = 0
    /\ decoded = [u \in Users |-> [p \in Packets |-> 0]]
    /\ owed = {}

-----------------------------------------------------------------------------
(* The relay connection. *)

(* The client connects and sends its nick; it may write at once. *)
RelayConnect(u) ==
    /\ relay[u] = "none"
    /\ relay' = [relay EXCEPT ![u] = "greeted"]
    /\ UNCHANGED <<peers, mic, mix, fwd, relaying, changing, spoken, changes, losses,
                   decoded, owed>>

(* The relay reads the nick and enters the client in its table. *)
RelayAccept(u) ==
    /\ relay[u] = "greeted"
    /\ relay' = [relay EXCEPT ![u] = "up"]
    /\ UNCHANGED <<peers, mic, mix, fwd, relaying, changing, spoken, changes, losses,
                   decoded, owed>>

(* The connection ends: the relay drops its entry, a write fails, and the  *)
(* client, which still holds the connection, never makes another.          *)
RelayLost(u) ==
    /\ relay[u] \in {"greeted", "up"} /\ losses < MaxLosses
    /\ losses' = losses + 1
    /\ relay' = [relay EXCEPT ![u] = "lost"]
    /\ owed' = {o \in owed : u # o[2] /\ u # o[1].by}
    /\ UNCHANGED <<peers, mic, mix, fwd, relaying, changing, spoken, changes, decoded>>

-----------------------------------------------------------------------------
(* The guard of the table of peers: a reader waits behind a waiting writer. *)

MayRead(u) == changing[u] = {}

(* The event loop is about to insert a peer or to remove one. *)
WantChange(u, v) ==
    /\ u # v /\ changing[u] = {} /\ changes < MaxChanges
    /\ changes' = changes + 1
    /\ changing' = [changing EXCEPT ![u] = {v}]
    /\ UNCHANGED <<peers, relay, mic, mix, fwd, relaying, spoken, losses, decoded, owed>>

(* The mic task is the only reader that holds its guard from one step to   *)
(* the next.                                                               *)
Change(u) ==
    /\ changing[u] # {} /\ relaying[u] = <<>>
    /\ peers' = [peers EXCEPT ![u] = SymDiff(@, changing[u])]
    /\ changing' = [changing EXCEPT ![u] = {}]
    /\ UNCHANGED <<relay, mic, mix, fwd, relaying, spoken, changes, losses, decoded, owed>>

-----------------------------------------------------------------------------
(* Speaking. *)

(* A frame above the noise floor is encoded: a packet of the microphone.    *)
Speak(u) ==
    /\ spoken < MaxSpoken
    /\ spoken' = spoken + 1
    /\ LET p == [by |-> u, nth |-> spoken + 1] IN
        /\ mic' = [mic EXCEPT ![u] = Append(@, p)]
        /\ owed' = IF relay[u] \in {"greeted", "up"}
                   THEN owed \cup {<<p, v>> : v \in {v \in Users \ {u} : relay[v] = "up"}}
                   ELSE owed
    /\ UNCHANGED <<peers, relay, mix, fwd, relaying, changing, changes, losses, decoded>>

(* A track's packet comes with the nick of the call, whoever spoke. *)
Heard(to, nick, p) == [v \in Users |-> IF v \in to THEN Append(mix[v], <<nick, p>>) ELSE mix[v]]

(* Mutation: the relay is used only by a user without calls. *)
HasRelayAlone(u) == relay[u] # "none" /\ peers[u] = {}

HasRelay(u) == relay[u] # "none"

(* The mic task: to every peer (any of the tracks may lose the packet, and *)
(* one whose call broke does), and then to the relay.                      *)
MicSends(u) ==
    /\ mic[u] # <<>> /\ relaying[u] = <<>> /\ MayRead(u)
    /\ mic' = [mic EXCEPT ![u] = Tail(@)]
    /\ \E to \in SUBSET peers[u] : mix' = Heard(to, u, Head(mic[u]))
    /\ relaying' = [relaying EXCEPT ![u] = IF HasRelay(u) THEN <<Head(mic[u])>> ELSE <<>>]
    /\ UNCHANGED <<peers, relay, fwd, changing, spoken, changes, losses, decoded, owed>>

(* Mutation: a write that failed is tried again until it succeeds. *)
WriteFailsNever(u) == FALSE

WriteFails(u) == relay[u] = "lost"

(* A write to a lost connection fails, and the error is ignored. *)
MicGivesUp(u) ==
    /\ relaying[u] # <<>> /\ WriteFails(u)
    /\ relaying' = [relaying EXCEPT ![u] = <<>>]
    /\ UNCHANGED <<peers, relay, mic, mix, fwd, changing, spoken, changes, losses, decoded,
                   owed>>

(* The relay's table without the one who sends. *)
RelayTargets(u) == {v \in Users \ {u} : relay[v] = "up"}

(* The relay reads the packet and passes it on with the nick of the        *)
(* handshake.  Until then the write is taken to wait (bound: the socket    *)
(* holds nothing), and the mic task keeps its read guard.                  *)
RelayForwards(u) ==
    /\ relay[u] = "up" /\ relaying[u] # <<>>
    /\ relaying' = [relaying EXCEPT ![u] = <<>>]
    /\ mix' = Heard(RelayTargets(u), u, relaying[u][1])
    /\ UNCHANGED <<peers, relay, mic, fwd, changing, spoken, changes, losses, decoded,
                   owed>>

-----------------------------------------------------------------------------
(* Hearing. *)

(* The mix task decodes, with the decoder of the nick that the packet came *)
(* with, and at a superpeer hands the packet on under that nick.           *)
Mix(u) ==
    /\ mix[u] # <<>>
    /\ mix' = [mix EXCEPT ![u] = Tail(@)]
    /\ LET nick == Head(mix[u])[1]  p == Head(mix[u])[2] IN
        /\ decoded' = [decoded EXCEPT ![u][p] = @ + 1]
        /\ fwd' = IF u \in Superpeers THEN [fwd EXCEPT ![u] = Append(@, <<nick, p>>)] ELSE fwd
    /\ UNCHANGED <<peers, relay, mic, relaying, changing, spoken, changes, losses, owed>>

(* Mutation: a packet is forwarded to the one it came from as well. *)
ForwardTargetsAll(u, nick) == peers[u]

ForwardTargets(u, nick) == peers[u] \ {nick}

(* The forward task: to every peer but the one whose nick it came with,    *)
(* with the same losses.                                                   *)
Forward(u) ==
    /\ fwd[u] # <<>> /\ MayRead(u)
    /\ fwd' = [fwd EXCEPT ![u] = Tail(@)]
    /\ \E to \in SUBSET ForwardTargets(u, Head(fwd[u])[1]) :
            mix' = Heard(to, u, Head(fwd[u])[2])
    /\ UNCHANGED <<peers, relay, mic, relaying, changing, spoken, changes, losses, decoded,
                   owed>>

-----------------------------------------------------------------------------
Next ==
    \/ \E u \in Users :
        \/ RelayConnect(u) \/ RelayAccept(u) \/ RelayLost(u)
        \/ Change(u) \/ Speak(u) \/ MicSends(u) \/ MicGivesUp(u) \/ RelayForwards(u)
        \/ Mix(u) \/ Forward(u)
    \/ \E u, v \in Users : WantChange(u, v)

(* The tasks go on, and the relay reads what its clients send. *)
Fairness ==
    \A u \in Users :
        /\ WF_vars(Change(u)) /\ WF_vars(MicSends(u)) /\ WF_vars(Mix(u))
        /\ WF_vars(RelayAccept(u) \/ RelayForwards(u) \/ MicGivesUp(u))

Spec == Init /\ [][Next]_vars /\ Fairness

-----------------------------------------------------------------------------
(* Properties. *)

TypeOK ==
    /\ peers \in [Users -> SUBSET Users]
    /\ relay \in [Users -> {"none", "greeted", "up", "lost"}]
    /\ \A u \in Users :
        /\ u \notin peers[u] /\ changing[u] \subseteq Users \ {u}
        /\ Range(relaying[u]) \cup Range(mic[u]) \subseteq Packets
        /\ Range(mix[u]) \cup Range(fwd[u]) \subseteq Users \X Packets
        /\ Len(relaying[u]) <= 1

(* Forwarding neither multiplies a packet nor sends it back: nobody hears   *)
(* themselves, and with one superpeer at most anybody else hears a packet  *)
(* from the call and from the relay, once from the speaker and once from   *)
(* the superpeer (gui.rs:1002-1005, 1193-1218, relay.rs:106-111).          *)
FewCopies ==
    \A u \in Users, p \in Packets :
        decoded[u][p] <= IF u = p.by THEN 0
                         ELSE 2 * (1 + Cardinality(Superpeers \ {u, p.by}))

(* A voice reaches whoever was on the relay when it was spoken, whatever   *)
(* becomes of the calls, unless a relay connection of the two is lost.     *)
RelayCovers == []<>(\A o \in owed : decoded[o[2]][o[1]] > 0)

(* The event loop gets the table of peers that the mic task holds across   *)
(* its write to the relay (gui.rs:1196-1203).                              *)
LoopGetsPeers == \A u \in Users : []<>(changing[u] = {})
=============================================================================
