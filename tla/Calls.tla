-------------------------------- MODULE Calls --------------------------------
(***************************************************************************)
(* One pair of clients sets up a call: the reader task of irc_client.rs,   *)
(* the event loop of gui.rs and the callbacks of webrtc_peer.rs, with the  *)
(* server between them reduced to what it relays from one to the other.    *)
(* The client with the lesser nick calls.  Others in the room are present  *)
(* only as the reason why a client announces its key again.                *)
(***************************************************************************)
EXTENDS Naturals, Sequences, FiniteSets

CONSTANTS
    Caller, Callee,  \* the clients; Caller has the lesser nick
    MaxConns,        \* bound: WebRTC connections created
    MaxMishaps       \* bound: departures, failures and errors

ASSUME PairAssumption == Caller # Callee
ASSUME BoundAssumption == MaxConns \in Nat \ {0} /\ MaxMishaps \in Nat

Nodes == {Caller, Callee}
Other(n) == IF n = Caller THEN Callee ELSE Caller
Conns == 1..MaxConns
NoConn == 0

VARIABLES
    inRoom,    \* what each client takes as its channel: this room, or another
    member,    \* whether the server has each client in the room
    wire,      \* lines each client has sent and the server has not relayed
    known,     \* known_pubkeys: whether a client knows the other's key
    events,    \* IrcEvents each event loop has not handled
    redials,   \* how many InternalSignal::Reconnect each loop has not handled
    loop,      \* what each event loop does
    peer,      \* peers: the connection to the other, in the map of each loop
    listed,    \* peer_states: whether the other is in each client's list
    conn,      \* the WebRTC connections
    mishaps,   \* how many mishaps there were
    dropped,   \* history: whether a signal was dropped for want of a key
    moved      \* history: the clients that have left the room

rooms == <<inRoom, member>>
tasks == <<events, redials, loop>>
bounds == <<mishaps, dropped, moved>>
vars == <<rooms, wire, known, tasks, peer, listed, conn, bounds>>

-----------------------------------------------------------------------------
(* "new": has a local description or is about to; "ready": has both; then   *)
(* "up", "down" and "failed" as RTCPeerConnectionState; "closed" by close().*)
(* gathered: the candidates were sent; got: a candidate of the remote was   *)
(* added; strayed: its own were not.                                       *)
Connection ==
    [owner : Nodes, state : {"new", "ready", "up", "down", "failed", "closed"},
     remote : Conns \cup {NoConn}, gathered : BOOLEAN, got : BOOLEAN, strayed : BOOLEAN]

Fresh(n, remote) ==
    [owner |-> n, state |-> IF remote = NoConn THEN "new" ELSE "ready", remote |-> remote,
     gathered |-> FALSE, got |-> FALSE, strayed |-> FALSE]

Signals == [cmd : {"OFFER", "CANDIDATE"}, from : Conns]
             \cup [cmd : {"ANSWER"}, to : Conns, from : Conns]
Presence == [cmd : {"JOIN", "PART", "HELLO"}]

Line(c) == [cmd |-> c]

Idle == [at |-> "idle"]
Steps == {Idle, [at |-> "backoff"]}
           \cup [at : {"offer", "answer"}, conn : Conns]

Created == DOMAIN conn

Sends(n, lines) == wire' = [wire EXCEPT ![n] = @ \o lines]

Init ==
    /\ inRoom = [n \in Nodes |-> FALSE]
    /\ member = [n \in Nodes |-> FALSE]
    /\ wire = [n \in Nodes |-> <<>>]
    /\ known = [n \in Nodes |-> FALSE]
    /\ events = [n \in Nodes |-> <<>>]
    /\ redials = [n \in Nodes |-> 0]
    /\ loop = [n \in Nodes |-> Idle]
    /\ peer = [n \in Nodes |-> NoConn]
    /\ listed = [n \in Nodes |-> FALSE]
    /\ conn = <<>>
    /\ mishaps = 0
    /\ dropped = FALSE
    /\ moved = {}

Mishap == mishaps < MaxMishaps /\ mishaps' = mishaps + 1

-----------------------------------------------------------------------------
(* The server and the readers.  Lines wait on the way to the server; what  *)
(* it relays is read at once, as if the rest of the delay came before.      *)

Reads(n, cmds) == wire[n] # <<>> /\ Head(wire[n]).cmd \in cmds

Told(n, cmd) == [events EXCEPT ![n] = Append(@, Line(cmd))]

(* The joiner gets the list of names; the other announces its key again. *)
RelayJoin(n) ==
    LET o == Other(n)
        rest == [wire EXCEPT ![n] = Tail(@)]
    IN  /\ Reads(n, {"JOIN"})
        /\ member' = [member EXCEPT ![n] = TRUE]
        /\ \/ /\ member[o]
              /\ events' = [m \in Nodes |-> Append(events[m], Line("JOINED"))]
              /\ wire' = [rest EXCEPT ![o] = Append(@, Line("HELLO"))]
           \/ /\ ~member[o]
              /\ wire' = rest
              /\ UNCHANGED events
        /\ UNCHANGED <<inRoom, known, redials, loop, peer, listed, conn, bounds>>

(* PART, and the QUIT of a connection that ends: the reader forgets the     *)
(* peer by itself, and tells the event loop.                               *)
RelayPart(n) ==
    LET o == Other(n)
    IN  /\ Reads(n, {"PART"})
        /\ wire' = [wire EXCEPT ![n] = Tail(@)]
        /\ member' = [member EXCEPT ![n] = FALSE]
        /\ \/ /\ member[o]
              /\ known' = [known EXCEPT ![o] = FALSE]
              /\ listed' = [listed EXCEPT ![o] = FALSE]
              /\ events' = Told(o, "LEFT")
           \/ ~member[o] /\ UNCHANGED <<known, listed, events>>
        /\ UNCHANGED <<inRoom, redials, loop, peer, conn, bounds>>

(* A HELLO becomes VOIRC_PUBKEY for those in the room. *)
RelayHello(n) ==
    LET o == Other(n)
    IN  /\ Reads(n, {"HELLO"})
        /\ wire' = [wire EXCEPT ![n] = Tail(@)]
        /\ known' = [known EXCEPT ![o] = @ \/ (member[n] /\ member[o])]
        /\ UNCHANGED <<rooms, tasks, peer, listed, conn, bounds>>

(* A signal goes to the other wherever it is, and needs a key known there. *)
RelaySignal(n) ==
    LET o == Other(n)
    IN  /\ Reads(n, {"OFFER", "ANSWER", "CANDIDATE"})
        /\ wire' = [wire EXCEPT ![n] = Tail(@)]
        /\ events' = IF known[o] THEN [events EXCEPT ![o] = Append(@, Head(wire[n]))] ELSE events
        /\ dropped' = (dropped \/ ~known[o])
        /\ UNCHANGED <<rooms, known, redials, loop, peer, listed, conn, mishaps, moved>>

(* Someone else joins the room, and the client announces its key. *)
Announce(n) ==
    /\ member[n] /\ member[Other(n)] /\ ~known[Other(n)]
    /\ Line("HELLO") \notin {wire[n][i] : i \in DOMAIN wire[n]}
    /\ Sends(n, <<Line("HELLO")>>)
    /\ UNCHANGED <<rooms, known, tasks, peer, listed, conn, bounds>>

-----------------------------------------------------------------------------
(* The event loop: what the user asks for. *)

Closed(n) ==
    IF peer[n] = NoConn THEN conn ELSE [conn EXCEPT ![peer[n]].state = "closed"]

Forgets(n) ==
    /\ peer' = [peer EXCEPT ![n] = NoConn]
    /\ listed' = [listed EXCEPT ![n] = FALSE]
    /\ known' = [known EXCEPT ![n] = FALSE]
    /\ conn' = Closed(n)

(* SwitchChannel, into this room (or the first JOIN) and out of it. *)
Enter(n) ==
    /\ loop[n] = Idle /\ ~inRoom[n]
    /\ Forgets(n)
    /\ Sends(n, <<Line("JOIN")>>)
    /\ inRoom' = [inRoom EXCEPT ![n] = TRUE]
    /\ UNCHANGED <<member, tasks, bounds>>

LeaveRoom(n) ==
    /\ loop[n] = Idle /\ inRoom[n]
    /\ Mishap
    /\ Forgets(n)
    /\ Sends(n, <<Line("PART")>>)
    /\ inRoom' = [inRoom EXCEPT ![n] = FALSE]
    /\ moved' = moved \cup {n}
    /\ UNCHANGED <<member, tasks, dropped>>

-----------------------------------------------------------------------------
(* The event loop: what the reader and the connections report. *)

Handles(n, cmd) == loop[n] = Idle /\ events[n] # <<>> /\ Head(events[n]).cmd = cmd

Done(n) == events' = [events EXCEPT ![n] = Tail(@)]

(* Mutation: both clients call. *)
MayCallAnyway(n) == n \in Nodes

(* The tie-break on the nicks. *)
MayCall(n) == n = Caller

(* WebRtcPeer::new and the local description; "failing" is the error path. *)
Creates(n, step, remote) ==
    \/ /\ Len(conn) < MaxConns
       /\ conn' = Append(conn, Fresh(n, remote))
       /\ loop' = [loop EXCEPT ![n] = [at |-> step, conn |-> Len(conn) + 1]]
       /\ UNCHANGED mishaps
    \/ /\ Mishap
       /\ loop' = [loop EXCEPT ![n] = Idle]
       /\ UNCHANGED conn

HandleJoined(n) ==
    /\ Handles(n, "JOINED") /\ Done(n)
    /\ listed' = [listed EXCEPT ![n] = TRUE]
    /\ \/ MayCall(n) /\ Creates(n, "offer", NoConn)
       \/ ~MayCall(n) /\ UNCHANGED <<loop, conn, mishaps>>
    /\ UNCHANGED <<rooms, wire, known, redials, peer, dropped, moved>>

(* Mutation: the connection is closed and stays in the map. *)
HandleLeftKept(n) ==
    /\ Handles(n, "LEFT") /\ Done(n)
    /\ conn' = Closed(n)
    /\ listed' = [listed EXCEPT ![n] = FALSE]
    /\ UNCHANGED <<rooms, wire, known, redials, loop, peer, bounds>>

(* The key goes too, even if it was learned after the peer came back. *)
HandleLeft(n) ==
    /\ Handles(n, "LEFT") /\ Done(n)
    /\ Forgets(n)
    /\ UNCHANGED <<rooms, wire, redials, loop, bounds>>

HandleOffer(n) ==
    /\ Handles(n, "OFFER") /\ Done(n)
    /\ listed' = [listed EXCEPT ![n] = TRUE]
    /\ Creates(n, "answer", Head(events[n]).from)
    /\ UNCHANGED <<rooms, wire, known, redials, peer, dropped, moved>>

(* set_remote_description takes any answer, and only after an offer. *)
HandleAnswer(n) ==
    /\ Handles(n, "ANSWER") /\ Done(n)
    /\ LET p == peer[n]
           expected == p # NoConn /\ conn[p].state = "new"
       IN  \/ /\ expected
              /\ conn' = [conn EXCEPT ![p] =
                             [@ EXCEPT !.state = "ready", !.remote = Head(events[n]).from]]
           \/ ~expected /\ UNCHANGED conn
    /\ UNCHANGED <<rooms, wire, known, redials, loop, peer, listed, bounds>>

(* A candidate that finds no remote description, or another, is of no use. *)
HandleCandidate(n) ==
    /\ Handles(n, "CANDIDATE") /\ Done(n)
    /\ LET p == peer[n]
           c == Head(events[n]).from
           fits == p # NoConn /\ conn[p].remote = c
       IN  \/ /\ fits
              /\ conn' = [conn EXCEPT ![p].got = TRUE]
           \/ /\ ~fits
              /\ conn' = [conn EXCEPT ![c].strayed = TRUE]
    /\ UNCHANGED <<rooms, wire, known, redials, loop, peer, listed, bounds>>

(* Mutation: only the caller keeps its connection. *)
PlacesOffers(n) ==
    /\ loop[n].at \in {"offer", "answer"}
    /\ LET c == loop[n].conn
       IN  IF loop[n].at = "offer"
           THEN /\ peer' = [peer EXCEPT ![n] = c]
                /\ Sends(n, <<[cmd |-> "OFFER", from |-> c]>>)
           ELSE /\ Sends(n, <<[cmd |-> "ANSWER", to |-> conn[c].remote, from |-> c]>>)
                /\ UNCHANGED peer
    /\ loop' = [loop EXCEPT ![n] = Idle]
    /\ UNCHANGED <<rooms, known, events, redials, listed, conn, bounds>>

(* Insert the connection, over any other, and send its description. *)
Places(n) ==
    /\ loop[n].at \in {"offer", "answer"}
    /\ LET c == loop[n].conn
           signal == IF loop[n].at = "offer" THEN [cmd |-> "OFFER", from |-> c]
                     ELSE [cmd |-> "ANSWER", to |-> conn[c].remote, from |-> c]
       IN  /\ peer' = [peer EXCEPT ![n] = c]
           /\ Sends(n, <<signal>>)
    /\ loop' = [loop EXCEPT ![n] = Idle]
    /\ UNCHANGED <<rooms, known, events, redials, listed, conn, bounds>>

(* Mutation: a reconnection nobody asked for. *)
HandleReconnectUnasked(n) ==
    /\ loop[n] = Idle /\ listed[n]
    /\ redials' = [redials EXCEPT ![n] = @ - 1]
    /\ peer' = [peer EXCEPT ![n] = NoConn]
    /\ loop' = [loop EXCEPT ![n] = [at |-> "backoff"]]
    /\ UNCHANGED <<rooms, wire, known, events, listed, conn, bounds>>

(* Reconnect: the connection is removed, not closed; then the loop sleeps. *)
HandleReconnect(n) ==
    /\ loop[n] = Idle /\ redials[n] > 0
    /\ redials' = [redials EXCEPT ![n] = @ - 1]
    /\ peer' = [peer EXCEPT ![n] = NoConn]
    /\ loop' = [loop EXCEPT ![n] = IF listed[n] THEN [at |-> "backoff"] ELSE Idle]
    /\ UNCHANGED <<rooms, wire, known, events, listed, conn, bounds>>

EndBackoff(n) ==
    /\ loop[n].at = "backoff"
    /\ \/ /\ MayCall(n)
          /\ listed' = [listed EXCEPT ![n] = TRUE]
          /\ Creates(n, "offer", NoConn)
       \/ /\ ~MayCall(n)
          /\ loop' = [loop EXCEPT ![n] = Idle]
          /\ UNCHANGED <<listed, conn, mishaps>>
    /\ UNCHANGED <<rooms, wire, known, events, redials, peer, dropped, moved>>

-----------------------------------------------------------------------------
(* The WebRTC connections. *)

Gathers(c) ==
    /\ ~conn[c].gathered /\ conn[c].state \in {"new", "ready"}
    /\ conn' = [conn EXCEPT ![c].gathered = TRUE]
    /\ Sends(conn[c].owner, <<[cmd |-> "CANDIDATE", from |-> c]>>)
    /\ UNCHANGED <<rooms, known, tasks, peer, listed, bounds>>

(* Each end has the other's description, and one of them a candidate. *)
Reachable(c) ==
    LET d == conn[c].remote
    IN  /\ d # NoConn /\ conn[d].remote = c
        /\ conn[d].state \in {"ready", "up", "down"}
        /\ conn[c].got \/ conn[d].got

ConnUp(c) ==
    /\ conn[c].state \in {"ready", "down"} /\ Reachable(c)
    /\ conn' = [conn EXCEPT ![c].state = "up"]
    /\ listed' = [listed EXCEPT ![conn[c].owner] = TRUE]
    /\ UNCHANGED <<rooms, wire, known, tasks, peer, bounds>>

(* Disconnected and Failed each ask for a reconnection. *)
ConnBreaks(c) ==
    /\ Mishap
    /\ \/ conn[c].state = "up" /\ conn' = [conn EXCEPT ![c].state = "down"]
       \/ conn[c].state \in {"ready", "down"} /\ conn' = [conn EXCEPT ![c].state = "failed"]
    /\ listed' = [listed EXCEPT ![conn[c].owner] = TRUE]
    /\ redials' = [redials EXCEPT ![conn[c].owner] = @ + 1]
    /\ UNCHANGED <<rooms, wire, known, events, loop, peer, dropped, moved>>

-----------------------------------------------------------------------------
Relay(n) == RelayJoin(n) \/ RelayPart(n) \/ RelayHello(n) \/ RelaySignal(n)

HandleEvent(n) ==
    HandleJoined(n) \/ HandleLeft(n) \/ HandleOffer(n) \/ HandleAnswer(n) \/ HandleCandidate(n)

LoopStep(n) == HandleEvent(n) \/ Places(n) \/ HandleReconnect(n) \/ EndBackoff(n)

Next ==
    \/ \E n \in Nodes : Relay(n) \/ LoopStep(n)
    \/ \E n \in Nodes : Enter(n) \/ LeaveRoom(n) \/ Announce(n)
    \/ \E c \in Created : Gathers(c) \/ ConnUp(c) \/ ConnBreaks(c)

(* The tasks and the connections go on; users do as they like. *)
Fairness ==
    /\ \A n \in Nodes : WF_vars(Relay(n)) /\ WF_vars(LoopStep(n))
    /\ \A c \in Conns : WF_vars(c \in Created /\ Gathers(c)) /\ WF_vars(c \in Created /\ ConnUp(c))

Spec == Init /\ [][Next]_vars /\ Fairness

-----------------------------------------------------------------------------
(* Every variable keeps the type of what it models. *)
TypeOK ==
    /\ inRoom \in [Nodes -> BOOLEAN] /\ member \in [Nodes -> BOOLEAN]
    /\ wire \in [Nodes -> Seq(Signals \cup Presence)]
    /\ known \in [Nodes -> BOOLEAN] /\ listed \in [Nodes -> BOOLEAN]
    /\ events \in [Nodes -> Seq(Signals \cup [cmd : {"JOINED", "LEFT"}])]
    /\ redials \in [Nodes -> 0..MaxMishaps]
    /\ loop \in [Nodes -> Steps]
    /\ peer \in [Nodes -> Created \cup {NoConn}]
    /\ conn \in Seq(Connection) /\ Len(conn) <= MaxConns
    /\ mishaps \in 0..MaxMishaps /\ dropped \in BOOLEAN /\ moved \subseteq Nodes

Owned(n) == {c \in Created : conn[c].owner = n}

(* A connection that is neither in the map nor closed: its callbacks go on. *)
Orphan(n) ==
    \E c \in Owned(n) : /\ conn[c].state # "closed" /\ c # peer[n]
                        /\ loop[n] \notin [at : {"offer", "answer"}, conn : {c}]

Settled ==
    \A n \in Nodes : /\ wire[n] = <<>> /\ events[n] = <<>>
                     /\ redials[n] = 0 /\ loop[n] = Idle

(* While nothing goes wrong, the two clients make one connection each,      *)
(* whoever came first and however their signals cross: there is no glare.   *)
OneConnectionEach == mishaps = 0 => \A n \in Nodes : Cardinality(Owned(n)) <= 1

(* A client that was there all the time ends with no call to a peer who     *)
(* left and does not list it, unless it once let go of a connection without *)
(* closing it (the callbacks of that one bring the peer back).              *)
NoCallWithTheDeparted ==
    \A n \in Nodes \ moved :
        Settled /\ inRoom[n] /\ ~inRoom[Other(n)] /\ ~Orphan(n) =>
            peer[n] = NoConn /\ ~listed[n]

InCall ==
    LET x == peer[Caller]
        y == peer[Callee]
    IN  /\ x # NoConn /\ y # NoConn
        /\ conn[x].state = "up" /\ conn[y].state = "up"
        /\ conn[x].remote = y /\ conn[y].remote = x

(* Two clients in the room come to talk, whatever the order of joins, keys, *)
(* offers, answers and candidates, unless a signal was dropped for want of  *)
(* a key, the candidates of both came too early, or something went wrong.   *)
CallComesUp ==
    (\A n \in Nodes : inRoom[n]) ~>
        \/ InCall
        \/ mishaps > 0 \/ dropped
        \/ Cardinality({c \in Created : conn[c].strayed}) = 2
=============================================================================
