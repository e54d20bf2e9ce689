------------------------------ MODULE Sessions ------------------------------
(***************************************************************************)
(* How one user's program comes into rooms and leaves them: the screens of *)
(* VoircApp, the miner that runs beside them, the tasks connect_to_server  *)
(* starts (src/src/gui.rs), the set-up of src/src/irc_client.rs and what   *)
(* the embedded server makes of it.  A session is one call of              *)
(* connect_to_server that got as far as starting its tasks.                *)
(***************************************************************************)
EXTENDS Pow

CONSTANTS
    Own, Far,      \* the room this user can host, and a room of someone else
    LinkBits,      \* difficulties that links to the far room carry
    Bits,          \* difficulties a host may choose
    FirstName,     \* display_name of a new configuration
    TypedNames,    \* names the user types into the settings
    MaxSessions,   \* bound: sessions of one run, and clients left over from earlier runs
    NoServer, NoLink

ASSUME SessionsAssumption ==
    /\ Own # Far /\ LinkBits \subseteq Nat /\ Bits \subseteq Nat
    /\ NoServer \notin Nat /\ FirstName \in Nicks /\ TypedNames \subseteq Nicks

VARIABLES
    name,          \* config.display_name
    hostLink,      \* the difficulty in host_link, or NoLink
    mining,        \* mining_in_progress
    queued,        \* the difficulty of the link in pending_connect, or NoLink
    miners,        \* the mine_nick tasks that are running
    mined,         \* mine_result
    sess,          \* the sessions of this run of the program, oldest first
    call,          \* the session of call_state, 0 for none
    required,      \* pow_required_bits of each room's server
    bound,         \* nick_pubkeys of each room's server, for this user's key
    leftover,      \* clients of earlier runs that the far server has not removed
    replaced       \* history: sessions whose call_state a mined nick replaced

app == <<name, hostLink, mining, queued, miners, mined, call, replaced>>
server == <<required, bound, leftover>>
vars == <<app, sess, server>>

Rooms == {Own, Far}

Leftovers == [nick : Nicks, authed : BOOLEAN]

Sessions ==
    [room : Rooms, nick : Nicks,
     checked : LinkBits \cup {0},                 \* the difficulty join_room asked for
     loop : {"connecting", "running", "over"},    \* the task with the event loop
     told : BOOLEAN,                              \* a Shutdown is in its queue
     at : {"connecting", "nick", "hello", "join", "lost"},  \* sent so far
     named : BOOLEAN, authed : BOOLEAN, member : BOOLEAN]   \* what the server keeps

NewSession(room, nick, bits) ==
    [room |-> room, nick |-> nick, checked |-> bits, loop |-> "connecting", told |-> FALSE,
     at |-> "connecting", named |-> FALSE, authed |-> FALSE, member |-> FALSE]

Room(s) == sess[s].room

Init ==
    /\ name = FirstName
    /\ hostLink = NoLink
    /\ mining = FALSE /\ queued = NoLink /\ miners = {} /\ mined = NoNick
    /\ sess = <<>> /\ call = 0 /\ replaced = {}
    /\ required \in [Rooms -> Bits \cup {NoServer}]
    /\ required[Own] = NoServer /\ required[Far] # NoServer
    /\ bound = [r \in Rooms |-> {}] /\ leftover = {}

-----------------------------------------------------------------------------
(* connect_to_server; without working sound output nothing happens.        *)

Starts(room, nick, bits) ==
    /\ Len(sess) + Cardinality(leftover) < MaxSessions
    /\ sess' = Append(sess, NewSession(room, nick, bits))
    /\ call' = Len(sess) + 1

NoSound == UNCHANGED <<sess, call>>

connect_to_server(room, nick, bits) ==
    Starts(room, nick, bits) \/ NoSound

-----------------------------------------------------------------------------
(* The screens.  A user who is not in a call reaches each of the others from *)
(* the dashboard; what one of them lets him do is an action.                *)
InMenu == call = 0

LeaveHostSetup ==
    /\ InMenu /\ hostLink # NoLink
    /\ hostLink' = NoLink
    /\ UNCHANGED <<name, mining, queued, miners, mined, call, replaced, sess, server>>

(* start_hosting.  A server that is running already keeps the port and its  *)
(* difficulty; the link says what the user has just chosen.                *)
StartHosting(b) ==
    /\ InMenu /\ hostLink = NoLink
    /\ hostLink' = b
    /\ required' = [required EXCEPT ![Own] = IF @ = NoServer THEN b ELSE @]
    /\ UNCHANGED <<name, mining, queued, miners, mined, call, replaced, sess, bound,
                   leftover>>

JoinOwnRoom ==
    /\ InMenu /\ hostLink # NoLink
    /\ connect_to_server(Own, name, 0)
    /\ UNCHANGED <<name, hostLink, mining, queued, miners, mined, replaced, server>>

(* Mutation: Connect stays on the screen while a nick is mined. *)
ConnectShown == InMenu

MayConnect == InMenu /\ ~mining

JoinRoom(bits) ==
    /\ MayConnect
    /\ check_difficulty(name, bits)
    /\ connect_to_server(Far, name, bits)
    /\ UNCHANGED <<name, hostLink, mining, queued, miners, mined, replaced, server>>

JoinRoomMining(bits) ==
    /\ MayConnect
    /\ ~check_difficulty(name, bits)
    /\ queued' = bits
    /\ mining' = TRUE
    /\ miners' = miners \cup {[base |-> BaseName(name), bits |-> bits]}
    /\ UNCHANGED <<name, hostLink, mined, call, replaced, sess, server>>

(* config.recent_servers outlives the program: any link may be among them,  *)
(* and nothing is asked of the name.                                        *)
PickRecent(room) ==
    /\ InMenu
    /\ connect_to_server(room, name, 0)
    /\ UNCHANGED <<name, hostLink, mining, queued, miners, mined, replaced, server>>

SaveSettings(n) ==
    /\ InMenu /\ n # name
    /\ name' = n
    /\ UNCHANGED <<hostLink, mining, queued, miners, mined, call, replaced, sess, server>>

(* Mutation: the screen closes and the event loop is not told. *)
LeaveUntold ==
    /\ call # 0
    /\ call' = 0
    /\ UNCHANGED <<name, hostLink, mining, queued, miners, mined, replaced, sess, server>>

Disconnect ==
    /\ call # 0
    /\ sess' = [sess EXCEPT ![call].told = TRUE]
    /\ call' = 0
    /\ UNCHANGED <<name, hostLink, mining, queued, miners, mined, replaced, server>>

(* A miner ends and leaves its result, None included. *)
MineEnds(m) ==
    /\ miners' = miners \ {m}
    /\ mined' = mine_nick(m.base, m.bits)
    /\ UNCHANGED <<name, hostLink, mining, queued, call, replaced, sess, server>>

(* Mutation: the result has to wait for the end of a call. *)
PollInMenu ==
    /\ mined # NoNick /\ InMenu
    /\ mined' = NoNick /\ mining' = FALSE /\ name' = mined
    /\ queued' = NoLink
    /\ IF queued = NoLink THEN UNCHANGED <<sess, call>>
       ELSE connect_to_server(Far, mined, queued)
    /\ UNCHANGED <<hostLink, miners, replaced, server>>

(* Every frame looks for a mined nick first, on whatever screen: the nick  *)
(* becomes the user's name, and the connection that waited for it is made. *)
Poll ==
    /\ mined # NoNick
    /\ mined' = NoNick /\ mining' = FALSE /\ name' = mined
    /\ queued' = NoLink
    /\ IF queued = NoLink THEN UNCHANGED <<sess, call>>
       ELSE connect_to_server(Far, mined, queued)
    /\ replaced' = IF call # 0 /\ call' # call THEN replaced \cup {call} ELSE replaced
    /\ UNCHANGED <<hostLink, miners, server>>

-----------------------------------------------------------------------------
(* The tasks of a session, and the room's server. *)

Session(s, step(_)) == sess' = [sess EXCEPT ![s] = step(@)]

(* IrcClient::connect succeeds, and NICK and USER reach the server; the     *)
(* event loop starts.  A nick with a binding is refused to a connection    *)
(* that has not said HELLO yet, whoever it is.                             *)
Connected(s) ==
    /\ sess[s].at = "connecting" /\ sess[s].loop = "connecting"
    /\ required[Room(s)] # NoServer
    /\ Session(s, LAMBDA x : [x EXCEPT !.at = "nick", !.loop = "running",
                                       !.named = x.nick \notin bound[Room(s)]])
    /\ UNCHANGED <<app, server>>

(* The connection fails, or takes more than 10 s. *)
ConnectFails(s) ==
    /\ sess[s].at = "connecting" /\ sess[s].loop = "connecting"
    /\ Session(s, LAMBDA x : [x EXCEPT !.at = "lost", !.loop = "over"])
    /\ UNCHANGED <<app, server>>

(* After 200 ms HELLO, and handle_hello. *)
Hello(s) ==
    /\ sess[s].at = "nick"
    /\ LET accepted == /\ sess[s].named
                       /\ check_difficulty(sess[s].nick, required[Room(s)])
       IN  /\ Session(s, LAMBDA x : [x EXCEPT !.at = "hello", !.authed = accepted])
           /\ bound' = [bound EXCEPT ![Room(s)] =
                            IF accepted THEN @ \cup {sess[s].nick} ELSE @]
    /\ UNCHANGED <<app, required, leftover>>

(* After 500 ms JOIN. *)
Join(s) ==
    /\ sess[s].at = "hello"
    /\ Session(s, LAMBDA x : [x EXCEPT !.at = "join", !.member = x.named])
    /\ UNCHANGED <<app, server>>

(* Mutation: the event loop does not end once the connection is lost. *)
LoopEndsConnected(s) ==
    /\ sess[s].loop = "running" /\ sess[s].told /\ sess[s].at # "lost"
    /\ Session(s, LAMBDA x : [x EXCEPT !.loop = "over"])
    /\ UNCHANGED <<app, server>>

(* The event loop reads Shutdown and ends.  The reader task goes on, and    *)
(* the connection with it.                                                 *)
LoopEnds(s) ==
    /\ sess[s].loop = "running" /\ sess[s].told
    /\ Session(s, LAMBDA x : [x EXCEPT !.loop = "over"])
    /\ UNCHANGED <<app, server>>

(* Mutation: the server forgets the client and keeps the binding. *)
Unbound(s, nicks) == IF s \in DOMAIN sess THEN nicks ELSE {}

(* The cleanup of a connection. *)
Released(s, nicks) == IF sess[s].named THEN nicks \ {sess[s].nick} ELSE nicks

(* The connection breaks; the reader ends, the event loop is not told.      *)
ConnectionLost(s) ==
    /\ sess[s].at \in {"nick", "hello", "join"}
    /\ Session(s, LAMBDA x : [x EXCEPT !.at = "lost"])
    /\ UNCHANGED <<app, server>>

(* The server comes to the end of what a lost connection sent and removes   *)
(* the client.  It never does where read_line fails instead: the handler    *)
(* returns the error, and the client and its binding stay.                  *)
ServerCleansUp(s) ==
    /\ sess[s].at = "lost" /\ sess[s].named
    /\ Session(s, LAMBDA x : [x EXCEPT !.named = FALSE, !.authed = FALSE, !.member = FALSE])
    /\ bound' = [bound EXCEPT ![Room(s)] = Released(s, @)]
    /\ UNCHANGED <<app, required, leftover>>

(* The same for a client of an earlier run; several may have had the nick.  *)
LeftoverCleanedUp(e) ==
    /\ \/ leftover' = leftover \ {e}
       \/ leftover' = leftover
    /\ bound' = [bound EXCEPT ![Far] = @ \ {e.nick}]
    /\ UNCHANGED <<app, sess, required>>

Abandoned == {s \in DOMAIN sess : Room(s) = Far /\ sess[s].named}

(* The user's own server ends with the program.  The other one still has   *)
(* the clients the program was, until it comes to the end of each.          *)
ServersGoOn ==
    /\ required' = [required EXCEPT ![Own] = NoServer]
    /\ bound' = [bound EXCEPT ![Own] = {}]
    /\ leftover' = leftover \cup
           {[nick |-> sess[s].nick, authed |-> sess[s].authed] : s \in Abandoned}

(* Mutation: the call screen comes back after a restart. *)
RestartInCall ==
    /\ sess # <<>>
    /\ hostLink' = NoLink
    /\ mining' = FALSE /\ queued' = NoLink /\ miners' = {} /\ mined' = NoNick
    /\ sess' = <<>> /\ replaced' = {}
    /\ ServersGoOn
    /\ UNCHANGED <<name, call>>

(* The program ends and is started again: what config.save wrote remains. *)
Restart ==
    /\ sess # <<>> \/ mining \/ hostLink # NoLink
    /\ hostLink' = NoLink
    /\ mining' = FALSE /\ queued' = NoLink /\ miners' = {} /\ mined' = NoNick
    /\ sess' = <<>> /\ call' = 0 /\ replaced' = {}
    /\ ServersGoOn
    /\ UNCHANGED name

-----------------------------------------------------------------------------
UserStep ==
    \/ LeaveHostSetup \/ JoinOwnRoom \/ Disconnect \/ Restart
    \/ \E b \in Bits : StartHosting(b)
    \/ \E b \in LinkBits : JoinRoom(b) \/ JoinRoomMining(b)
    \/ \E r \in Rooms : PickRecent(r)
    \/ \E n \in TypedNames : SaveSettings(n)

Mine == \E m \in miners : MineEnds(m)

TaskStep(s) == Connected(s) \/ ConnectFails(s) \/ Hello(s) \/ Join(s) \/ LoopEnds(s)

Next ==
    \/ UserStep \/ Mine \/ Poll
    \/ \E s \in DOMAIN sess : TaskStep(s) \/ ConnectionLost(s) \/ ServerCleansUp(s)
    \/ \E e \in leftover : LeftoverCleanedUp(e)

(* The miner has a bounded number of attempts and the window is drawn again *)
(* every 100 ms; the tasks of the sessions run, in whatever order.  No      *)
(* server need ever see the end of a connection.                            *)
Fairness == WF_vars(Mine \/ Poll) /\ WF_vars(\E s \in DOMAIN sess : TaskStep(s))

Spec == Init /\ [][Next]_vars /\ Fairness

-----------------------------------------------------------------------------
(* The variables have their types.                                          *)
TypeOK ==
    /\ name \in Nicks
    /\ hostLink \in Bits \cup {NoLink} /\ mining \in BOOLEAN
    /\ queued \in LinkBits \cup {NoLink} /\ mined \in Nicks \cup {NoNick}
    /\ miners \subseteq [base : Bases, bits : LinkBits]
    /\ sess \in Seq(Sessions) /\ call \in 0..Len(sess) /\ replaced \subseteq DOMAIN sess
    /\ required \in [Rooms -> Bits \cup {NoServer}] /\ bound \in [Rooms -> SUBSET Nicks]
    /\ leftover \subseteq Leftovers

(* A connection made from the join screen, at once or after mining, is made *)
(* under a nick whose hash is as small as the difficulty in its link says,  *)
(* whatever the user does to his name and to the screens while the miner    *)
(* runs.                                                                    *)
StrongEnough ==
    \A s \in DOMAIN sess :
        sess[s].checked # 0 => Meets(sess[s].nick, sess[s].checked)

(* Every event loop that is not in the hands of the call screen has been    *)
(* told to end, except one whose call a mined nick has replaced: there is   *)
(* never a second loop that nobody can stop otherwise.                     *)
LoopsInHand ==
    \A s \in DOMAIN sess :
        sess[s].loop = "over" \/ sess[s].told \/ s = call \/ s \in replaced

(* The client a nick is bound for: one of this run, or, in the other room,  *)
(* of an earlier one.                                                       *)
BackedBy(r, n) ==
    \/ \E s \in DOMAIN sess : Room(s) = r /\ sess[s].nick = n /\ sess[s].authed
    \/ r = Far /\ \E e \in leftover : e.nick = n /\ e.authed

(* A server holds a nick for this user only for a client of his that said   *)
(* HELLO under it and whose end it has not come to, however that client,    *)
(* others under the same nick and the program itself ended: what the server *)
(* has seen the end of leaves no binding behind.  (What it has not seen the *)
(* end of, after a read error, keeps the nick for good.)                    *)
BindingsAlive == \A r \in Rooms : \A n \in bound[r] : BackedBy(r, n)

(* The connection that waits for a nick is made or given up as soon as the  *)
(* miner is done, unless the miner finds nothing.                           *)
GivenUp == mining /\ miners = {} /\ mined = NoNick

QueueServed == queued # NoLink ~> queued = NoLink \/ GivenUp

(* After Disconnect the event loop of the session ends.                     *)
Leaving == {s \in DOMAIN sess : sess[s].told /\ sess[s].loop # "over"}

ToldLoopsEnd == Leaving # {} ~> Leaving = {}

(* "Nick -> pubkey binding: once set, only that key can claim the nick":    *)
(* that key can.  Whoever left a room with Disconnect and comes back under  *)
(* a nick that is strong enough is in the room when his JOIN is through.    *)
(* (Clients that an earlier run left at the server are another matter.)     *)
ComesBack ==
    leftover = {} => \A s \in DOMAIN sess :
        /\ sess[s].at = "join" /\ sess[s].loop = "running"
        /\ \A t \in DOMAIN sess \ {s} : sess[t].told /\ sess[t].loop = "over"
        => sess[s].member
=============================================================================
