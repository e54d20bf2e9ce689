-------------------------------- MODULE Roles -------------------------------
(***************************************************************************)
(* Who is host, mod or peer, and who calls whom because of it: the roles   *)
(* of AppState, the announcements and moderation messages of               *)
(* src/src/irc_client.rs, the commands and events of the event loop in     *)
(* src/src/gui.rs, and should_connect_to of src/src/topology.rs.  The      *)
(* server (IrcServer) handles a command as soon as it is sent here; its    *)
(* answers wait in the clients' inboxes.  A user's nick is the user.       *)
(***************************************************************************)
EXTENDS Integers, SequencesExt

CONSTANTS
    Users,
    Nickname,      \* the order of the nicks
    HostUser,      \* the user who joined with is_host
    Rooms, Home,   \* channels, and the one that connect joins
    MaxSwitches,   \* bound: channel switches
    MaxOrders,     \* bound: /mod, /unmod, /kick and /ban commands
    MaxQuits       \* bound: users who leave for good

ASSUME RolesAssumption ==
    /\ IsFiniteSet(Users) /\ HostUser \in Users /\ Home \in Rooms
    /\ Nickname \in [Users -> Nat] /\ IsInjective(Nickname)
    /\ {MaxSwitches, MaxOrders, MaxQuits} \subseteq Nat

VARIABLES
    phase,         \* how far connect_to_server has come
    room,          \* current_channel
    members,       \* the server's channels
    inbox,         \* lines on their way to a client
    events,        \* IrcEvents the event loop has not handled
    known,         \* known_pubkeys, as a set of nicks
    roles,         \* peer_states: the role of each nick it lists
    ourRole,       \* state.our_role
    calls,         \* the peers a client has made an offer to
    doing,         \* "idle", or "announce" inside SwitchChannel
    switches, orders, quits,
    promoted,      \* history: nicks the host has made mods
    heard          \* history: clients that have listed a superpeer

counters == <<switches, orders, quits>>
vars == <<phase, room, members, inbox, events, known, roles, ourRole, calls, doing,
          counters, promoted, heard>>

Role == {"host", "mod", "peer"}
is_superpeer(r) == r \in {"host", "mod"}
can_moderate(r) == r \in {"host", "mod"}
can_promote(r) == r = "host"

(* The role the event loop was started with; it never reads another.        *)
LoopRole(u) == IF u = HostUser THEN "host" ELSE "peer"

(* peer_states as a function on the nicks it lists. *)
Tables == UNION {[S -> Role] : S \in SUBSET Users}
NoPeers == [n \in {} |-> "peer"]
set_peer_role(table, n, r) ==
    [m \in DOMAIN table \cup {n} |-> IF m = n THEN r ELSE table[m]]
get_peer_role(table, n) == IF n \in DOMAIN table THEN table[n] ELSE "peer"
Removed(table, n) == [m \in DOMAIN table \ {n} |-> table[m]]
all_superpeers(table) == {n \in DOMAIN table : is_superpeer(table[n])}

Hears(u) == heard' = heard \cup {v \in {u} : all_superpeers(roles'[v]) # {}}

(* Mutation: peers never call each other. *)
ConnectToSuperpeers(table, ours, target) ==
    DOMAIN table \subseteq Users /\ (is_superpeer(ours) \/ is_superpeer(target))

should_connect_to(table, ours, target) ==
    is_superpeer(ours) \/ is_superpeer(target) \/ all_superpeers(table) = {}

Online == {u \in Users : phase[u] = "on"}

(* What the server sends to a set of clients, one line each. *)
Tell(to, line) == [u \in Users |-> IF u \in to THEN Append(inbox[u], line) ELSE inbox[u]]

CoMembers(u) == (UNION {members[r] : r \in {q \in Rooms : u \in members[q]}}) \ {u}

Init ==
    /\ phase = [u \in Users |-> "off"]
    /\ room = [u \in Users |-> Home]
    /\ members = [r \in Rooms |-> {}]
    /\ inbox = [u \in Users |-> <<>>] /\ events = [u \in Users |-> <<>>]
    /\ known = [u \in Users |-> {}] /\ roles = [u \in Users |-> NoPeers]
    /\ ourRole = [u \in Users |-> LoopRole(u)]
    /\ calls = [u \in Users |-> {}] /\ doing = [u \in Users |-> "idle"]
    /\ switches = 0 /\ orders = 0 /\ quits = 0 /\ promoted = {} /\ heard = {}

-----------------------------------------------------------------------------
(* Connecting and leaving. *)

(* NICK and USER, and at once announce_role: a line to the members of the  *)
(* channel, which the user has not joined.                                 *)
Connect(u) ==
    /\ phase[u] = "off"
    /\ phase' = [phase EXCEPT ![u] = "connected"]
    /\ inbox' = Tell(members[Home], [line |-> "ROLE", from |-> u, role |-> LoopRole(u)])
    /\ UNCHANGED <<room, members, events, known, roles, ourRole, calls, doing, counters,
                   promoted, heard>>

(* What JOIN sends: the JOIN to the members, the names to the newcomer. *)
Entered(u, r) ==
    [v \in Users |->
        IF v = u THEN <<[line |-> "NAMES", from |-> members[r] \ {u}]>>
        ELSE IF v \in members[r] THEN <<[line |-> "JOIN", from |-> u]>> ELSE <<>>]

(* HELLO after 200 ms, which has nobody to be told to yet, and JOIN.        *)
JoinHome(u) ==
    /\ phase[u] = "connected"
    /\ phase' = [phase EXCEPT ![u] = "on"]
    /\ members' = [members EXCEPT ![Home] = @ \cup {u}]
    /\ inbox' = [v \in Users |-> inbox[v] \o Entered(u, Home)[v]]
    /\ UNCHANGED <<room, events, known, roles, ourRole, calls, doing, counters, promoted, heard>>

(* The client's end of a connection; what it held is gone with it. *)
Leaves(u) ==
    /\ phase[u] = "on" /\ quits < MaxQuits
    /\ quits' = quits + 1
    /\ phase' = [phase EXCEPT ![u] = "gone"]
    /\ events' = [events EXCEPT ![u] = <<>>]
    /\ known' = [known EXCEPT ![u] = {}] /\ roles' = [roles EXCEPT ![u] = NoPeers]
    /\ calls' = [calls EXCEPT ![u] = {}] /\ doing' = [doing EXCEPT ![u] = "idle"]
    /\ UNCHANGED <<room, ourRole, switches, orders, promoted, heard>>

(* The server reads the end of the connection and cleans up. *)
Quit(u) ==
    /\ Leaves(u)
    /\ members' = [r \in Rooms |-> members[r] \ {u}]
    /\ inbox' = [Tell(CoMembers(u), [line |-> "LEFT", from |-> u]) EXCEPT ![u] = <<>>]

(* The server fails to read and leaves by the ?, before the cleanup: the    *)
(* user stays listed, nobody is told, and what is sent to him from now on  *)
(* is read by nobody.                                                      *)
Vanish(u) ==
    /\ Leaves(u)
    /\ inbox' = [inbox EXCEPT ![u] = <<>>]
    /\ UNCHANGED members

-----------------------------------------------------------------------------
(* The reader task. *)

Line(u) == Head(inbox[u])

Reads(u, kind) ==
    /\ phase[u] # "gone" /\ inbox[u] # <<>> /\ Line(u).line = kind
    /\ UNCHANGED <<phase, room, members, ourRole, calls, doing, counters, promoted>>

Taken(u) == [inbox EXCEPT ![u] = Tail(@)]

(* On a JOIN the client says HELLO again: those who share a channel with it *)
(* are told its key.                                                       *)
ReadJoin(u) ==
    /\ Reads(u, "JOIN")
    /\ events' = [events EXCEPT ![u] = Append(@, [event |-> "joined", nick |-> Line(u).from])]
    /\ inbox' = [v \in Users |-> IF v \in CoMembers(u)
                                 THEN Append(Taken(u)[v], [line |-> "PUBKEY", from |-> u])
                                 ELSE Taken(u)[v]]
    /\ UNCHANGED <<known, roles, heard>>

ReadNames(u) ==
    /\ Reads(u, "NAMES")
    /\ LET joined(n) == [event |-> "joined", nick |-> n]
       IN  events' = [events EXCEPT ![u] =
                          @ \o [i \in DOMAIN SetToSeq(Line(u).from) |->
                                    joined(SetToSeq(Line(u).from)[i])]]
    /\ inbox' = Taken(u)
    /\ UNCHANGED <<known, roles, heard>>

ReadLeft(u) ==
    /\ Reads(u, "LEFT")
    /\ events' = [events EXCEPT ![u] = Append(@, [event |-> "left", nick |-> Line(u).from])]
    /\ known' = [known EXCEPT ![u] = @ \ {Line(u).from}]
    /\ roles' = [roles EXCEPT ![u] = Removed(@, Line(u).from)]
    /\ inbox' = Taken(u)
    /\ UNCHANGED heard

ReadPubkey(u) ==
    /\ Reads(u, "PUBKEY")
    /\ known' = [known EXCEPT ![u] = @ \cup {Line(u).from}]
    /\ inbox' = Taken(u)
    /\ UNCHANGED <<events, roles, heard>>

is_verified(u, n) == n \in known[u]

ReadRole(u) ==
    /\ Reads(u, "ROLE")
    /\ roles' = IF is_verified(u, Line(u).from)
                THEN [roles EXCEPT ![u] = set_peer_role(@, Line(u).from, Line(u).role)]
                ELSE roles
    /\ Hears(u)
    /\ inbox' = Taken(u)
    /\ UNCHANGED <<events, known>>

ReadMod(u) ==
    /\ Reads(u, "MOD")
    /\ events' = IF is_verified(u, Line(u).from)
                 THEN [events EXCEPT ![u] =
                           Append(@, [event |-> "mod", from |-> Line(u).from,
                                      action |-> Line(u).action, target |-> Line(u).target])]
                 ELSE events
    /\ inbox' = Taken(u)
    /\ UNCHANGED <<known, roles, heard>>

-----------------------------------------------------------------------------
(* The event loop. *)

Event(u) == Head(events[u])

Handles(u, kind) ==
    /\ doing[u] = "idle" /\ events[u] # <<>> /\ Event(u).event = kind
    /\ events' = [events EXCEPT ![u] = Tail(@)]
    /\ UNCHANGED <<phase, room, members, inbox, doing, counters, promoted>>

(* UserJoined: the newcomer is entered as a peer, whatever was known of his *)
(* role, and called if the topology and the order of the nicks say so.      *)
HandleJoined(u) ==
    /\ Handles(u, "joined")
    /\ LET n == Event(u).nick
           table == set_peer_role(roles[u], n, "peer")
       IN  /\ roles' = [roles EXCEPT ![u] = table]
           /\ calls' = [calls EXCEPT ![u] =
                  IF /\ should_connect_to(table, LoopRole(u), "peer")
                     /\ Nickname[u] < Nickname[n]
                  THEN @ \cup {n} ELSE @]
    /\ UNCHANGED <<known, ourRole, heard>>

HandleLeft(u) ==
    /\ Handles(u, "left")
    /\ calls' = [calls EXCEPT ![u] = @ \ {Event(u).nick}]
    /\ known' = [known EXCEPT ![u] = @ \ {Event(u).nick}]
    /\ roles' = [roles EXCEPT ![u] = Removed(@, Event(u).nick)]
    /\ UNCHANGED <<ourRole, heard>>

(* Mutation: the sender of an order takes the place of its target. *)
NamedSender(e) == e.from

Named(e) == e.target

Obeys(u, from) == can_moderate(get_peer_role(roles[u], from))

Appointments == {"promote", "demote"}
RoleAfter(action) == IF action = "promote" THEN "mod" ELSE "peer"

(* A kick or a ban is only told to the user on the screen. *)
Executed(table, action, target) ==
    IF action \in Appointments THEN set_peer_role(table, target, RoleAfter(action))
    ELSE table

HandleMod(u) ==
    /\ Handles(u, "mod")
    /\ LET e == Event(u)
       IN  IF Obeys(u, e.from)
           THEN /\ roles' = [roles EXCEPT ![u] = Executed(@, e.action, Named(e))]
                /\ ourRole' = IF e.action \in Appointments /\ Named(e) = u
                              THEN [ourRole EXCEPT ![u] = RoleAfter(e.action)] ELSE ourRole
           ELSE UNCHANGED <<roles, ourRole>>
    /\ Hears(u)
    /\ UNCHANGED <<known, calls>>

check_permission(role, action) ==
    IF action \in Appointments THEN can_promote(role) ELSE can_moderate(role)

(* /mod, /unmod, /kick and /ban: any nick may be named, also one that is    *)
(* not there.                                                              *)
Order(u, action, target) ==
    /\ phase[u] = "on" /\ doing[u] = "idle" /\ orders < MaxOrders
    /\ check_permission(LoopRole(u), action)
    /\ orders' = orders + 1
    /\ inbox' = Tell(members[room[u]] \ {u}, [line |-> "MOD", from |-> u, action |-> action,
                                              target |-> target])
    /\ roles' = [roles EXCEPT ![u] = Executed(@, action, target)]
    /\ promoted' = IF action = "promote" THEN promoted \cup {target} ELSE promoted
    /\ Hears(u)
    /\ UNCHANGED <<phase, room, members, events, known, ourRole, calls, doing, switches, quits>>

(* Mutation: the user does not leave the channel he comes from. *)
Stayed(u, r) == [members EXCEPT ![r] = @ \cup {u}]

(* PART from the one channel, JOIN to the other. *)
Moved(u, r) == [members EXCEPT ![room[u]] = @ \ {u}, ![r] = @ \cup {u}]

(* SwitchChannel and CreateChannel, as far as the JOIN; then the history of *)
(* the new channel is read, and the reader goes on meanwhile.               *)
SwitchChannel(u, r) ==
    /\ phase[u] = "on" /\ doing[u] = "idle" /\ r # room[u] /\ switches < MaxSwitches
    /\ switches' = switches + 1
    /\ calls' = [calls EXCEPT ![u] = {}]
    /\ known' = [known EXCEPT ![u] = {}] /\ roles' = [roles EXCEPT ![u] = NoPeers]
    /\ members' = Moved(u, r)
    /\ inbox' = [v \in Users |->
                    Tell(members[room[u]] \ {u}, [line |-> "LEFT", from |-> u])[v]
                        \o Entered(u, r)[v]]
    /\ room' = [room EXCEPT ![u] = r]
    /\ doing' = [doing EXCEPT ![u] = "announce"]
    /\ UNCHANGED <<phase, events, ourRole, orders, quits, promoted, heard>>

Announce(u) ==
    /\ doing[u] = "announce"
    /\ doing' = [doing EXCEPT ![u] = "idle"]
    /\ inbox' = Tell(members[room[u]] \ {u}, [line |-> "ROLE", from |-> u, role |-> LoopRole(u)])
    /\ UNCHANGED <<phase, room, members, events, known, roles, ourRole, calls, counters,
                   promoted, heard>>

-----------------------------------------------------------------------------
ReaderStep(u) ==
    ReadJoin(u) \/ ReadNames(u) \/ ReadLeft(u) \/ ReadPubkey(u) \/ ReadRole(u) \/ ReadMod(u)

LoopStep(u) == HandleJoined(u) \/ HandleLeft(u) \/ HandleMod(u) \/ Announce(u)

UserStep(u) ==
    \/ Connect(u) \/ JoinHome(u) \/ Quit(u) \/ Vanish(u)
    \/ \E r \in Rooms : SwitchChannel(u, r)
    \/ \E action \in Appointments \cup {"kick"}, t \in Users : Order(u, action, t)

Next == \E u \in Users : ReaderStep(u) \/ LoopStep(u) \/ UserStep(u)

Spec == Init /\ [][Next]_vars

-----------------------------------------------------------------------------
(* The variables have their types.  Whoever is on is listed in his channel, *)
(* and nobody in any other; whose connection failed may stay listed there. *)
TypeOK ==
    /\ phase \in [Users -> {"off", "connected", "on", "gone"}]
    /\ room \in [Users -> Rooms] /\ members \in [Rooms -> SUBSET Users]
    /\ known \in [Users -> SUBSET Users] /\ calls \in [Users -> SUBSET Users]
    /\ \A u \in Users : DOMAIN roles[u] \subseteq Users /\ Range(roles[u]) \subseteq Role
    /\ ourRole \in [Users -> Role] /\ doing \in [Users -> {"idle", "announce"}]
    /\ \A u \in Users : phase[u] = "on" => u \in members[room[u]]
    /\ \A u \in Users, r \in Rooms :
          u \in members[r] => r = room[u] /\ phase[u] \in {"on", "gone"}
    /\ promoted \subseteq Users /\ heard \subseteq Users

(* Roles come from the host alone: whoever a client takes for the host is   *)
(* the host, and whoever it takes for a mod, itself included, is somebody   *)
(* the host has promoted.                                                   *)
RolesFromHost ==
    \A u \in Users :
        /\ \A n \in DOMAIN roles[u] :
              /\ roles[u][n] = "host" => n = HostUser
              /\ roles[u][n] = "mod" => n \in promoted
        /\ ourRole[u] = "mod" => u \in promoted

Settled ==
    \A u \in Users : /\ phase[u] # "connected"
                     /\ phase[u] # "gone" => inbox[u] = <<>> /\ events[u] = <<>>
                                             /\ doing[u] = "idle"

Together(u, v) == u # v /\ {u, v} \subseteq Online /\ room[u] = room[v]

(* When things have settled, of two people who are in a channel the one    *)
(* whose nick comes first has called the other, through every channel      *)
(* switch, stale event, late line and name of one who is no longer there, unless he has heard of a superpeer before: peers    *)
(* call each other "only if no superpeers exist at all", and whom a client  *)
(* did not call when he came is never called later.                         *)
AllInEarshot ==
    Settled => \A u, v \in Users :
        /\ Together(u, v) /\ Nickname[u] < Nickname[v]
        /\ u = HostUser \/ u \notin heard
        => v \in calls[u]
=============================================================================
