----------------------------- MODULE RolesProofs -----------------------------
(***************************************************************************)
(* Theorems about Roles, for every set of users and rooms.                 *)
(***************************************************************************)
EXTENDS Roles, FiniteSetTheorems, SequenceTheorems, TLAPS

-----------------------------------------------------------------------------
(* Lemmas about the operators of the model. *)

(* A finite set, in some order, is a sequence of its elements. *)
LEMMA SetToSeqType ==
    ASSUME NEW S, IsFiniteSet(S)
    PROVE  SetToSeq(S) \in Seq(S)
<1>1. PICK f \in Bijection(1..Cardinality(S), S) : TRUE
  BY FS_CardinalityType DEF ExistsBijection
<1>2. f \in [1..Cardinality(S) -> S] /\ IsInjective(f)
  BY <1>1 DEF Bijection, Injection, IsInjective
<1>3. Cardinality(S) \in Nat
  BY FS_CardinalityType
<1> QED
  BY <1>2, <1>3 DEF SetToSeq

(* None of them is left out. *)
LEMMA SetToSeqAll ==
    ASSUME NEW S, IsFiniteSet(S)
    PROVE  \A x \in S : \E i \in DOMAIN SetToSeq(S) : SetToSeq(S)[i] = x
<1>1. PICK f \in Bijection(1..Cardinality(S), S) : TRUE
  BY FS_CardinalityType DEF ExistsBijection
<1>2. f \in [1..Cardinality(S) -> S] /\ IsInjective(f)
  BY <1>1 DEF Bijection, Injection, IsInjective
<1>3. SetToSeq(S) \in [1..Cardinality(S) -> S] /\ IsInjective(SetToSeq(S))
  BY <1>2 DEF SetToSeq
<1> DEFINE g == SetToSeq(S)
<1> HIDE DEF g
<1>4. g \in Injection(1..Cardinality(S), S)
  BY <1>3 DEF g, Injection, IsInjective
<1>5. IsFiniteSet(1..Cardinality(S)) /\ Cardinality(1..Cardinality(S)) = Cardinality(S)
  BY FS_CardinalityType, FS_Interval
<1>6. g \in Surjection(1..Cardinality(S), S)
  BY <1>4, <1>5, FS_Injection
<1> QED
  BY <1>4, <1>6 DEF g, Surjection, Injection

(* Entering a nick in a table changes the entry of that nick alone. *)
LEMMA SetRole ==
    ASSUME NEW t \in Tables, NEW n \in Users, NEW r \in Role
    PROVE  /\ set_peer_role(t, n, r) \in Tables
           /\ DOMAIN set_peer_role(t, n, r) = DOMAIN t \cup {n}
           /\ \A m \in DOMAIN t \cup {n} :
                  set_peer_role(t, n, r)[m] = IF m = n THEN r ELSE t[m]
<1> DEFINE D == DOMAIN t \cup {n}
           f == [m \in D |-> IF m = n THEN r ELSE t[m]]
<1>1. set_peer_role(t, n, r) = f
  BY DEF set_peer_role
<1>2. PICK S \in SUBSET Users : t \in [S -> Role]
  BY DEF Tables
<1>3. D \in SUBSET Users /\ f \in [D -> Role]
  BY <1>2
<1>4. f \in Tables
  BY <1>3 DEF Tables
<1> QED
  BY <1>1, <1>4

(* Removing a nick from a table leaves the other entries as they are. *)
LEMMA RemovedRole ==
    ASSUME NEW t \in Tables, NEW n
    PROVE  /\ Removed(t, n) \in Tables
           /\ DOMAIN Removed(t, n) = DOMAIN t \ {n}
           /\ \A m \in DOMAIN t \ {n} : Removed(t, n)[m] = t[m]
<1>1. PICK S \in SUBSET Users : t \in [S -> Role]
  BY DEF Tables
<1>2. Removed(t, n) \in [S \ {n} -> Role] /\ S \ {n} \in SUBSET Users
  BY <1>1 DEF Removed
<1>3. Removed(t, n) \in Tables
  BY <1>2 DEF Tables
<1> QED
  BY <1>1, <1>3 DEF Removed

LEMMA NoPeersTable == NoPeers \in Tables /\ DOMAIN NoPeers = {}
<1>1. NoPeers \in [{} -> Role]
  BY DEF NoPeers
<1> QED
  BY <1>1 DEF Tables, NoPeers

LEMMA RoleTypes ==
    /\ \A u : LoopRole(u) \in Role
    /\ \A u : LoopRole(u) # "mod" /\ (LoopRole(u) = "host" => u = HostUser)
    /\ \A a : RoleAfter(a) \in {"mod", "peer"} /\ RoleAfter(a) \in Role
    /\ \A a : RoleAfter(a) = "mod" => a = "promote"
    /\ "peer" \in Role
  BY DEF LoopRole, Role, RoleAfter
-----------------------------------------------------------------------------
(* The inductive invariant: the types, lines and events on their way        *)
(* included.  What announces a role announces the one its sender started   *)
(* with, and what orders comes from the host, who has promoted whom he     *)
(* says he promotes.                                                       *)

Actions == Appointments \cup {"kick"}

Genuine(o) == o.action = "promote" => o.target \in promoted

Announcements == {[line |-> "ROLE", from |-> u, role |-> LoopRole(u)] : u \in Users}
Presence == [line : {"JOIN", "LEFT", "PUBKEY"}, from : Users]
NameLists == [line : {"NAMES"}, from : SUBSET Users]
OrderLines ==
    {o \in [line : {"MOD"}, from : {HostUser}, action : Actions, target : Users] : Genuine(o)}

Lines == Announcements \cup Presence \cup NameLists \cup OrderLines

PresenceEvents == [event : {"joined", "left"}, nick : Users]
OrderEvents ==
    {o \in [event : {"mod"}, from : {HostUser}, action : Actions, target : Users] : Genuine(o)}

Events == PresenceEvents \cup OrderEvents

Typed ==
    /\ phase \in [Users -> {"off", "connected", "on", "gone"}]
    /\ room \in [Users -> Rooms] /\ members \in [Rooms -> SUBSET Users]
    /\ inbox \in [Users -> Seq(Lines)] /\ events \in [Users -> Seq(Events)]
    /\ known \in [Users -> SUBSET Users] /\ calls \in [Users -> SUBSET Users]
    /\ roles \in [Users -> Tables] /\ ourRole \in [Users -> Role]
    /\ doing \in [Users -> {"idle", "announce"}]
    /\ promoted \subseteq Users /\ heard \subseteq Users

(* A user is a member of the room he shows while he is on, and of no room   *)
(* before he joins, and of no other ever; one whose connection failed may  *)
(* be listed still.                                                        *)
Present ==
    /\ \A u \in Users : phase[u] = "on" => u \in members[room[u]]
    /\ \A u \in Users, r \in Rooms :
          u \in members[r] => r = room[u] /\ phase[u] \in {"on", "gone"}
    /\ \A u \in Users : phase[u] \in {"off", "connected"} => room[u] = Home

IInv == Typed /\ Present /\ RolesFromHost
-----------------------------------------------------------------------------
(* Lines, events and queues. *)

LEMMA LineTypes ==
    /\ \A u \in Users : [line |-> "ROLE", from |-> u, role |-> LoopRole(u)] \in Lines
    /\ \A u \in Users, k \in {"JOIN", "LEFT", "PUBKEY"} : [line |-> k, from |-> u] \in Lines
    /\ \A S \in SUBSET Users : [line |-> "NAMES", from |-> S] \in Lines
  BY DEF Lines, Announcements, Presence, NameLists

LEMMA LineParts ==
    ASSUME NEW m \in Lines
    PROVE  /\ m.line \in {"JOIN", "LEFT", "PUBKEY"} => m.from \in Users
           /\ m.line = "ROLE" => m.from \in Users /\ m.role = LoopRole(m.from)
           /\ m.line = "NAMES" => m.from \subseteq Users
           /\ m.line = "MOD" => /\ m.from = HostUser /\ m.action \in Actions
                                /\ m.target \in Users /\ Genuine(m)
<1>1. CASE m \in Announcements
  BY <1>1 DEF Announcements
<1>2. CASE m \in Presence
  BY <1>2 DEF Presence
<1>3. CASE m \in NameLists
  BY <1>3 DEF NameLists
<1>4. CASE m \in OrderLines
  BY <1>4 DEF OrderLines
<1> QED
  BY <1>1, <1>2, <1>3, <1>4 DEF Lines

LEMMA EventTypes ==
    /\ \A n \in Users, k \in {"joined", "left"} : [event |-> k, nick |-> n] \in Events
    /\ \A m \in Lines : m.line = "MOD" =>
          [event |-> "mod", from |-> m.from, action |-> m.action, target |-> m.target] \in Events
<1>1. ASSUME NEW m \in Lines, m.line = "MOD"
      PROVE  [event |-> "mod", from |-> m.from, action |-> m.action, target |-> m.target]
                \in OrderEvents
  BY <1>1, LineParts, RolesAssumption DEF OrderEvents, Genuine
<1> QED
  BY <1>1 DEF Events, PresenceEvents

LEMMA EventParts ==
    ASSUME NEW e \in Events
    PROVE  /\ e.event \in {"joined", "left"} => e.nick \in Users
           /\ e.event = "mod" => /\ e.from = HostUser /\ e.action \in Actions
                                 /\ e.target \in Users /\ Genuine(e)
  BY DEF Events, PresenceEvents, OrderEvents

(* Queues of lines and of events. *)
Inboxes == [Users -> Seq(Lines)]
Queues == [Users -> Seq(Events)]

LEMMA TellType ==
    ASSUME inbox \in Inboxes, NEW to, NEW m \in Lines
    PROVE  Tell(to, m) \in Inboxes
  BY AppendProperties DEF Tell, Inboxes

LEMMA EnteredType ==
    ASSUME Typed, NEW u \in Users, NEW r \in Rooms
    PROVE  Entered(u, r) \in Inboxes
<1>1. [line |-> "NAMES", from |-> members[r] \ {u}] \in Lines
  BY LineTypes DEF Typed
<1>2. [line |-> "JOIN", from |-> u] \in Lines
  BY LineTypes
<1> QED
  BY <1>1, <1>2 DEF Entered, Inboxes

LEMMA JoinedType ==
    ASSUME NEW a \in Inboxes, NEW b \in Inboxes
    PROVE  [v \in Users |-> a[v] \o b[v]] \in Inboxes
  BY ConcatProperties DEF Inboxes

LEMMA TakenType ==
    ASSUME Typed, NEW u \in Users, inbox[u] # <<>>
    PROVE  Taken(u) \in Inboxes /\ Line(u) \in Lines
  BY HeadTailProperties DEF Typed, Taken, Line, Inboxes

LEMMA HandledType ==
    ASSUME Typed, NEW u \in Users, events[u] # <<>>
    PROVE  [events EXCEPT ![u] = Tail(@)] \in Queues /\ Event(u) \in Events
  BY HeadTailProperties DEF Typed, Event, Queues

LEMMA RaisedType ==
    ASSUME Typed, NEW u \in Users, NEW e \in Events
    PROVE  [events EXCEPT ![u] = Append(@, e)] \in Queues
  BY AppendProperties DEF Typed, Queues

(* What is genuine stays so: nobody is taken off the list of the promoted. *)
LEMMA StaysGenuine ==
    ASSUME Typed, promoted \subseteq promoted'
    PROVE  Lines \subseteq Lines' /\ Inboxes \subseteq Inboxes' /\ events \in Queues'
<1>1. Lines \subseteq Lines' /\ Events \subseteq Events'
  BY DEF Lines, Announcements, Presence, NameLists, OrderLines, Genuine,
         Events, PresenceEvents, OrderEvents
<1>2. Seq(Lines) \subseteq Seq(Lines') /\ Seq(Events) \subseteq Seq(Events')
  BY <1>1, SeqMonotonic
<1> QED
  BY <1>1, <1>2 DEF Typed, Inboxes, Queues

LEMMA SameGenuine ==
    ASSUME UNCHANGED promoted
    PROVE  Inboxes' = Inboxes /\ Queues' = Queues
  BY DEF Inboxes, Queues, Lines, Announcements, Presence, NameLists, OrderLines, Genuine,
         Events, PresenceEvents, OrderEvents
-----------------------------------------------------------------------------
(* The parts of the invariant that most steps leave alone. *)

LEMMA PresentKept ==
    ASSUME Present, UNCHANGED <<phase, room, members>>
    PROVE  Present'
  BY DEF Present

(* A table of roles that tells nothing untrue. *)
Truthful(t, mods) ==
    \A n \in DOMAIN t : /\ t[n] = "host" => n = HostUser
                        /\ t[n] = "mod" => n \in mods

LEMMA HostKept ==
    ASSUME RolesFromHost, promoted \subseteq promoted',
           NEW u \in Users, Truthful(roles'[u], promoted'),
           \A v \in Users \ {u} : roles'[v] = roles[v],
           \A v \in Users : ourRole'[v] = "mod" => ourRole[v] = "mod" \/ v \in promoted'
    PROVE  RolesFromHost'
  BY DEF RolesFromHost, Truthful

LEMMA HostUnchanged ==
    ASSUME RolesFromHost, UNCHANGED <<roles, ourRole, promoted>>
    PROVE  RolesFromHost'
  BY DEF RolesFromHost

LEMMA HearsType ==
    ASSUME Typed, NEW u \in Users, Hears(u)
    PROVE  heard' \subseteq Users
  BY DEF Typed, Hears

(* Entering a true role keeps a table truthful; so does removing a nick. *)
LEMMA TruthfulSet ==
    ASSUME NEW t \in Tables, Truthful(t, promoted), NEW n \in Users, NEW r \in Role,
           r = "host" => n = HostUser, r = "mod" => n \in promoted
    PROVE  Truthful(set_peer_role(t, n, r), promoted)
<1> DEFINE new == set_peer_role(t, n, r)
<1>1. new = [m \in DOMAIN t \cup {n} |-> IF m = n THEN r ELSE t[m]]
  BY DEF set_peer_role
<1> HIDE DEF new
<1>2. Truthful(new, promoted)
  BY <1>1 DEF Truthful
<1> QED
  BY <1>2 DEF new

LEMMA TruthfulRemoved ==
    ASSUME NEW t \in Tables, Truthful(t, promoted), NEW n
    PROVE  Truthful(Removed(t, n), promoted)
<1> DEFINE new == Removed(t, n)
<1>1. new = [m \in DOMAIN t \ {n} |-> t[m]]
  BY DEF Removed
<1> HIDE DEF new
<1>2. Truthful(new, promoted)
  BY <1>1 DEF Truthful
<1> QED
  BY <1>2 DEF new

LEMMA TruthfulTables ==
    ASSUME RolesFromHost, NEW u \in Users
    PROVE  Truthful(roles[u], promoted)
  BY DEF RolesFromHost, Truthful

-----------------------------------------------------------------------------
(* The reader task. *)

LEMMA ReadJoinKeeps ==
    ASSUME IInv, NEW u \in Users, ReadJoin(u)
    PROVE  IInv'
<1> USE DEF IInv
<1>1. /\ inbox[u] # <<>> /\ Line(u).line = "JOIN"
      /\ UNCHANGED <<phase, room, members, ourRole, calls, doing, promoted, known, roles, heard>>
  BY DEF ReadJoin, Reads
<1>2. Line(u).from \in Users /\ Taken(u) \in Inboxes
  BY <1>1, TakenType, LineParts
<1>3. events' \in Queues
  BY <1>2, EventTypes, RaisedType DEF ReadJoin
<1>4. inbox' \in Inboxes
  <2>1. [line |-> "PUBKEY", from |-> u] \in Lines
    BY LineTypes
  <2> QED
    BY <1>2, <2>1, AppendProperties DEF ReadJoin, Inboxes
<1>5. Typed'
  BY <1>1, <1>3, <1>4, SameGenuine DEF Typed, Inboxes, Queues
<1> QED
  BY <1>1, <1>5, PresentKept, HostUnchanged

LEMMA ReadNamesKeeps ==
    ASSUME IInv, NEW u \in Users, ReadNames(u)
    PROVE  IInv'
<1> USE DEF IInv
<1>1. /\ inbox[u] # <<>> /\ Line(u).line = "NAMES"
      /\ UNCHANGED <<phase, room, members, ourRole, calls, doing, promoted, known, roles, heard>>
  BY DEF ReadNames, Reads
<1>2. Line(u).from \subseteq Users /\ Taken(u) \in Inboxes
  BY <1>1, TakenType, LineParts
<1> DEFINE names == SetToSeq(Line(u).from)
           new == [i \in DOMAIN names |-> [event |-> "joined", nick |-> names[i]]]
<1>3. names \in Seq(Users)
  <2>1. IsFiniteSet(Line(u).from)
    BY <1>2, FS_Subset, RolesAssumption
  <2> QED
    BY <1>2, <2>1, SetToSeqType, SeqMonotonic
<1> HIDE DEF names
<1>4. new \in Seq(Events)
  <2>1. \A i \in 1..Len(names) : names[i] \in Users
    BY <1>3
  <2>2. \A i \in 1..Len(names) : [event |-> "joined", nick |-> names[i]] \in Events
    BY <2>1, EventTypes
  <2> QED
    BY <1>3, <2>2
<1>5. events' = [events EXCEPT ![u] = @ \o new]
  BY DEF ReadNames, names
<1> HIDE DEF new
<1>6. events' \in Queues
  BY <1>4, <1>5, ConcatProperties DEF Typed, Queues
<1>7. Typed'
  BY <1>1, <1>2, <1>6, SameGenuine DEF Typed, Inboxes, Queues, ReadNames
<1> QED
  BY <1>1, <1>7, PresentKept, HostUnchanged

LEMMA ReadLeftKeeps ==
    ASSUME IInv, NEW u \in Users, ReadLeft(u)
    PROVE  IInv'
<1> USE DEF IInv
<1>1. /\ inbox[u] # <<>> /\ Line(u).line = "LEFT"
      /\ UNCHANGED <<phase, room, members, ourRole, calls, doing, promoted, heard>>
  BY DEF ReadLeft, Reads
<1>2. Line(u).from \in Users /\ Taken(u) \in Inboxes
  BY <1>1, TakenType, LineParts
<1>3. events' \in Queues
  BY <1>2, EventTypes, RaisedType DEF ReadLeft
<1> DEFINE t == Removed(roles[u], Line(u).from)
<1>4. roles' = [roles EXCEPT ![u] = t]
  BY DEF ReadLeft
<1>5. t \in Tables
  BY RemovedRole DEF Typed
<1> HIDE DEF t
<1>6. Typed'
  <2>1. roles' \in [Users -> Tables]
    BY <1>4, <1>5 DEF Typed
  <2>2. known' \in [Users -> SUBSET Users]
    BY DEF ReadLeft, Typed
  <2> QED
    BY <1>1, <1>2, <1>3, <2>1, <2>2, SameGenuine DEF Typed, Inboxes, Queues, ReadLeft
<1>7. Truthful(t, promoted)
  BY TruthfulRemoved, TruthfulTables DEF Typed, t
<1>8. RolesFromHost'
  <2>1. Truthful(roles'[u], promoted')
    BY <1>1, <1>4, <1>7 DEF Typed, Truthful
  <2> QED
    BY <1>1, <1>4, <2>1, HostKept DEF Typed
<1> QED
  BY <1>1, <1>6, <1>8, PresentKept

LEMMA ReadPubkeyKeeps ==
    ASSUME IInv, NEW u \in Users, ReadPubkey(u)
    PROVE  IInv'
<1> USE DEF IInv
<1>1. /\ inbox[u] # <<>> /\ Line(u).line = "PUBKEY"
      /\ UNCHANGED <<phase, room, members, ourRole, calls, doing, promoted, events, roles, heard>>
  BY DEF ReadPubkey, Reads
<1>2. Line(u).from \in Users /\ Taken(u) \in Inboxes
  BY <1>1, TakenType, LineParts
<1>3. Typed'
  BY <1>1, <1>2, SameGenuine DEF Typed, Inboxes, Queues, ReadPubkey
<1> QED
  BY <1>1, <1>3, PresentKept, HostUnchanged

LEMMA ReadRoleKeeps ==
    ASSUME IInv, NEW u \in Users, ReadRole(u)
    PROVE  IInv'
<1> USE DEF IInv
<1>1. /\ inbox[u] # <<>> /\ Line(u).line = "ROLE"
      /\ UNCHANGED <<phase, room, members, ourRole, calls, doing, promoted, events, known>>
  BY DEF ReadRole, Reads
<1>2. /\ Line(u).from \in Users /\ Line(u).role = LoopRole(Line(u).from)
      /\ Taken(u) \in Inboxes
  BY <1>1, TakenType, LineParts
<1> DEFINE t == IF is_verified(u, Line(u).from)
                THEN set_peer_role(roles[u], Line(u).from, Line(u).role) ELSE roles[u]
<1>3. roles' = [roles EXCEPT ![u] = t]
  BY DEF ReadRole, Typed
<1>4. t \in Tables
  BY <1>2, SetRole, RoleTypes DEF Typed
<1>5. Truthful(t, promoted)
  BY <1>2, TruthfulSet, TruthfulTables, RoleTypes DEF Typed
<1> HIDE DEF t
<1>6. Typed'
  <2>1. roles' \in [Users -> Tables]
    BY <1>3, <1>4 DEF Typed
  <2>2. heard' \subseteq Users
    BY HearsType DEF ReadRole
  <2> QED
    BY <1>1, <1>2, <2>1, <2>2, SameGenuine DEF Typed, Inboxes, Queues, ReadRole
<1>7. RolesFromHost'
  <2>1. Truthful(roles'[u], promoted')
    BY <1>1, <1>3, <1>5 DEF Typed, Truthful
  <2> QED
    BY <1>1, <1>3, <2>1, HostKept DEF Typed
<1> QED
  BY <1>1, <1>6, <1>7, PresentKept

LEMMA ReadModKeeps ==
    ASSUME IInv, NEW u \in Users, ReadMod(u)
    PROVE  IInv'
<1> USE DEF IInv
<1>1. /\ inbox[u] # <<>> /\ Line(u).line = "MOD"
      /\ UNCHANGED <<phase, room, members, ourRole, calls, doing, promoted, known, roles, heard>>
  BY DEF ReadMod, Reads
<1>2. Line(u) \in Lines /\ Taken(u) \in Inboxes
  BY <1>1, TakenType
<1>3. events' \in Queues
  <2>1. events \in Queues
    BY DEF Typed, Queues
  <2> QED
    BY <1>1, <1>2, <2>1, EventTypes, RaisedType DEF ReadMod
<1>4. Typed'
  BY <1>1, <1>2, <1>3, SameGenuine DEF Typed, Inboxes, Queues, ReadMod
<1> QED
  BY <1>1, <1>4, PresentKept, HostUnchanged
-----------------------------------------------------------------------------
(* The event loop. *)

LEMMA HandleJoinedKeeps ==
    ASSUME IInv, NEW u \in Users, HandleJoined(u)
    PROVE  IInv'
<1> USE DEF IInv
<1>1. /\ events[u] # <<>> /\ Event(u).event = "joined"
      /\ events' = [events EXCEPT ![u] = Tail(@)]
      /\ UNCHANGED <<phase, room, members, inbox, doing, promoted, known, ourRole, heard>>
  BY DEF HandleJoined, Handles
<1>2. Event(u).nick \in Users /\ events' \in Queues
  BY <1>1, HandledType, EventParts
<1> DEFINE t == set_peer_role(roles[u], Event(u).nick, "peer")
<1>3. roles' = [roles EXCEPT ![u] = t]
  BY DEF HandleJoined
<1>4. t \in Tables
  BY <1>2, SetRole, RoleTypes DEF Typed
<1>5. Truthful(t, promoted)
  BY <1>2, TruthfulSet, TruthfulTables, RoleTypes DEF Typed
<1>6. calls' \in [Users -> SUBSET Users]
  BY <1>2 DEF HandleJoined, Typed
<1> HIDE DEF t
<1>7. Typed'
  <2>1. roles' \in [Users -> Tables]
    BY <1>3, <1>4 DEF Typed
  <2> QED
    BY <1>1, <1>2, <1>6, <2>1, SameGenuine DEF Typed, Inboxes, Queues
<1>8. RolesFromHost'
  <2>1. Truthful(roles'[u], promoted')
    BY <1>1, <1>3, <1>5 DEF Typed
  <2> QED
    BY <1>1, <1>3, <2>1, HostKept DEF Typed
<1> QED
  BY <1>1, <1>7, <1>8, PresentKept

LEMMA HandleLeftKeeps ==
    ASSUME IInv, NEW u \in Users, HandleLeft(u)
    PROVE  IInv'
<1> USE DEF IInv
<1>1. /\ events[u] # <<>> /\ Event(u).event = "left"
      /\ events' = [events EXCEPT ![u] = Tail(@)]
      /\ UNCHANGED <<phase, room, members, inbox, doing, promoted, ourRole, heard>>
  BY DEF HandleLeft, Handles
<1>2. events' \in Queues
  BY <1>1, HandledType
<1> DEFINE t == Removed(roles[u], Event(u).nick)
<1>3. roles' = [roles EXCEPT ![u] = t]
  BY DEF HandleLeft
<1>4. t \in Tables
  BY RemovedRole DEF Typed
<1>5. Truthful(t, promoted)
  BY TruthfulRemoved, TruthfulTables DEF Typed
<1> HIDE DEF t
<1>6. Typed'
  <2>1. roles' \in [Users -> Tables]
    BY <1>3, <1>4 DEF Typed
  <2>2. calls' \in [Users -> SUBSET Users] /\ known' \in [Users -> SUBSET Users]
    BY DEF HandleLeft, Typed
  <2> QED
    BY <1>1, <1>2, <2>1, <2>2, SameGenuine DEF Typed, Inboxes, Queues
<1>7. RolesFromHost'
  <2>1. Truthful(roles'[u], promoted')
    BY <1>1, <1>3, <1>5 DEF Typed
  <2> QED
    BY <1>1, <1>3, <2>1, HostKept DEF Typed
<1> QED
  BY <1>1, <1>6, <1>7, PresentKept

(* What an order makes of a table, when it is genuine or does not promote.  *)
LEMMA ExecutedTable ==
    ASSUME NEW t \in Tables, NEW mods, Truthful(t, mods), NEW a \in Actions, NEW n \in Users,
           a = "promote" => n \in mods
    PROVE  Executed(t, a, n) \in Tables /\ Truthful(Executed(t, a, n), mods)
<1>1. PICK r \in Role : r = RoleAfter(a) /\ r # "host" /\ (r = "mod" => n \in mods)
  BY DEF RoleAfter, Role
<1> DEFINE new == set_peer_role(t, n, r)
<1>2. /\ new \in Tables /\ DOMAIN new = DOMAIN t \cup {n}
      /\ \A m \in DOMAIN t \cup {n} : new[m] = IF m = n THEN r ELSE t[m]
  BY SetRole
<1> HIDE DEF new
<1>3. Truthful(new, mods)
  BY <1>1, <1>2 DEF Truthful
<1>4. CASE a \in Appointments
  BY <1>1, <1>2, <1>3, <1>4 DEF Executed, new
<1>5. CASE a \notin Appointments
  BY <1>5 DEF Executed
<1> QED
  BY <1>4, <1>5

LEMMA HandleModKeeps ==
    ASSUME IInv, NEW u \in Users, HandleMod(u)
    PROVE  IInv'
<1> USE DEF IInv
<1>1. /\ events[u] # <<>> /\ Event(u).event = "mod"
      /\ events' = [events EXCEPT ![u] = Tail(@)]
      /\ UNCHANGED <<phase, room, members, inbox, doing, promoted, known, calls>>
  BY DEF HandleMod, Handles
<1> DEFINE e == Event(u)
<1>2. /\ e.action \in Actions /\ e.target \in Users /\ (e.action = "promote" => e.target \in promoted)
      /\ events' \in Queues
  BY <1>1, HandledType, EventParts DEF Genuine
<1> DEFINE t == IF Obeys(u, e.from) THEN Executed(roles[u], e.action, e.target) ELSE roles[u]
<1>3. roles' = [roles EXCEPT ![u] = t]
  BY DEF HandleMod, Named, Typed
<1>4. t \in Tables /\ Truthful(t, promoted)
  BY <1>2, ExecutedTable, TruthfulTables DEF Typed
<1>5. \/ ourRole' = ourRole
      \/ /\ e.target = u /\ ourRole' = [ourRole EXCEPT ![u] = RoleAfter(e.action)]
         /\ RoleAfter(e.action) = "mod" => e.action = "promote"
         /\ RoleAfter(e.action) \in Role
  BY RoleTypes DEF HandleMod, Named
<1>6. heard' \subseteq Users
  BY HearsType DEF HandleMod
<1> HIDE DEF t, e
<1>7. /\ ourRole' \in [Users -> Role]
      /\ \A v \in Users : ourRole'[v] = "mod" => ourRole[v] = "mod" \/ v \in promoted'
  <2>1. CASE ourRole' = ourRole
    BY <2>1 DEF Typed
  <2>2. CASE ourRole' # ourRole
    <3>1. ourRole' = [ourRole EXCEPT ![u] = RoleAfter(e.action)] /\ RoleAfter(e.action) \in Role
      BY <1>5, <2>2
    <3>2. RoleAfter(e.action) = "mod" => u \in promoted'
      BY <1>1, <1>2, <1>5, <2>2
    <3> QED
      BY <3>1, <3>2 DEF Typed
  <2> QED
    BY <2>1, <2>2
<1>8. Typed'
  <2>1. roles' \in [Users -> Tables]
    BY <1>3, <1>4 DEF Typed
  <2> QED
    BY <1>1, <1>2, <1>6, <1>7, <2>1, SameGenuine DEF Typed, Inboxes, Queues
<1>9. RolesFromHost'
  <2>1. Truthful(roles'[u], promoted')
    BY <1>1, <1>3, <1>4 DEF Typed
  <2> QED
    BY <1>1, <1>3, <1>7, <2>1, HostKept DEF Typed
<1> QED
  BY <1>1, <1>8, <1>9, PresentKept

LEMMA AnnounceKeeps ==
    ASSUME IInv, NEW u \in Users, Announce(u)
    PROVE  IInv'
<1> USE DEF IInv
<1>1. [line |-> "ROLE", from |-> u, role |-> LoopRole(u)] \in Lines
  BY LineTypes
<1>2. inbox' \in Inboxes
  BY <1>1, TellType DEF Announce, Typed, Inboxes
<1>3. Typed'
  BY <1>2, SameGenuine DEF Typed, Inboxes, Queues, Announce
<1> QED
  BY <1>3, PresentKept, HostUnchanged DEF Announce

-----------------------------------------------------------------------------
(* What users do. *)

LEMMA ConnectKeeps ==
    ASSUME IInv, NEW u \in Users, Connect(u)
    PROVE  IInv'
<1> USE DEF IInv
<1>1. [line |-> "ROLE", from |-> u, role |-> LoopRole(u)] \in Lines
  BY LineTypes
<1>2. inbox' \in Inboxes
  BY <1>1, TellType DEF Connect, Typed, Inboxes
<1>3. Typed'
  BY <1>2, SameGenuine DEF Typed, Inboxes, Queues, Connect
<1>4. Present'
  BY DEF Present, Connect, Typed
<1> QED
  BY <1>3, <1>4, HostUnchanged DEF Connect

LEMMA JoinHomeKeeps ==
    ASSUME IInv, NEW u \in Users, JoinHome(u)
    PROVE  IInv'
<1> USE DEF IInv
<1>1. inbox' \in Inboxes
  BY EnteredType, JoinedType, RolesAssumption DEF JoinHome, Typed, Inboxes
<1>2. Typed'
  BY <1>1, SameGenuine, RolesAssumption DEF Typed, Inboxes, Queues, JoinHome
<1>3. Present'
  BY RolesAssumption DEF Present, JoinHome, Typed
<1> QED
  BY <1>2, <1>3, HostUnchanged DEF JoinHome

(* What both ends of a connection do to the client. *)
LEMMA LeavesKeeps ==
    ASSUME IInv, NEW u \in Users, Leaves(u), inbox' \in Inboxes,
           members' \in [Rooms -> SUBSET Users],
           \A r \in Rooms : members'[r] \subseteq members[r]
                          /\ members[r] \subseteq members'[r] \cup {u}
    PROVE  IInv'
<1> USE DEF IInv
<1>1. /\ phase[u] = "on" /\ phase'[u] = "gone"
      /\ \A v \in Users \ {u} : phase'[v] = phase[v]
      /\ UNCHANGED <<room, ourRole, promoted, heard>>
  BY DEF Leaves, Typed
<1>2. events' \in Queues
  BY DEF Leaves, Typed, Queues
<1>3. Typed'
  <2>1. roles' \in [Users -> Tables]
    BY NoPeersTable DEF Leaves, Typed
  <2>2. /\ phase' \in [Users -> {"off", "connected", "on", "gone"}]
        /\ doing' \in [Users -> {"idle", "announce"}]
        /\ known' \in [Users -> SUBSET Users] /\ calls' \in [Users -> SUBSET Users]
    BY DEF Leaves, Typed
  <2>3. inbox' \in Inboxes' /\ events' \in Queues'
    BY <1>1, <1>2, SameGenuine
  <2> QED
    BY <1>1, <2>1, <2>2, <2>3 DEF Typed, Inboxes, Queues
<1>4. Present'
  <2>1. ASSUME NEW v \in Users, phase'[v] = "on"
        PROVE  v \in members'[room'[v]]
    <3>1. v # u /\ phase[v] = "on" /\ room'[v] = room[v] /\ room[v] \in Rooms
      BY <1>1, <2>1 DEF Typed
    <3> QED
      BY <3>1 DEF Present
  <2>2. ASSUME NEW v \in Users, NEW r \in Rooms, v \in members'[r]
        PROVE  r = room'[v] /\ phase'[v] \in {"on", "gone"}
    <3>1. r = room[v] /\ phase[v] \in {"on", "gone"}
      BY <2>2 DEF Present
    <3> QED
      BY <1>1, <3>1
  <2>3. ASSUME NEW v \in Users, phase'[v] \in {"off", "connected"}
        PROVE  room'[v] = Home
    <3>1. phase[v] \in {"off", "connected"}
      BY <1>1, <2>3
    <3> QED
      BY <1>1, <3>1 DEF Present
  <2> QED
    BY <2>1, <2>2, <2>3 DEF Present
<1>5. RolesFromHost'
  <2>1. Truthful(NoPeers, promoted')
    BY NoPeersTable DEF Truthful
  <2> QED
    BY <2>1, HostKept DEF Leaves, Typed
<1> QED
  BY <1>3, <1>4, <1>5

LEMMA QuitKeeps ==
    ASSUME IInv, NEW u \in Users, Quit(u)
    PROVE  IInv'
<1>1. inbox' \in Inboxes
  <2>1. [line |-> "LEFT", from |-> u] \in Lines
    BY LineTypes
  <2>2. Tell(CoMembers(u), [line |-> "LEFT", from |-> u]) \in Inboxes
    BY <2>1, TellType DEF IInv, Typed, Inboxes
  <2>3. <<>> \in Seq(Lines)
    OBVIOUS
  <2> QED
    BY <2>2, <2>3 DEF Quit, Inboxes
<1>2. /\ members' \in [Rooms -> SUBSET Users]
      /\ \A r \in Rooms : members'[r] = members[r] \ {u}
  BY DEF Quit, IInv, Typed
<1>3. Leaves(u)
  BY DEF Quit
<1> QED
  BY <1>1, <1>2, <1>3, LeavesKeeps

(* A connection the server loses leaves the lists of members as they are.   *)
LEMMA VanishKeeps ==
    ASSUME IInv, NEW u \in Users, Vanish(u)
    PROVE  IInv'
<1>1. inbox' \in Inboxes
  <2>1. <<>> \in Seq(Lines)
    OBVIOUS
  <2> QED
    BY <2>1 DEF Vanish, IInv, Typed, Inboxes
<1>2. UNCHANGED members /\ members \in [Rooms -> SUBSET Users]
  BY DEF Vanish, IInv, Typed
<1>3. Leaves(u)
  BY DEF Vanish
<1> QED
  BY <1>1, <1>2, <1>3, LeavesKeeps

LEMMA SwitchChannelKeeps ==
    ASSUME IInv, NEW u \in Users, NEW r \in Rooms, SwitchChannel(u, r)
    PROVE  IInv'
<1> USE DEF IInv
<1>1. inbox' \in Inboxes
  <2>1. [line |-> "LEFT", from |-> u] \in Lines
    BY LineTypes
  <2>2. Tell(members[room[u]] \ {u}, [line |-> "LEFT", from |-> u]) \in Inboxes
    BY <2>1, TellType DEF Typed, Inboxes
  <2> QED
    BY <2>2, EnteredType, JoinedType DEF SwitchChannel
<1>2. Typed'
  <2>1. roles' \in [Users -> Tables]
    BY NoPeersTable DEF SwitchChannel, Typed
  <2>2. /\ room' \in [Users -> Rooms] /\ members' \in [Rooms -> SUBSET Users]
        /\ doing' \in [Users -> {"idle", "announce"}]
        /\ known' \in [Users -> SUBSET Users] /\ calls' \in [Users -> SUBSET Users]
    BY DEF SwitchChannel, Moved, Typed
  <2>3. inbox' \in Inboxes' /\ events' \in Queues'
    BY <1>1, SameGenuine DEF SwitchChannel, Typed, Queues
  <2> QED
    BY <2>1, <2>2, <2>3 DEF Typed, Inboxes, Queues, SwitchChannel
<1>3. Present'
  BY DEF Present, SwitchChannel, Moved, Typed
<1>4. RolesFromHost'
  <2>1. Truthful(NoPeers, promoted')
    BY NoPeersTable DEF Truthful
  <2> QED
    BY <2>1, HostKept DEF SwitchChannel, Typed
<1> QED
  BY <1>2, <1>3, <1>4

(* Only the host may order anything: the loop asks the role it was started  *)
(* with.                                                                   *)
LEMMA OrdersAreTheHosts ==
    ASSUME NEW u \in Users, NEW a \in Actions, check_permission(LoopRole(u), a)
    PROVE  u = HostUser
  BY DEF check_permission, can_promote, can_moderate, LoopRole

LEMMA OrderKeeps ==
    ASSUME IInv, NEW u \in Users, NEW a \in Actions, NEW n \in Users, Order(u, a, n)
    PROVE  IInv'
<1> USE DEF IInv
<1>1. /\ promoted' = IF a = "promote" THEN promoted \cup {n} ELSE promoted
      /\ roles' = [roles EXCEPT ![u] = Executed(@, a, n)]
      /\ inbox' = Tell(members[room[u]] \ {u},
                       [line |-> "MOD", from |-> u, action |-> a, target |-> n])
      /\ UNCHANGED <<phase, room, members, events, known, ourRole, calls, doing>>
  BY DEF Order
<1>2. /\ promoted \subseteq promoted' /\ promoted' \subseteq Users
      /\ a = "promote" => n \in promoted'
  BY <1>1 DEF Typed
<1>3. inbox' \in Inboxes'
  <2>1. u = HostUser
    BY OrdersAreTheHosts DEF Order
  <2>2. [line |-> "MOD", from |-> u, action |-> a, target |-> n] \in Lines'
    BY <1>2, <2>1 DEF Lines, OrderLines, Genuine
  <2>3. inbox \in Inboxes'
    BY <1>2, StaysGenuine DEF Typed, Inboxes
  <2> QED
    BY <1>1, <2>2, <2>3, AppendProperties DEF Tell, Inboxes
<1>4. events' \in Queues'
  BY <1>1, <1>2, StaysGenuine
<1>5. Truthful(roles[u], promoted')
  BY <1>2, TruthfulTables DEF Truthful
<1>6. /\ Executed(roles[u], a, n) \in Tables
      /\ Truthful(Executed(roles[u], a, n), promoted')
  BY <1>2, <1>5, ExecutedTable DEF Typed
<1>7. Typed'
  <2>1. heard' \subseteq Users
    BY HearsType DEF Order
  <2>2. roles' \in [Users -> Tables]
    BY <1>1, <1>6 DEF Typed
  <2> QED
    BY <1>1, <1>2, <1>3, <1>4, <2>1, <2>2 DEF Typed, Inboxes, Queues
<1>8. RolesFromHost'
  <2>1. Truthful(roles'[u], promoted')
    BY <1>1, <1>6 DEF Typed
  <2> QED
    BY <1>1, <1>2, <2>1, HostKept DEF Typed, RolesFromHost
<1> QED
  BY <1>1, <1>7, <1>8, PresentKept

-----------------------------------------------------------------------------
(* The theorems. *)

LEMMA InitIInv == Init => IInv
<1> SUFFICES ASSUME Init PROVE IInv
  OBVIOUS
<1>1. Typed
  BY NoPeersTable, RoleTypes, RolesAssumption DEF Init, Typed
<1>2. Present
  BY RolesAssumption DEF Init, Present
<1>3. RolesFromHost
  BY NoPeersTable, RoleTypes DEF Init, RolesFromHost
<1> QED
  BY <1>1, <1>2, <1>3 DEF IInv

LEMMA NextIInv == IInv /\ [Next]_vars => IInv'
<1> SUFFICES ASSUME IInv, [Next]_vars PROVE IInv'
  OBVIOUS
<1>1. CASE UNCHANGED vars
  BY <1>1, SameGenuine, PresentKept, HostUnchanged DEF vars, counters, IInv, Typed, Inboxes, Queues
<1>2. ASSUME NEW u \in Users, ReaderStep(u)
      PROVE  IInv'
  BY <1>2, ReadJoinKeeps, ReadNamesKeeps, ReadLeftKeeps, ReadPubkeyKeeps, ReadRoleKeeps,
     ReadModKeeps DEF ReaderStep
<1>3. ASSUME NEW u \in Users, LoopStep(u)
      PROVE  IInv'
  BY <1>3, HandleJoinedKeeps, HandleLeftKeeps, HandleModKeeps, AnnounceKeeps DEF LoopStep
<1>4. ASSUME NEW u \in Users, UserStep(u)
      PROVE  IInv'
  <2>1. CASE Connect(u) \/ JoinHome(u) \/ Quit(u) \/ Vanish(u)
    BY <2>1, ConnectKeeps, JoinHomeKeeps, QuitKeeps, VanishKeeps
  <2>2. CASE \E r \in Rooms : SwitchChannel(u, r)
    BY <2>2, SwitchChannelKeeps
  <2>3. CASE \E a \in Actions, n \in Users : Order(u, a, n)
    BY <2>3, OrderKeeps
  <2> QED
    BY <1>4, <2>1, <2>2, <2>3 DEF UserStep, Actions
<1> QED
  BY <1>1, <1>2, <1>3, <1>4 DEF Next

LEMMA Inductive == Spec => []IInv
  BY InitIInv, NextIInv, PTL DEF Spec

(* The variables have their types, through late lines, orders and switches; *)
(* who is on is listed in his channel and in no other, also with a server  *)
(* that keeps those whose connection failed.                               *)
THEOREM TypeCorrect == Spec => []TypeOK
<1>1. IInv => TypeOK
  <2> SUFFICES ASSUME IInv PROVE TypeOK
    OBVIOUS
  <2>1. \A u \in Users : DOMAIN roles[u] \subseteq Users /\ Range(roles[u]) \subseteq Role
    BY DEF IInv, Typed, Tables, Range
  <2> QED
    BY <2>1 DEF IInv, Typed, Present, TypeOK
<1> QED
  BY <1>1, Inductive, PTL

(* Roles come from the host alone, whatever lines and events are still on  *)
(* their way: nobody is taken for the host but the host, and for a mod but *)
(* whom the host has promoted.                                             *)
THEOREM OnlyTheHostAppoints == Spec => []RolesFromHost
<1>1. IInv => RolesFromHost
  BY DEF IInv
<1> QED
  BY <1>1, Inductive, PTL
-----------------------------------------------------------------------------
(***************************************************************************)
(* Who is called.  Of two people in one room, the one with the smaller     *)
(* nick either has called the other or is going to: the last thing on its  *)
(* way to his event loop that is about the other says that he has come.    *)
(***************************************************************************)

(* Nothing in q belongs to L; something in q belongs to J, and nothing     *)
(* after it to L.                                                          *)
NoneOf(q, L) == \A i \in DOMAIN q : q[i] \notin L

EndsIn(q, J, L) ==
    \E j \in DOMAIN q : q[j] \in J /\ \A k \in DOMAIN q : k > j => q[k] \notin L

AnyLine ==
    Announcements \cup Presence \cup NameLists
        \cup [line : {"MOD"}, from : {HostUser}, action : Actions, target : Users]
AnyEvent ==
    PresenceEvents \cup [event : {"mod"}, from : {HostUser}, action : Actions, target : Users]

Arrivals(v) ==
    {m \in AnyLine : \/ m.line = "JOIN" /\ m.from = v
                     \/ m.line = "NAMES" /\ v \in m.from}
Departures(v) == {m \in AnyLine : m.line = "LEFT" /\ m.from = v}
Joined(v) == {e \in AnyEvent : e.event = "joined" /\ e.nick = v}
Left(v) == {e \in AnyEvent : e.event = "left" /\ e.nick = v}

Expected(u, v) ==
    \/ EndsIn(inbox[u], Arrivals(v), Departures(v))
    \/ /\ NoneOf(inbox[u], Departures(v))
       /\ \/ EndsIn(events[u], Joined(v), Left(v))
          \/ NoneOf(events[u], Left(v)) /\ v \in calls[u]

Unheard == \A u \in Users : all_superpeers(roles[u]) # {} => u \in heard

Concerns(u, v) ==
    /\ u # v /\ phase[u] = "on" /\ phase[v] = "on" /\ room[u] = room[v]
    /\ Nickname[u] < Nickname[v]
    /\ u = HostUser \/ u \notin heard

Earshot == \A u, v \in Users : Concerns(u, v) => Expected(u, v)

EInv == IInv /\ Unheard /\ Earshot
-----------------------------------------------------------------------------
(* Queues that end in an arrival. *)

LEMMA QueueAppend ==
    ASSUME NEW S, NEW q \in Seq(S), NEW m \in S, NEW J, NEW L, m \notin L
    PROVE  /\ NoneOf(q, L) => NoneOf(Append(q, m), L)
           /\ EndsIn(q, J, L) => EndsIn(Append(q, m), J, L)
           /\ m \in J => EndsIn(Append(q, m), J, L)
<1> DEFINE a == Append(q, m)
<1>1. /\ a \in Seq(S) /\ Len(a) = Len(q) + 1 /\ Len(q) \in Nat
      /\ \A i \in 1..Len(q) : a[i] = q[i]
      /\ a[Len(q) + 1] = m
      /\ DOMAIN q = 1..Len(q) /\ DOMAIN a = 1..Len(q) + 1
  BY AppendProperties
<1> HIDE DEF a
<1>2. NoneOf(q, L) => NoneOf(a, L)
  BY <1>1 DEF NoneOf
<1>3. EndsIn(q, J, L) => EndsIn(a, J, L)
  <2> SUFFICES ASSUME EndsIn(q, J, L) PROVE EndsIn(a, J, L)
    OBVIOUS
  <2>1. PICK j \in DOMAIN q : q[j] \in J /\ \A k \in DOMAIN q : k > j => q[k] \notin L
    BY DEF EndsIn
  <2>2. j \in DOMAIN a /\ a[j] \in J /\ \A k \in DOMAIN a : k > j => a[k] \notin L
    BY <1>1, <2>1
  <2> QED
    BY <2>2 DEF EndsIn
<1>4. m \in J => EndsIn(a, J, L)
  <2> SUFFICES ASSUME m \in J PROVE EndsIn(a, J, L)
    OBVIOUS
  <2>1. /\ Len(q) + 1 \in DOMAIN a /\ a[Len(q) + 1] \in J
        /\ \A k \in DOMAIN a : k > Len(q) + 1 => a[k] \notin L
    BY <1>1
  <2> QED
    BY <2>1 DEF EndsIn
<1> QED
  BY <1>2, <1>3, <1>4 DEF a

LEMMA QueueConcat ==
    ASSUME NEW S, NEW q \in Seq(S), NEW r \in Seq(S), NEW J, NEW L, NoneOf(r, L)
    PROVE  /\ NoneOf(q, L) => NoneOf(q \o r, L)
           /\ EndsIn(q, J, L) => EndsIn(q \o r, J, L)
           /\ (\E i \in DOMAIN r : r[i] \in J) => EndsIn(q \o r, J, L)
<1> DEFINE a == q \o r
<1>1. /\ Len(q) \in Nat /\ Len(r) \in Nat
      /\ \A i \in 1..Len(q) : a[i] = q[i]
      /\ \A i \in DOMAIN a : i > Len(q) => i - Len(q) \in DOMAIN r /\ a[i] = r[i - Len(q)]
      /\ \A i \in DOMAIN r : Len(q) + i \in DOMAIN a /\ a[Len(q) + i] = r[i]
      /\ DOMAIN q = 1..Len(q) /\ DOMAIN r = 1..Len(r) /\ DOMAIN a = 1..Len(q) + Len(r)
  BY ConcatProperties
<1> HIDE DEF a
<1>2. NoneOf(q, L) => NoneOf(a, L)
  BY <1>1 DEF NoneOf
<1>3. EndsIn(q, J, L) => EndsIn(a, J, L)
  <2> SUFFICES ASSUME EndsIn(q, J, L) PROVE EndsIn(a, J, L)
    OBVIOUS
  <2>1. PICK j \in DOMAIN q : q[j] \in J /\ \A k \in DOMAIN q : k > j => q[k] \notin L
    BY DEF EndsIn
  <2>2. j \in DOMAIN a /\ a[j] \in J
    BY <1>1, <2>1
  <2>3. ASSUME NEW k \in DOMAIN a, k > j
        PROVE  a[k] \notin L
    BY <1>1, <2>1, <2>3 DEF NoneOf
  <2> QED
    BY <2>2, <2>3 DEF EndsIn
<1>4. ASSUME NEW i \in DOMAIN r, r[i] \in J
      PROVE  EndsIn(a, J, L)
  <2>1. Len(q) + i \in DOMAIN a /\ a[Len(q) + i] \in J
    BY <1>1, <1>4
  <2>2. ASSUME NEW k \in DOMAIN a, k > Len(q) + i
        PROVE  a[k] \notin L
    <3>1. k > Len(q)
      BY <1>1, <1>4, <2>2
    <3> QED
      BY <1>1, <3>1 DEF NoneOf
  <2> QED
    BY <2>1, <2>2 DEF EndsIn
<1> QED
  BY <1>2, <1>3, <1>4 DEF a

(* Taking the first of a queue. *)
LEMMA QueueTail ==
    ASSUME NEW S, NEW q \in Seq(S), q # <<>>, NEW J, NEW L
    PROVE  /\ NoneOf(q, L) => NoneOf(Tail(q), L) /\ Head(q) \notin L
           /\ EndsIn(q, J, L) => \/ EndsIn(Tail(q), J, L)
                                 \/ Head(q) \in J /\ NoneOf(Tail(q), L)
<1> DEFINE t == Tail(q)
<1>1. /\ Len(q) \in Nat \ {0} /\ DOMAIN q = 1..Len(q) /\ DOMAIN t = 1..Len(q) - 1
      /\ \A i \in 1..Len(q) - 1 : t[i] = q[i + 1]
      /\ Head(q) = q[1]
  BY HeadTailProperties, EmptySeq
<1> HIDE DEF t
<1>2. NoneOf(q, L) => NoneOf(t, L) /\ Head(q) \notin L
  BY <1>1 DEF NoneOf
<1>3. ASSUME NEW j \in DOMAIN q, q[j] \in J, \A k \in DOMAIN q : k > j => q[k] \notin L, j # 1
      PROVE  EndsIn(t, J, L)
  <2>1. j - 1 \in DOMAIN t /\ t[j - 1] \in J
    BY <1>1, <1>3
  <2>2. ASSUME NEW k \in DOMAIN t, k > j - 1
        PROVE  t[k] \notin L
    <3>1. k + 1 \in DOMAIN q /\ k + 1 > j /\ t[k] = q[k + 1]
      BY <1>1, <1>3, <2>2
    <3> QED
      BY <1>3, <3>1
  <2> QED
    BY <2>1, <2>2 DEF EndsIn
<1>4. ASSUME q[1] \in J, \A k \in DOMAIN q : k > 1 => q[k] \notin L
      PROVE  Head(q) \in J /\ NoneOf(t, L)
  BY <1>1, <1>4 DEF NoneOf
<1>5. EndsIn(q, J, L) => EndsIn(t, J, L) \/ (Head(q) \in J /\ NoneOf(t, L))
  <2> SUFFICES ASSUME EndsIn(q, J, L)
               PROVE  EndsIn(t, J, L) \/ (Head(q) \in J /\ NoneOf(t, L))
    OBVIOUS
  <2>1. PICK j \in DOMAIN q : q[j] \in J /\ \A k \in DOMAIN q : k > j => q[k] \notin L
    BY DEF EndsIn
  <2> QED
    BY <1>3, <1>4, <2>1
<1> QED
  BY <1>2, <1>5 DEF t

-----------------------------------------------------------------------------
(* What arrivals and departures look like. *)

LEMMA ArrivalsAre ==
    ASSUME NEW m \in Lines, NEW v \in Users
    PROVE  /\ m \in Arrivals(v) <=> \/ m.line = "JOIN" /\ m.from = v
                                    \/ m.line = "NAMES" /\ v \in m.from
           /\ m \in Departures(v) <=> m.line = "LEFT" /\ m.from = v
<1>1. m \in AnyLine
  BY DEF AnyLine, Lines, OrderLines
<1> QED
  BY <1>1 DEF Arrivals, Departures

LEMMA EventsAre ==
    ASSUME NEW e \in Events, NEW v \in Users
    PROVE  /\ e \in Joined(v) <=> e.event = "joined" /\ e.nick = v
           /\ e \in Left(v) <=> e.event = "left" /\ e.nick = v
<1>1. e \in AnyEvent
  BY DEF AnyEvent, Events, OrderEvents
<1> QED
  BY <1>1 DEF Joined, Left

(* One more line, if it does not say that v has gone, does not change what *)
(* is expected of v; one that says that he has come is enough.             *)
LEMMA LineArrives ==
    ASSUME Typed, NEW u \in Users, NEW v \in Users, NEW m \in Lines, m \notin Departures(v),
           inbox'[u] = Append(inbox[u], m), events'[u] = events[u], calls'[u] = calls[u]
    PROVE  Expected(u, v) \/ m \in Arrivals(v) => Expected(u, v)'
<1>1. inbox[u] \in Seq(Lines)
  BY DEF Typed
<1> QED
  BY <1>1, QueueAppend DEF Expected

(* Of the first line of an inbox, or the first event, either it is the      *)
(* arrival, or the rest still ends in one.                                 *)
LEMMA LineTaken ==
    ASSUME Typed, NEW u \in Users, NEW v \in Users, inbox[u] # <<>>,
           inbox'[u] = Tail(inbox[u])
    PROVE  /\ NoneOf(inbox[u], Departures(v)) =>
                  NoneOf(inbox'[u], Departures(v)) /\ Line(u) \notin Departures(v)
           /\ EndsIn(inbox[u], Arrivals(v), Departures(v)) =>
                 \/ EndsIn(inbox'[u], Arrivals(v), Departures(v))
                 \/ Line(u) \in Arrivals(v) /\ NoneOf(inbox'[u], Departures(v))
<1> DEFINE q == inbox[u]
           J == Arrivals(v)
           L == Departures(v)
<1>1. q \in Seq(Lines) /\ q # <<>> /\ inbox'[u] = Tail(q) /\ Line(u) = Head(q)
  BY DEF Typed, Line
<1> HIDE DEF q, J, L
<1>2. /\ NoneOf(q, L) => NoneOf(Tail(q), L) /\ Head(q) \notin L
      /\ EndsIn(q, J, L) => EndsIn(Tail(q), J, L) \/ (Head(q) \in J /\ NoneOf(Tail(q), L))
  BY <1>1, QueueTail
<1> QED
  BY <1>1, <1>2 DEF q, J, L

LEMMA EventTaken ==
    ASSUME Typed, NEW u \in Users, NEW v \in Users, events[u] # <<>>,
           events'[u] = Tail(events[u])
    PROVE  /\ NoneOf(events[u], Left(v)) =>
                  NoneOf(events'[u], Left(v)) /\ Event(u) \notin Left(v)
           /\ EndsIn(events[u], Joined(v), Left(v)) =>
                 \/ EndsIn(events'[u], Joined(v), Left(v))
                 \/ Event(u) \in Joined(v) /\ NoneOf(events'[u], Left(v))
<1> DEFINE q == events[u]
           J == Joined(v)
           L == Left(v)
<1>1. q \in Seq(Events) /\ q # <<>> /\ events'[u] = Tail(q) /\ Event(u) = Head(q)
  BY DEF Typed, Event
<1> HIDE DEF q, J, L
<1>2. /\ NoneOf(q, L) => NoneOf(Tail(q), L) /\ Head(q) \notin L
      /\ EndsIn(q, J, L) => EndsIn(Tail(q), J, L) \/ (Head(q) \in J /\ NoneOf(Tail(q), L))
  BY <1>1, QueueTail
<1> QED
  BY <1>1, <1>2 DEF q, J, L

LEMMA ExpectedKept ==
    ASSUME NEW u \in Users, NEW v \in Users, Expected(u, v),
           inbox'[u] = inbox[u], events'[u] = events[u], calls'[u] = calls[u]
    PROVE  Expected(u, v)'
  BY DEF Expected

(* A line told to some of the users, which is not about anybody's leaving. *)
LEMMA ToldExpected ==
    ASSUME Typed, NEW u \in Users, NEW v \in Users, Expected(u, v), NEW to,
           NEW m \in Lines, m \notin Departures(v),
           inbox' = Tell(to, m), events'[u] = events[u], calls'[u] = calls[u]
    PROVE  Expected(u, v)'
<1>1. CASE u \in to
  <2>1. inbox'[u] = Append(inbox[u], m)
    BY <1>1 DEF Tell
  <2> QED
    BY <2>1, LineArrives
<1>2. CASE u \notin to
  BY <1>2, ExpectedKept DEF Tell
<1> QED
  BY <1>1, <1>2

LEMMA ConcernsBefore ==
    ASSUME NEW u \in Users, NEW v \in Users, Concerns(u, v)', heard \subseteq heard',
           UNCHANGED <<phase, room>>
    PROVE  Concerns(u, v)
  BY DEF Concerns

(* The parts of the invariant that most steps leave alone. *)
(* Only the tables change, and no superpeer is entered unheard. *)
LEMMA UnheardKept ==
    ASSUME Unheard, heard \subseteq heard', NEW u \in Users,
           all_superpeers(roles'[u]) # {} => all_superpeers(roles[u]) # {} \/ u \in heard',
           \A v \in Users \ {u} : roles'[v] = roles[v]
    PROVE  Unheard'
  BY DEF Unheard

LEMMA HeardUnheard ==
    ASSUME Unheard, NEW u \in Users, Hears(u), \A v \in Users \ {u} : roles'[v] = roles[v]
    PROVE  Unheard' /\ heard \subseteq heard'
<1>1. heard' = heard \cup {v \in {u} : all_superpeers(roles'[v]) # {}}
  BY DEF Hears
<1> QED
  BY <1>1, UnheardKept

(* Removing a nick, or entering one as a peer, adds no superpeer. *)
LEMMA SuperpeersRemoved ==
    ASSUME NEW t \in Tables, NEW n
    PROVE  all_superpeers(Removed(t, n)) \subseteq all_superpeers(t)
  BY RemovedRole DEF all_superpeers

LEMMA SuperpeersOfPeer ==
    ASSUME NEW t \in Tables, NEW n \in Users, NEW r \in Role, ~is_superpeer(r)
    PROVE  all_superpeers(set_peer_role(t, n, r)) \subseteq all_superpeers(t)
<1>1. DOMAIN set_peer_role(t, n, r) = DOMAIN t \cup {n}
  BY SetRole
<1>2. \A m \in DOMAIN t \cup {n} : set_peer_role(t, n, r)[m] = IF m = n THEN r ELSE t[m]
  BY DEF set_peer_role
<1> QED
  BY <1>1, <1>2 DEF all_superpeers
-----------------------------------------------------------------------------
(* How each step keeps the rest of the invariant: the reader task. *)

LEMMA ReadJoinReaches ==
    ASSUME EInv, NEW u \in Users, ReadJoin(u)
    PROVE  Unheard' /\ Earshot'
<1> USE DEF EInv, IInv
<1>1. /\ inbox[u] # <<>> /\ Line(u).line = "JOIN"
      /\ UNCHANGED <<phase, room, members, ourRole, calls, doing, promoted, known, roles, heard>>
  BY DEF ReadJoin, Reads
<1>2. Line(u) \in Lines /\ Line(u).from \in Users /\ inbox[u] \in Seq(Lines)
      /\ events[u] \in Seq(Events) /\ Line(u) = Head(inbox[u])
  BY <1>1, TakenType, LineParts DEF Typed, Line
<1> DEFINE e == [event |-> "joined", nick |-> Line(u).from]
<1>3. e \in Events
  BY <1>2, EventTypes
<1>4. /\ inbox'[u] = Tail(inbox[u]) /\ events'[u] = Append(events[u], e)
      /\ \A v \in Users \ {u} : events'[v] = events[v]
  BY DEF ReadJoin, Taken, CoMembers, Typed
<1>5. Unheard'
  BY <1>1 DEF Unheard
<1>6. ASSUME NEW v \in Users, NEW x \in Users, Concerns(v, x)'
      PROVE  Expected(v, x)'
  <2>1. Expected(v, x)
    BY <1>1, <1>6, ConcernsBefore DEF Earshot
  <2>2. CASE v # u
    <3>1. [line |-> "PUBKEY", from |-> u] \in Lines
          /\ [line |-> "PUBKEY", from |-> u] \notin Departures(x)
      BY LineTypes DEF Departures
    <3>2. inbox'[v] = inbox[v] \/ inbox'[v] = Append(inbox[v], [line |-> "PUBKEY", from |-> u])
      BY <2>2 DEF ReadJoin, Taken, Typed
    <3> QED
      BY <1>1, <1>4, <2>1, <2>2, <3>1, <3>2, LineArrives, ExpectedKept
  <2>3. CASE v = u
    <3>1. /\ e \notin Left(x)
          /\ e \in Joined(x) <=> Line(u).from = x
      BY <1>3, EventsAre
    <3>2. /\ Line(u) \notin Departures(x)
          /\ Line(u) \in Arrivals(x) => Line(u).from = x
      BY <1>1, <1>2, ArrivalsAre
    <3> HIDE DEF e
    <3>3. /\ NoneOf(events[u], Left(x)) => NoneOf(events'[u], Left(x))
          /\ EndsIn(events[u], Joined(x), Left(x)) => EndsIn(events'[u], Joined(x), Left(x))
          /\ e \in Joined(x) => EndsIn(events'[u], Joined(x), Left(x))
      BY <1>2, <1>3, <1>4, <3>1, QueueAppend
    <3>4. /\ NoneOf(inbox[u], Departures(x)) => NoneOf(inbox'[u], Departures(x))
          /\ EndsIn(inbox[u], Arrivals(x), Departures(x)) =>
                \/ EndsIn(inbox'[u], Arrivals(x), Departures(x))
                \/ Line(u) \in Arrivals(x) /\ NoneOf(inbox'[u], Departures(x))
      BY <1>1, <1>2, <1>4, LineTaken
    <3> QED
      BY <1>1, <2>1, <2>3, <3>1, <3>2, <3>3, <3>4 DEF Expected
  <2> QED
    BY <2>2, <2>3
<1> QED
  BY <1>5, <1>6 DEF Earshot

(* When a line has been read, the events tell of the arrival it told of.    *)
LEMMA ReadReaches ==
    ASSUME EInv, NEW u \in Users, inbox[u] # <<>>, inbox' = Taken(u),
           UNCHANGED <<phase, room, calls>>, heard \subseteq heard',
           \A v \in Users \ {u} : events'[v] = events[v],
           \A x \in Users :
              /\ Line(u) \in Arrivals(x) => EndsIn(events'[u], Joined(x), Left(x))
              /\ Line(u) \notin Departures(x) =>
                    /\ NoneOf(events[u], Left(x)) => NoneOf(events'[u], Left(x))
                    /\ EndsIn(events[u], Joined(x), Left(x)) =>
                          EndsIn(events'[u], Joined(x), Left(x))
    PROVE  Earshot'
<1> USE DEF EInv, IInv
<1>1. inbox'[u] = Tail(inbox[u]) /\ \A v \in Users \ {u} : inbox'[v] = inbox[v]
  BY DEF Taken, Typed
<1>2. ASSUME NEW v \in Users, NEW x \in Users, Concerns(v, x)'
      PROVE  Expected(v, x)'
  <2>1. Expected(v, x)
    BY <1>2, ConcernsBefore DEF Earshot
  <2>2. CASE v # u
    BY <1>1, <2>1, <2>2, ExpectedKept
  <2>3. CASE v = u
    BY <1>1, <2>1, <2>3, LineTaken DEF Expected
  <2> QED
    BY <2>2, <2>3
<1> QED
  BY <1>2 DEF Earshot

LEMMA ReadNamesReaches ==
    ASSUME EInv, NEW u \in Users, ReadNames(u)
    PROVE  Unheard' /\ Earshot'
<1> USE DEF EInv, IInv
<1>1. /\ inbox[u] # <<>> /\ Line(u).line = "NAMES" /\ inbox' = Taken(u)
      /\ UNCHANGED <<phase, room, members, ourRole, calls, doing, promoted, known, roles, heard>>
  BY DEF ReadNames, Reads
<1>2. Line(u) \in Lines /\ Line(u).from \subseteq Users /\ events[u] \in Seq(Events)
  BY <1>1, TakenType, LineParts DEF Typed
<1> DEFINE names == SetToSeq(Line(u).from)
           new == [i \in DOMAIN names |-> [event |-> "joined", nick |-> names[i]]]
<1>3. names \in Seq(Users) /\ \A x \in Line(u).from : \E i \in DOMAIN names : names[i] = x
  <2>1. IsFiniteSet(Line(u).from)
    BY <1>2, FS_Subset, RolesAssumption
  <2> QED
    BY <1>2, <2>1, SetToSeqType, SetToSeqAll, SeqMonotonic
<1>4. events' = [events EXCEPT ![u] = @ \o new]
  BY DEF ReadNames
<1> HIDE DEF names
<1>5. /\ new \in Seq(Events)
      /\ DOMAIN new = DOMAIN names
      /\ \A i \in DOMAIN new : new[i].event = "joined" /\ new[i].nick = names[i]
  <2>1. \A i \in 1..Len(names) : names[i] \in Users
    BY <1>3
  <2>2. \A i \in 1..Len(names) : [event |-> "joined", nick |-> names[i]] \in Events
    BY <2>1, EventTypes
  <2> QED
    BY <1>3, <2>2
<1> HIDE DEF new
<1>6. events'[u] = events[u] \o new /\ \A v \in Users \ {u} : events'[v] = events[v]
  BY <1>4 DEF Typed
<1>7. ASSUME NEW x \in Users
      PROVE  /\ Line(u) \in Arrivals(x) => EndsIn(events'[u], Joined(x), Left(x))
             /\ NoneOf(events[u], Left(x)) => NoneOf(events'[u], Left(x))
             /\ EndsIn(events[u], Joined(x), Left(x)) => EndsIn(events'[u], Joined(x), Left(x))
  <2>1. \A i \in DOMAIN new : new[i] \in Events
    BY <1>5
  <2>2. NoneOf(new, Left(x))
    BY <1>5, <2>1, EventsAre DEF NoneOf
  <2>3. Line(u) \in Arrivals(x) => \E i \in DOMAIN new : new[i] \in Joined(x)
    BY <1>1, <1>2, <1>3, <1>5, <2>1, EventsAre, ArrivalsAre
  <2> DEFINE J == Joined(x)
             L == Left(x)
             q == events[u]
  <2>4. q \in Seq(Events) /\ events'[u] = q \o new /\ NoneOf(new, L)
    BY <1>2, <1>6, <2>2
  <2> HIDE DEF J, L, q, EInv, IInv
  <2>5. /\ NoneOf(q, L) => NoneOf(q \o new, L)
        /\ EndsIn(q, J, L) => EndsIn(q \o new, J, L)
        /\ (\E i \in DOMAIN new : new[i] \in J) => EndsIn(q \o new, J, L)
    BY <1>5, <2>4, QueueConcat
  <2> QED
    BY <2>3, <2>4, <2>5 DEF J, L, q
<1>8. Earshot'
  BY <1>1, <1>6, <1>7, ReadReaches
<1> QED
  BY <1>1, <1>8 DEF Unheard

LEMMA ReadLeftReaches ==
    ASSUME EInv, NEW u \in Users, ReadLeft(u)
    PROVE  Unheard' /\ Earshot'
<1> USE DEF EInv, IInv
<1>1. /\ inbox[u] # <<>> /\ Line(u).line = "LEFT" /\ inbox' = Taken(u)
      /\ UNCHANGED <<phase, room, members, ourRole, calls, doing, promoted, heard>>
      /\ roles' = [roles EXCEPT ![u] = Removed(@, Line(u).from)]
  BY DEF ReadLeft, Reads
<1>2. Line(u) \in Lines /\ Line(u).from \in Users /\ events[u] \in Seq(Events)
  BY <1>1, TakenType, LineParts DEF Typed
<1> DEFINE e == [event |-> "left", nick |-> Line(u).from]
<1>3. e \in Events
  BY <1>2, EventTypes
<1>4. /\ events'[u] = Append(events[u], e)
      /\ \A v \in Users \ {u} : events'[v] = events[v]
  BY DEF ReadLeft, Typed
<1>5. ASSUME NEW x \in Users
      PROVE  /\ Line(u) \notin Arrivals(x)
             /\ Line(u) \notin Departures(x) => e \notin Left(x)
  BY <1>1, <1>2, <1>3, EventsAre, ArrivalsAre
<1> HIDE DEF e
<1>6. ASSUME NEW x \in Users, e \notin Left(x)
      PROVE  /\ NoneOf(events[u], Left(x)) => NoneOf(events'[u], Left(x))
             /\ EndsIn(events[u], Joined(x), Left(x)) => EndsIn(events'[u], Joined(x), Left(x))
  BY <1>2, <1>3, <1>4, <1>6, QueueAppend
<1>7. Earshot'
  BY <1>1, <1>4, <1>5, <1>6, ReadReaches
<1>8. Unheard'
  <2>1. roles[u] \in Tables /\ roles'[u] = Removed(roles[u], Line(u).from)
        /\ \A v \in Users \ {u} : roles'[v] = roles[v]
    BY <1>1 DEF Typed
  <2>2. all_superpeers(roles'[u]) \subseteq all_superpeers(roles[u])
    BY <2>1, SuperpeersRemoved
  <2> QED
    BY <1>1, <2>1, <2>2, UnheardKept
<1> QED
  BY <1>1, <1>7, <1>8

(* A line that says nothing of who is here. *)
LEMMA OtherLine ==
    ASSUME EInv, NEW u \in Users, inbox[u] # <<>>, inbox' = Taken(u),
           Line(u).line \in {"PUBKEY", "ROLE", "MOD"},
           UNCHANGED <<phase, room, calls>>, heard \subseteq heard',
           \A v \in Users \ {u} : events'[v] = events[v],
           \/ events'[u] = events[u]
           \/ \E e \in Events : e.event = "mod" /\ events'[u] = Append(events[u], e)
    PROVE  Earshot'
<1> USE DEF EInv, IInv
<1>1. Line(u) \in Lines /\ events[u] \in Seq(Events)
  BY TakenType DEF Typed
<1>2. ASSUME NEW x \in Users
      PROVE  /\ Line(u) \notin Arrivals(x)
             /\ NoneOf(events[u], Left(x)) => NoneOf(events'[u], Left(x))
             /\ EndsIn(events[u], Joined(x), Left(x)) => EndsIn(events'[u], Joined(x), Left(x))
  <2>1. Line(u) \notin Arrivals(x)
    BY <1>1, ArrivalsAre
  <2>2. ASSUME NEW e \in Events, e.event = "mod", events'[u] = Append(events[u], e)
        PROVE  /\ NoneOf(events[u], Left(x)) => NoneOf(events'[u], Left(x))
               /\ EndsIn(events[u], Joined(x), Left(x)) =>
                     EndsIn(events'[u], Joined(x), Left(x))
    <3>1. e \notin Left(x)
      BY <2>2, EventsAre
    <3> QED
      BY <1>1, <2>2, <3>1, QueueAppend
  <2> QED
    BY <2>1, <2>2
<1> QED
  BY <1>2, ReadReaches

LEMMA ReadPubkeyReaches ==
    ASSUME EInv, NEW u \in Users, ReadPubkey(u)
    PROVE  Unheard' /\ Earshot'
<1>1. /\ inbox[u] # <<>> /\ Line(u).line = "PUBKEY" /\ inbox' = Taken(u)
      /\ UNCHANGED <<phase, room, members, calls, roles, heard, events>>
  BY DEF ReadPubkey, Reads
<1>2. Earshot'
  BY <1>1, OtherLine
<1> QED
  BY <1>1, <1>2 DEF EInv, Unheard

LEMMA ReadRoleReaches ==
    ASSUME EInv, NEW u \in Users, ReadRole(u)
    PROVE  Unheard' /\ Earshot'
<1>1. /\ inbox[u] # <<>> /\ Line(u).line = "ROLE" /\ inbox' = Taken(u) /\ Hears(u)
      /\ UNCHANGED <<phase, room, members, calls, events>>
      /\ \A v \in Users \ {u} : roles'[v] = roles[v]
  BY DEF ReadRole, Reads, EInv, IInv, Typed
<1>2. Unheard' /\ heard \subseteq heard'
  BY <1>1, HeardUnheard DEF EInv
<1>3. Earshot'
  BY <1>1, <1>2, OtherLine
<1> QED
  BY <1>1, <1>2, <1>3 DEF EInv

LEMMA ReadModReaches ==
    ASSUME EInv, NEW u \in Users, ReadMod(u)
    PROVE  Unheard' /\ Earshot'
<1>1. /\ inbox[u] # <<>> /\ Line(u).line = "MOD" /\ inbox' = Taken(u)
      /\ UNCHANGED <<phase, room, members, calls, roles, heard>>
  BY DEF ReadMod, Reads
<1>2. Line(u) \in Lines
  BY <1>1, TakenType DEF EInv, IInv
<1> DEFINE e == [event |-> "mod", from |-> Line(u).from, action |-> Line(u).action,
                 target |-> Line(u).target]
<1>3. e \in Events /\ e.event = "mod"
  BY <1>1, <1>2, EventTypes
<1>4. /\ events'[u] = events[u] \/ events'[u] = Append(events[u], e)
      /\ \A v \in Users \ {u} : events'[v] = events[v]
  BY DEF ReadMod, EInv, IInv, Typed
<1> HIDE DEF e
<1>5. Earshot'
  BY <1>1, <1>3, <1>4, OtherLine
<1> QED
  BY <1>1, <1>5 DEF EInv, Unheard
-----------------------------------------------------------------------------
(* The event loop. *)

LEMMA HandleReaches ==
    ASSUME EInv, NEW u \in Users, events[u] # <<>>,
           events' = [events EXCEPT ![u] = Tail(@)],
           UNCHANGED <<phase, room, inbox>>, heard \subseteq heard',
           \A v \in Users \ {u} : calls'[v] = calls[v],
           \A x \in Users :
              /\ Concerns(u, x) /\ Event(u) \in Joined(x) => x \in calls'[u]
              /\ Event(u) \notin Left(x) /\ x \in calls[u] => x \in calls'[u]
    PROVE  Earshot'
<1> USE DEF EInv, IInv
<1>1. events'[u] = Tail(events[u]) /\ \A v \in Users \ {u} : events'[v] = events[v]
  BY DEF Typed
<1>2. ASSUME NEW v \in Users, NEW x \in Users, Concerns(v, x)'
      PROVE  Expected(v, x)'
  <2>1. Concerns(v, x) /\ Expected(v, x)
    BY <1>2, ConcernsBefore DEF Earshot
  <2>2. CASE v # u
    BY <1>1, <2>1, <2>2, ExpectedKept
  <2>3. CASE v = u
    BY <1>1, <2>1, <2>3, EventTaken DEF Expected
  <2> QED
    BY <2>2, <2>3
<1> QED
  BY <1>2 DEF Earshot

LEMMA HandleJoinedReaches ==
    ASSUME EInv, NEW u \in Users, HandleJoined(u)
    PROVE  Unheard' /\ Earshot'
<1> USE DEF EInv, IInv
<1> DEFINE n == Event(u).nick
           table == set_peer_role(roles[u], n, "peer")
<1>1. /\ events[u] # <<>> /\ Event(u).event = "joined"
      /\ events' = [events EXCEPT ![u] = Tail(@)]
      /\ UNCHANGED <<phase, room, members, inbox, heard>>
      /\ roles' = [roles EXCEPT ![u] = table]
      /\ calls' = [calls EXCEPT ![u] =
             IF should_connect_to(table, LoopRole(u), "peer") /\ Nickname[u] < Nickname[n]
             THEN @ \cup {n} ELSE @]
  BY DEF HandleJoined, Handles
<1>2. Event(u) \in Events /\ n \in Users /\ roles[u] \in Tables
  BY <1>1, HandledType, EventParts DEF Typed
<1>3. all_superpeers(table) \subseteq all_superpeers(roles[u])
  <2>1. PICK r \in Role : r = "peer"
    BY RoleTypes
  <2>2. ~is_superpeer(r)
    BY <2>1 DEF is_superpeer
  <2> QED
    BY <1>2, <2>1, <2>2, SuperpeersOfPeer
<1> HIDE DEF table
<1>4. /\ roles'[u] = table /\ \A v \in Users \ {u} : roles'[v] = roles[v]
      /\ \A v \in Users \ {u} : calls'[v] = calls[v]
      /\ calls[u] \subseteq calls'[u]
      /\ should_connect_to(table, LoopRole(u), "peer") /\ Nickname[u] < Nickname[n]
            => n \in calls'[u]
  BY <1>1, <1>2 DEF Typed
<1>5. Unheard'
  BY <1>1, <1>3, <1>4, UnheardKept
<1>6. ASSUME NEW x \in Users, Concerns(u, x), Event(u) \in Joined(x)
      PROVE  x \in calls'[u]
  <2>1. n = x /\ Nickname[u] < Nickname[n]
    BY <1>2, <1>6, EventsAre DEF Concerns
  <2>2. CASE u = HostUser
    BY <1>4, <2>1, <2>2 DEF should_connect_to, LoopRole, is_superpeer
  <2>3. CASE u \notin heard
    BY <1>3, <1>4, <2>1, <2>3 DEF should_connect_to, Unheard
  <2> QED
    BY <1>6, <2>2, <2>3 DEF Concerns
<1>7. Earshot'
  BY <1>1, <1>4, <1>6, HandleReaches
<1> QED
  BY <1>1, <1>5, <1>7

LEMMA HandleLeftReaches ==
    ASSUME EInv, NEW u \in Users, HandleLeft(u)
    PROVE  Unheard' /\ Earshot'
<1> USE DEF EInv, IInv
<1>1. /\ events[u] # <<>> /\ Event(u).event = "left"
      /\ events' = [events EXCEPT ![u] = Tail(@)]
      /\ UNCHANGED <<phase, room, members, inbox, heard>>
      /\ roles' = [roles EXCEPT ![u] = Removed(@, Event(u).nick)]
      /\ calls' = [calls EXCEPT ![u] = @ \ {Event(u).nick}]
  BY DEF HandleLeft, Handles
<1>2. Event(u) \in Events
  BY <1>1, HandledType
<1>3. /\ roles[u] \in Tables /\ roles'[u] = Removed(roles[u], Event(u).nick)
      /\ \A v \in Users \ {u} : roles'[v] = roles[v]
      /\ calls'[u] = calls[u] \ {Event(u).nick}
      /\ \A v \in Users \ {u} : calls'[v] = calls[v]
  BY <1>1 DEF Typed
<1>4. all_superpeers(roles'[u]) \subseteq all_superpeers(roles[u])
  BY <1>3, SuperpeersRemoved
<1>5. Unheard'
  BY <1>1, <1>3, <1>4, UnheardKept
<1>6. ASSUME NEW x \in Users
      PROVE  /\ Event(u) \notin Joined(x)
             /\ Event(u) \notin Left(x) /\ x \in calls[u] => x \in calls'[u]
  BY <1>1, <1>2, <1>3, EventsAre
<1>7. Earshot'
  BY <1>1, <1>3, <1>6, HandleReaches
<1> QED
  BY <1>1, <1>5, <1>7

LEMMA HandleModReaches ==
    ASSUME EInv, NEW u \in Users, HandleMod(u)
    PROVE  Unheard' /\ Earshot'
<1> USE DEF EInv, IInv
<1>1. /\ events[u] # <<>> /\ Event(u).event = "mod"
      /\ events' = [events EXCEPT ![u] = Tail(@)]
      /\ UNCHANGED <<phase, room, members, inbox, calls>> /\ Hears(u)
      /\ \A v \in Users \ {u} : roles'[v] = roles[v]
  BY DEF HandleMod, Handles, Typed
<1>2. Event(u) \in Events
  BY <1>1, HandledType
<1>3. Unheard' /\ heard \subseteq heard'
  BY <1>1, HeardUnheard
<1>4. \A x \in Users : Event(u) \notin Joined(x)
  BY <1>1, <1>2, EventsAre
<1>5. Earshot'
  BY <1>1, <1>3, <1>4, HandleReaches
<1> QED
  BY <1>1, <1>3, <1>5

LEMMA AnnounceReaches ==
    ASSUME EInv, NEW u \in Users, Announce(u)
    PROVE  Unheard' /\ Earshot'
<1> USE DEF EInv, IInv
<1> DEFINE m == [line |-> "ROLE", from |-> u, role |-> LoopRole(u)]
<1>1. /\ inbox' = Tell(members[room[u]] \ {u}, m)
      /\ UNCHANGED <<phase, room, members, events, calls, roles, heard>>
  BY DEF Announce
<1>2. m \in Lines /\ \A x \in Users : m \notin Departures(x)
  BY LineTypes DEF Departures
<1> HIDE DEF m
<1>3. ASSUME NEW v \in Users, NEW x \in Users, Concerns(v, x)'
      PROVE  Expected(v, x)'
  <2>1. Expected(v, x)
    BY <1>1, <1>3, ConcernsBefore DEF Earshot
  <2> QED
    BY <1>1, <1>2, <2>1, ToldExpected
<1> QED
  BY <1>1, <1>3 DEF Earshot, Unheard

-----------------------------------------------------------------------------
(* Connecting, leaving, ordering and switching. *)

LEMMA OrderReaches ==
    ASSUME EInv, NEW u \in Users, NEW a \in Actions, NEW n \in Users, Order(u, a, n)
    PROVE  Unheard' /\ Earshot'
<1> USE DEF EInv, IInv
<1> DEFINE m == [line |-> "MOD", from |-> u, action |-> a, target |-> n]
<1>1. /\ inbox' = Tell(members[room[u]] \ {u}, m) /\ Hears(u)
      /\ UNCHANGED <<phase, room, members, events, calls>>
      /\ \A v \in Users \ {u} : roles'[v] = roles[v]
  BY DEF Order, Typed
<1>2. Unheard' /\ heard \subseteq heard'
  BY <1>1, HeardUnheard
<1>3. \A x \in Users : m \notin Departures(x)
  BY DEF Departures
<1>4. ASSUME NEW v \in Users, NEW x \in Users, Concerns(v, x)'
      PROVE  Expected(v, x)'
  <2> HIDE DEF m
  <2>1. Expected(v, x)
    BY <1>1, <1>2, <1>4, ConcernsBefore DEF Earshot
  <2>2. CASE v \in members[room[u]] \ {u}
    <3>1. inbox'[v] = Append(inbox[v], m)
      BY <1>1, <2>2 DEF Tell
    <3>2. m \in AnyLine
      <4>1. u = HostUser
        BY OrdersAreTheHosts DEF Order
      <4> QED
        BY <4>1 DEF m, AnyLine
    <3>3. inbox[v] \in Seq(AnyLine)
      <4>1. Lines \subseteq AnyLine
        BY DEF AnyLine, Lines, OrderLines
      <4> QED
        BY <4>1, SeqMonotonic DEF Typed
    <3> QED
      BY <1>1, <1>3, <2>1, <3>1, <3>2, <3>3, QueueAppend DEF Expected
  <2>3. CASE v \notin members[room[u]] \ {u}
    BY <1>1, <2>1, <2>3, ExpectedKept DEF Tell
  <2> QED
    BY <2>2, <2>3
<1> QED
  BY <1>1, <1>2, <1>4 DEF Earshot

LEMMA ConnectReaches ==
    ASSUME EInv, NEW u \in Users, Connect(u)
    PROVE  Unheard' /\ Earshot'
<1> USE DEF EInv, IInv
<1> DEFINE m == [line |-> "ROLE", from |-> u, role |-> LoopRole(u)]
<1>1. /\ inbox' = Tell(members[Home], m) /\ phase[u] = "off"
      /\ phase' = [phase EXCEPT ![u] = "connected"]
      /\ UNCHANGED <<room, members, events, calls, roles, heard>>
  BY DEF Connect
<1>2. m \in Lines /\ \A x \in Users : m \notin Departures(x)
  BY LineTypes DEF Departures
<1> HIDE DEF m
<1>3. \A v \in Users : phase'[v] = "on" <=> phase[v] = "on"
  BY <1>1 DEF Typed
<1>4. ASSUME NEW v \in Users, NEW x \in Users, Concerns(v, x)'
      PROVE  Expected(v, x)'
  <2>1. Expected(v, x)
    BY <1>1, <1>3, <1>4 DEF Earshot, Concerns
  <2> QED
    BY <1>1, <1>2, <2>1, ToldExpected
<1> QED
  BY <1>1, <1>4 DEF Earshot, Unheard

(* What a JOIN by u brings another client: at most one line, which tells    *)
(* those of the room that u has come.                                      *)
LEMMA EnteredLines ==
    ASSUME Typed, NEW u \in Users, NEW r \in Rooms, NEW x \in Users
    PROVE  /\ Entered(u, r)[x] \in Seq(Lines)
           /\ \A z \in Users : NoneOf(Entered(u, r)[x], Departures(z))
           /\ x = u => \A z \in members[r] \ {u} :
                 \E i \in DOMAIN Entered(u, r)[x] : Entered(u, r)[x][i] \in Arrivals(z)
           /\ x # u /\ x \in members[r] =>
                 \E i \in DOMAIN Entered(u, r)[x] : Entered(u, r)[x][i] \in Arrivals(u)
<1> DEFINE names == [line |-> "NAMES", from |-> members[r] \ {u}]
           join == [line |-> "JOIN", from |-> u]
<1>1. /\ names \in Lines /\ names.line = "NAMES" /\ names.from = members[r] \ {u}
      /\ join \in Lines /\ join.line = "JOIN" /\ join.from = u
  BY LineTypes DEF Typed
<1>2. /\ members[r] \subseteq Users
      /\ Entered(u, r)[x] = IF x = u THEN <<names>>
                            ELSE IF x \in members[r] THEN <<join>> ELSE <<>>
  BY DEF Entered, Typed
<1> HIDE DEF names, join
<1>3. \A z \in Users : names \notin Departures(z) /\ join \notin Departures(z)
  BY <1>1, ArrivalsAre
<1>4. (\A z \in members[r] \ {u} : names \in Arrivals(z)) /\ join \in Arrivals(u)
  BY <1>1, <1>2, ArrivalsAre
<1>5. CASE x = u
  <2>1. Entered(u, r)[x] = <<names>>
    BY <1>2, <1>5
  <2> QED
    BY <1>1, <1>3, <1>4, <1>5, <2>1 DEF NoneOf
<1>6. CASE x # u /\ x \in members[r]
  <2>1. Entered(u, r)[x] = <<join>>
    BY <1>2, <1>6
  <2> QED
    BY <1>1, <1>3, <1>4, <1>6, <2>1 DEF NoneOf
<1>7. CASE x # u /\ x \notin members[r]
  <2>1. Entered(u, r)[x] = <<>>
    BY <1>2, <1>7
  <2> QED
    BY <1>7, <2>1 DEF NoneOf
<1> QED
  BY <1>5, <1>6, <1>7

(* After a JOIN by u, whoever shares the room with somebody new is told.    *)
LEMMA EntryExpected ==
    ASSUME Typed, NEW u \in Users, NEW r \in Rooms, NEW v \in Users, NEW x \in Users,
           NEW q \in Seq(Lines), inbox'[v] = q \o Entered(u, r)[v],
           \/ v = u /\ x \in members[r] \ {u}
           \/ v # u /\ v \in members[r] /\ x = u
           \/ /\ events'[v] = events[v] /\ calls'[v] = calls[v] /\ Expected(v, x)
              /\ \/ q = inbox[v]
                 \/ \E m \in Lines : m \notin Departures(x) /\ q = Append(inbox[v], m)
    PROVE  Expected(v, x)'
<1> DEFINE e == Entered(u, r)[v]
           J == Arrivals(x)
           L == Departures(x)
<1>1. /\ e \in Seq(Lines) /\ NoneOf(e, L)
      /\ v = u /\ x \in members[r] \ {u} => \E i \in DOMAIN e : e[i] \in J
      /\ v # u /\ v \in members[r] /\ x = u => \E i \in DOMAIN e : e[i] \in J
  BY EnteredLines
<1>2. inbox[v] \in Seq(Lines)
  BY DEF Typed
<1> HIDE DEF e
<1>3. /\ NoneOf(q, L) => NoneOf(q \o e, L)
      /\ EndsIn(q, J, L) => EndsIn(q \o e, J, L)
      /\ (\E i \in DOMAIN e : e[i] \in J) => EndsIn(q \o e, J, L)
  BY <1>1, QueueConcat
<1>4. CASE \E i \in DOMAIN e : e[i] \in J
  BY <1>3, <1>4 DEF Expected, e
<1>5. CASE /\ events'[v] = events[v] /\ calls'[v] = calls[v] /\ Expected(v, x)
           /\ \/ q = inbox[v]
              \/ \E m \in Lines : m \notin L /\ q = Append(inbox[v], m)
  <2>1. /\ NoneOf(inbox[v], L) => NoneOf(q, L)
        /\ EndsIn(inbox[v], J, L) => EndsIn(q, J, L)
    BY <1>2, <1>5, QueueAppend
  <2> QED
    BY <1>3, <1>5, <2>1 DEF Expected, e
<1> QED
  BY <1>1, <1>4, <1>5

LEMMA JoinHomeReaches ==
    ASSUME EInv, NEW u \in Users, JoinHome(u)
    PROVE  Unheard' /\ Earshot'
<1> USE DEF EInv, IInv
<1>1. /\ phase[u] = "connected" /\ phase' = [phase EXCEPT ![u] = "on"]
      /\ members' = [members EXCEPT ![Home] = @ \cup {u}]
      /\ inbox' = [v \in Users |-> inbox[v] \o Entered(u, Home)[v]]
      /\ UNCHANGED <<room, events, roles, calls, heard>>
  BY DEF JoinHome
<1>2. room[u] = Home /\ Home \in Rooms
  BY <1>1, RolesAssumption DEF Present
<1>3. /\ \A v \in Users \ {u} : phase'[v] = phase[v]
      /\ phase'[u] = "on"
      /\ members'[Home] = members[Home] \cup {u}
      /\ \A r \in Rooms \ {Home} : members'[r] = members[r]
  BY <1>1, <1>2 DEF Typed
<1>4. ASSUME NEW v \in Users, NEW x \in Users, Concerns(v, x)'
      PROVE  Expected(v, x)'
  <2>1. inbox[v] \in Seq(Lines) /\ inbox'[v] = inbox[v] \o Entered(u, Home)[v]
    BY <1>1 DEF Typed
  <2>2. /\ v = u => x \in members[Home] \ {u}
        /\ x = u => v # u /\ v \in members[Home]
    BY <1>1, <1>2, <1>3, <1>4 DEF Concerns, Present
  <2>3. v # u /\ x # u => Expected(v, x)
    BY <1>1, <1>3, <1>4 DEF Concerns, Earshot
  <2> QED
    BY <1>1, <1>2, <2>1, <2>2, <2>3, EntryExpected
<1> QED
  BY <1>1, <1>4 DEF Earshot, Unheard

LEMMA SwitchChannelReaches ==
    ASSUME EInv, NEW u \in Users, NEW r \in Rooms, SwitchChannel(u, r)
    PROVE  Unheard' /\ Earshot'
<1> USE DEF EInv, IInv
<1> DEFINE m == [line |-> "LEFT", from |-> u]
           told == Tell(members[room[u]] \ {u}, m)
<1>1. /\ phase[u] = "on" /\ r # room[u]
      /\ members' = [members EXCEPT ![room[u]] = @ \ {u}, ![r] = @ \cup {u}]
      /\ inbox' = [v \in Users |-> told[v] \o Entered(u, r)[v]]
      /\ room' = [room EXCEPT ![u] = r]
      /\ calls' = [calls EXCEPT ![u] = {}] /\ roles' = [roles EXCEPT ![u] = NoPeers]
      /\ UNCHANGED <<phase, events, heard>>
  BY DEF SwitchChannel, Moved
<1>2. /\ room[u] \in Rooms /\ room'[u] = r
      /\ \A v \in Users \ {u} : room'[v] = room[v] /\ calls'[v] = calls[v]
      /\ roles'[u] = NoPeers /\ \A v \in Users \ {u} : roles'[v] = roles[v]
      /\ members'[r] = members[r] \cup {u} /\ members'[room[u]] = members[room[u]] \ {u}
      /\ \A s \in Rooms \ {r, room[u]} : members'[s] = members[s]
  BY <1>1 DEF Typed
<1>3. Unheard'
  <2>1. all_superpeers(roles'[u]) = {}
    BY <1>2, NoPeersTable DEF all_superpeers
  <2> QED
    BY <1>1, <1>2, <2>1, UnheardKept
<1>4. m \in Lines /\ \A x \in Users \ {u} : m \notin Departures(x)
  BY LineTypes DEF Departures
<1>5. \A v \in Users : told[v] = inbox[v] \/ told[v] = Append(inbox[v], m)
  BY DEF Tell
<1> HIDE DEF told, m
<1>6. ASSUME NEW v \in Users, NEW x \in Users, Concerns(v, x)'
      PROVE  Expected(v, x)'
  <2>1. told[v] \in Seq(Lines) /\ inbox'[v] = told[v] \o Entered(u, r)[v]
    <3>1. inbox[v] \in Seq(Lines)
      BY DEF Typed
    <3>2. Append(inbox[v], m) \in Seq(Lines)
      BY <1>4, <3>1, AppendProperties
    <3> QED
      BY <1>1, <1>5, <3>1, <3>2
  <2>2. /\ v = u => x \in members[r] \ {u}
        /\ x = u => v # u /\ v \in members[r]
    BY <1>1, <1>2, <1>6 DEF Concerns, Present
  <2>3. v # u /\ x # u => Expected(v, x) /\ m \notin Departures(x)
    BY <1>1, <1>2, <1>4, <1>6 DEF Concerns, Earshot
  <2>4. v # u => events'[v] = events[v] /\ calls'[v] = calls[v]
    BY <1>1, <1>2
  <2>5. v # u /\ x # u =>
          told[v] = inbox[v] \/ \E y \in Lines : y \notin Departures(x) /\ told[v] = Append(inbox[v], y)
    BY <1>4, <1>5
  <2>6. r \in Rooms /\ Typed
    OBVIOUS
  <2>7. CASE v = u \/ x = u
    BY <2>1, <2>2, <2>6, <2>7, EntryExpected
  <2>8. CASE v # u /\ x # u
    BY <2>1, <2>3, <2>4, <2>5, <2>6, <2>8, EntryExpected
  <2> QED
    BY <2>7, <2>8
<1> QED
  BY <1>3, <1>6 DEF Earshot

(* Whoever leaves tells the others at most that he has left. *)
LEMMA LeavesReaches ==
    ASSUME EInv, NEW u \in Users, Leaves(u), NEW m \in Lines,
           \A x \in Users \ {u} : m \notin Departures(x),
           \A v \in Users \ {u} : inbox'[v] = inbox[v] \/ inbox'[v] = Append(inbox[v], m)
    PROVE  Unheard' /\ Earshot'
<1> USE DEF EInv, IInv
<1>1. /\ phase'[u] = "gone" /\ roles'[u] = NoPeers /\ UNCHANGED <<room, heard>>
      /\ \A v \in Users \ {u} : /\ phase'[v] = phase[v] /\ events'[v] = events[v]
                                /\ calls'[v] = calls[v] /\ roles'[v] = roles[v]
  BY DEF Leaves, Typed
<1>2. Unheard'
  <2>1. all_superpeers(roles'[u]) = {}
    BY <1>1, NoPeersTable DEF all_superpeers
  <2> QED
    BY <1>1, <2>1, UnheardKept
<1>3. ASSUME NEW v \in Users, NEW x \in Users, Concerns(v, x)'
      PROVE  Expected(v, x)'
  <2>1. v # u /\ x # u /\ Concerns(v, x)
    BY <1>1, <1>3 DEF Concerns
  <2>2. Expected(v, x)
    BY <2>1 DEF Earshot
  <2> QED
    BY <1>1, <2>1, <2>2, LineArrives, ExpectedKept
<1> QED
  BY <1>2, <1>3 DEF Earshot

LEMMA QuitReaches ==
    ASSUME EInv, NEW u \in Users, Quit(u)
    PROVE  Unheard' /\ Earshot'
<1> DEFINE m == [line |-> "LEFT", from |-> u]
<1>1. m \in Lines /\ \A x \in Users \ {u} : m \notin Departures(x)
  BY LineTypes DEF Departures
<1>2. \A v \in Users \ {u} : inbox'[v] = inbox[v] \/ inbox'[v] = Append(inbox[v], m)
  BY DEF Quit, Tell
<1>3. Leaves(u)
  BY DEF Quit
<1> HIDE DEF m
<1> QED
  BY <1>1, <1>2, <1>3, LeavesReaches

LEMMA VanishReaches ==
    ASSUME EInv, NEW u \in Users, Vanish(u)
    PROVE  Unheard' /\ Earshot'
<1> DEFINE m == [line |-> "LEFT", from |-> u]
<1>1. m \in Lines /\ \A x \in Users \ {u} : m \notin Departures(x)
  BY LineTypes DEF Departures
<1>2. \A v \in Users \ {u} : inbox'[v] = inbox[v]
  BY DEF Vanish, EInv, IInv, Typed
<1>3. Leaves(u)
  BY DEF Vanish
<1> HIDE DEF m
<1> QED
  BY <1>1, <1>2, <1>3, LeavesReaches

-----------------------------------------------------------------------------
LEMMA InitEInv == Init => EInv
<1> SUFFICES ASSUME Init PROVE EInv
  OBVIOUS
<1>1. Earshot
  BY DEF Init, Earshot, Concerns
<1>2. Unheard
  BY NoPeersTable DEF Init, Unheard, all_superpeers
<1> QED
  BY <1>1, <1>2, InitIInv DEF EInv

LEMMA NextEInv == EInv /\ [Next]_vars => EInv'
<1> SUFFICES ASSUME EInv, [Next]_vars PROVE EInv'
  OBVIOUS
<1>1. IInv'
  BY NextIInv DEF EInv
<1>2. CASE UNCHANGED vars
  <2>1. Unheard'
    BY <1>2 DEF vars, EInv, Unheard
  <2>2. Earshot'
    BY <1>2, ExpectedKept DEF vars, EInv, Earshot, Concerns
  <2> QED
    BY <1>1, <2>1, <2>2 DEF EInv
<1>3. ASSUME NEW u \in Users, ReaderStep(u)
      PROVE  EInv'
  BY <1>1, <1>3, ReadJoinReaches, ReadNamesReaches, ReadLeftReaches, ReadPubkeyReaches,
     ReadRoleReaches, ReadModReaches DEF ReaderStep, EInv
<1>4. ASSUME NEW u \in Users, LoopStep(u)
      PROVE  EInv'
  <2>1. Unheard' /\ Earshot'
    BY <1>4, HandleJoinedReaches, HandleLeftReaches, HandleModReaches, AnnounceReaches
       DEF LoopStep
  <2> QED
    BY <1>1, <2>1 DEF EInv
<1>5. ASSUME NEW u \in Users, UserStep(u)
      PROVE  EInv'
  <2>1. CASE Connect(u) \/ JoinHome(u) \/ Quit(u) \/ Vanish(u)
    BY <1>1, <2>1, ConnectReaches, JoinHomeReaches, QuitReaches, VanishReaches DEF EInv
  <2>2. CASE \E r \in Rooms : SwitchChannel(u, r)
    BY <1>1, <2>2, SwitchChannelReaches DEF EInv
  <2>3. CASE \E a \in Actions, n \in Users : Order(u, a, n)
    BY <1>1, <2>3, OrderReaches DEF EInv
  <2> QED
    BY <1>5, <2>1, <2>2, <2>3 DEF UserStep, Actions
<1> QED
  BY <1>2, <1>3, <1>4, <1>5 DEF Next

(* When everything on its way has arrived, of two people in one room the    *)
(* one with the smaller nick has called the other, unless a superpeer he    *)
(* has heard of let him off: for any number of users and rooms.            *)
THEOREM NobodyOutOfEarshot == Spec => []AllInEarshot
<1>1. EInv => AllInEarshot
  <2> SUFFICES ASSUME EInv, Settled, NEW u \in Users, NEW v \in Users,
                      Together(u, v), Nickname[u] < Nickname[v], u = HostUser \/ u \notin heard
               PROVE  v \in calls[u]
    BY DEF AllInEarshot
  <2>1. Concerns(u, v)
    BY DEF Together, Online, Concerns
  <2>2. Expected(u, v)
    BY <2>1 DEF EInv, Earshot
  <2>3. inbox[u] = <<>> /\ events[u] = <<>>
    BY DEF Settled, Together, Online
  <2> QED
    BY <2>2, <2>3 DEF Expected, EndsIn
<1>2. Spec => []EInv
  BY InitEInv, NextEInv, PTL DEF Spec
<1> QED
  BY <1>1, <1>2, PTL
=============================================================================
