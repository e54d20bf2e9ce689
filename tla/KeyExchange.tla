---------------------------- MODULE KeyExchange ------------------------------
(***************************************************************************)
(* How voirc clients learn each other's keys through the embedded server:  *)
(* IrcServer composed with the connection set-up and the reader task of    *)
(* src/src/irc_client.rs and the channel switch of src/src/gui.rs.  A      *)
(* client drops the calls (WRTC), roles, moderation and sync messages of a *)
(* peer whose key it does not know, so this exchange decides whether two   *)
(* people can talk.                                                        *)
(***************************************************************************)
EXTENDS IrcServer

CONSTANTS
    NickOf,        \* the nick of the user at each address
    Home,          \* the channel a client joins when it connects
    MaxSessions    \* bound: how often a user starts the program

ASSUME ClientAssumption ==
    /\ NickOf \in [Addrs -> Nicks]
    /\ \A a, b \in Addrs : NickOf[a] = NickOf[b] => a = b
    /\ Home \in Channels

VARIABLES
    phase,      \* "off", or the timer of connect() that fires next, or "on"
    room,       \* current_channel
    wire,       \* commands on their way to the server
    inbox,      \* lines on their way to the client
    known,      \* AppState.known_pubkeys: nick -> key
    left,       \* UserLeft events the event loop has not handled: nicks
    sessions,   \* how often each user has started the program
    switched,   \* whether the user has changed channels in this session
    wiped       \* history: nicks whose key was lost to such an event

user == <<sessions, switched>>
client == <<phase, room, wire, inbox, known, left, user, wiped>>
allVars == <<vars, client>>

NothingKnown == [n \in Nicks |-> NoKey]

Cmd(c) == [cmd |-> c]
InChannel(c, ch) == [cmd |-> c, channel |-> ch]

(* Lines the reader's key handling reacts to; it ignores the others. *)
Heeded(line) == line.cmd \in {"JOIN", "PART", "QUIT", "PUBKEY"}

(* Those of the lines, in their order: SelectSeq, written as a recursive   *)
(* function, which can be reasoned about.                                  *)
HeededOf(lines) ==
    LET f[i \in 0..Len(lines)] ==
            IF i = 0 THEN <<>>
            ELSE IF Heeded(lines[i]) THEN Append(f[i - 1], lines[i]) ELSE f[i - 1]
    IN  f[Len(lines)]

(* What the server just sent goes to the clients that are still there. *)
Deliver ==
    inbox' = [b \in Addrs |-> IF phase[b] = "off" THEN <<>>
                              ELSE inbox[b] \o HeededOf(out'[b])]

InitExchange ==
    /\ Init
    /\ phase = [a \in Addrs |-> "off"]
    /\ room = [a \in Addrs |-> Home]
    /\ wire = [a \in Addrs |-> <<>>]
    /\ inbox = [a \in Addrs |-> <<>>]
    /\ known = [a \in Addrs |-> NothingKnown]
    /\ left = [a \in Addrs |-> <<>>]
    /\ wiped = [a \in Addrs |-> {}]
    /\ sessions = [a \in Addrs |-> 0]
    /\ switched = [a \in Addrs |-> FALSE]

-----------------------------------------------------------------------------
(* The server, fed from the wires. *)

ServerAccepts(a) ==
    /\ Accept(a)
    /\ phase[a] = "off"
    /\ sessions[a] < MaxSessions
    /\ phase' = [phase EXCEPT ![a] = "hello"]
    /\ room' = [room EXCEPT ![a] = Home]
    /\ wire' = [wire EXCEPT ![a] = <<Cmd("NICK"), Cmd("USER")>>]
    /\ known' = [known EXCEPT ![a] = NothingKnown]
    /\ sessions' = [sessions EXCEPT ![a] = @ + 1]
    /\ switched' = [switched EXCEPT ![a] = FALSE]
    /\ wiped' = [wiped EXCEPT ![a] = {}]
    /\ UNCHANGED <<inbox, left>>

ServerRegisters(a) == Register(a) /\ UNCHANGED client

ServerReads(a) ==
    /\ wire[a] # <<>>
    /\ LET c == Head(wire[a])
       IN  \/ c.cmd = "NICK" /\ Nick(a, NickOf[a])
           \/ c.cmd = "USER" /\ User(a)
           \/ c.cmd = "HELLO" /\ HelloCheckNick(a, NickOf[a])
           \/ c.cmd = "JOIN" /\ JoinRead(a, c.channel)
           \/ c.cmd = "PART" /\ Part(a, c.channel)
    /\ wire' = [wire EXCEPT ![a] = Tail(@)]
    /\ Deliver
    /\ UNCHANGED <<phase, room, known, left, user, wiped>>

ServerContinues(a) ==
    /\ Continue(a)
    /\ Deliver
    /\ UNCHANGED <<phase, room, wire, known, left, user, wiped>>

(* End of file, once what the client sent before it left has been read. *)
ServerCleansUp(a) ==
    /\ phase[a] = "off" /\ wire[a] = <<>>
    /\ Disconnect(a)
    /\ Deliver
    /\ UNCHANGED <<phase, room, wire, known, left, user, wiped>>

(* The other end of a connection: read_line fails, since the program ended  *)
(* without a close_notify of TLS, say, and nobody hears of it.  The user    *)
(* does not come back at such an address: the server keeps his nick.       *)
ServerReadFails(a) ==
    /\ phase[a] = "off" /\ wire[a] = <<>>
    /\ ReadError(a)
    /\ UNCHANGED client

-----------------------------------------------------------------------------
(* The client: the timers of connect(), the user, and the reader task. *)

Sends(a, commands) == wire' = [wire EXCEPT ![a] = @ \o commands]

(* 200 ms after the connection. *)
HelloTimer(a) ==
    /\ phase[a] = "hello"
    /\ phase' = [phase EXCEPT ![a] = "join"]
    /\ Sends(a, <<Cmd("HELLO")>>)
    /\ UNCHANGED <<vars, room, inbox, known, left, user, wiped>>

(* 500 ms after the connection. *)
JoinTimer(a) ==
    /\ phase[a] = "join"
    /\ phase' = [phase EXCEPT ![a] = "on"]
    /\ Sends(a, <<InChannel("JOIN", Home)>>)
    /\ UNCHANGED <<vars, room, inbox, known, left, user, wiped>>

(* CallCommand::SwitchChannel; once per session is the bound. *)
SwitchChannel(a, ch) ==
    /\ phase[a] = "on" /\ ~switched[a] /\ ch # room[a]
    /\ known' = [known EXCEPT ![a] = NothingKnown]
    /\ Sends(a, <<InChannel("PART", room[a]), InChannel("JOIN", ch)>>)
    /\ room' = [room EXCEPT ![a] = ch]
    /\ switched' = [switched EXCEPT ![a] = TRUE]
    /\ UNCHANGED <<vars, phase, inbox, left, sessions, wiped>>

(* The program ends, or its connection breaks and it hears no more; some of *)
(* what it was sending still leaves.                                       *)
Leave(a) ==
    /\ phase[a] # "off"
    /\ task[a].at # "handshake"
    /\ phase' = [phase EXCEPT ![a] = "off"]
    /\ \E k \in 0..Len(wire[a]) : wire' = [wire EXCEPT ![a] = SubSeq(@, 1, k)]
    /\ inbox' = [inbox EXCEPT ![a] = <<>>]
    /\ known' = [known EXCEPT ![a] = NothingKnown]
    /\ left' = [left EXCEPT ![a] = <<>>]
    /\ UNCHANGED <<vars, room, user, wiped>>

(* Mutation: a peer that leaves is not forgotten. *)
ForgetNobody(keys, n) == IF n \in Nicks THEN keys ELSE NothingKnown

(* remove_peer, for the keys. *)
Forget(keys, n) == [keys EXCEPT ![n] = NoKey]

(* Mutation: nick and key are swapped. *)
LearnSwapped(keys, line) == [keys EXCEPT ![line.nick] = line.nick]

(* register_peer_pubkey: a key already known is not replaced. *)
Learn(keys, line) ==
    IF keys[line.nick] = NoKey THEN [keys EXCEPT ![line.nick] = line.key] ELSE keys

(* Mutation: a newcomer is not greeted. *)
GreetNobody(a, line) == line.cmd = "JOIN" /\ wire' = wire /\ a \in Addrs

(* On the JOIN of another nick the client announces its own key again. *)
Greet(a, line) ==
    IF line.nick = NickOf[a] THEN UNCHANGED wire ELSE Sends(a, <<Cmd("HELLO")>>)

ClientReads(a) ==
    /\ phase[a] # "off" /\ inbox[a] # <<>>
    /\ LET line == Head(inbox[a])
       IN  \/ line.cmd = "JOIN" /\ Greet(a, line) /\ UNCHANGED <<known, left>>
           \/ /\ line.cmd \in {"PART", "QUIT"}
              /\ known' = [known EXCEPT ![a] = Forget(@, line.nick)]
              /\ left' = [left EXCEPT ![a] = Append(@, line.nick)]
              /\ UNCHANGED wire
           \/ /\ line.cmd = "PUBKEY"
              /\ known' = [known EXCEPT ![a] = Learn(@, line)]
              /\ UNCHANGED <<wire, left>>
    /\ inbox' = [inbox EXCEPT ![a] = Tail(@)]
    /\ UNCHANGED <<vars, phase, room, user, wiped>>

(* The event loop handles IrcEvent::UserLeft: remove_peer a second time,    *)
(* however long after the reader did, and with a key learned since.        *)
LoopForgets(a) ==
    /\ left[a] # <<>>
    /\ LET n == Head(left[a])
       IN  /\ known' = [known EXCEPT ![a] = Forget(@, n)]
           /\ wiped' = [wiped EXCEPT ![a] = IF known[a][n] = NoKey THEN @ ELSE @ \cup {n}]
    /\ left' = [left EXCEPT ![a] = Tail(@)]
    /\ UNCHANGED <<vars, phase, room, wire, inbox, user>>

-----------------------------------------------------------------------------
ServerStep(a) ==
    \/ ServerRegisters(a) \/ ServerReads(a) \/ ServerContinues(a)
    \/ ServerCleansUp(a) \/ ServerReadFails(a)

ClientStep(a) == HelloTimer(a) \/ JoinTimer(a) \/ ClientReads(a) \/ LoopForgets(a)

UserStep(a) ==
    ServerAccepts(a) \/ Leave(a) \/ \E ch \in Channels : SwitchChannel(a, ch)

NextExchange == \E a \in Addrs : ServerStep(a) \/ ClientStep(a) \/ UserStep(a)

(* The sockets, the timers and the tasks make progress; the user need not. *)
ExchangeFairness == \A a \in Addrs : WF_allVars(ServerStep(a)) /\ WF_allVars(ClientStep(a))

SpecExchange == InitExchange /\ [][NextExchange]_allVars /\ ExchangeFairness

-----------------------------------------------------------------------------
(* The clients' variables have their types. *)
ExchangeTypeOK ==
    /\ phase \in [Addrs -> {"off", "hello", "join", "on"}]
    /\ room \in [Addrs -> Channels]
    /\ known \in [Addrs -> [Nicks -> Keys \cup {NoKey}]]
    /\ \A a \in Addrs : \A i \in DOMAIN inbox[a] : inbox[a][i] \in Messages
    /\ left \in [Addrs -> Seq(Nicks)] /\ wiped \in [Addrs -> SUBSET Nicks]

(* Nothing is on its way and every handler is through. *)
Settled ==
    \A a \in Addrs :
        /\ wire[a] = <<>> /\ inbox[a] = <<>> /\ left[a] = <<>>
        /\ \/ phase[a] = "on" /\ task[a].at = "reading"
           \/ phase[a] = "off" /\ task[a].at \in {"none", "dead"}

InRoom(a, b) == a # b /\ \E c \in Channels : {a, b} \subseteq channels[c]

Knows(a, b) == known[a][NickOf[b]] = pubkey[b]

LateWipe(a, b) == NickOf[b] \in wiped[a] \/ NickOf[a] \in wiped[b]

(* When things have settled, of two people in a channel at least one knows  *)
(* the other's key: the member who was there first announces it again to    *)
(* the newcomer, whatever the order in which joins, switches and departures *)
(* cross on the wires.  The one exception is a pair of which an event loop, *)
(* still busy with an earlier departure, wiped a key learned since.         *)
OneKnowsTheOther ==
    Settled => \A a, b \in Addrs :
        InRoom(a, b) /\ phase[a] = "on" /\ phase[b] = "on" =>
            Knows(a, b) \/ Knows(b, a) \/ LateWipe(a, b)

(* b has left, and the server has not noticed: a read error ended its task. *)
Ghost(b) == phase[b] = "off" /\ task[b].at = "dead"

(* a is right to know the key of b. *)
KnowsRightly(a, b) == InRoom(a, b) /\ Knows(a, b) /\ (phase[b] = "on" \/ Ghost(b))

(* When things have settled, a client that has stayed in its first channel  *)
(* knows the keys of people who are there, and of nobody who has left,      *)
(* whichever way his last lines crossed, except where the server itself has *)
(* lost track: no QUIT ever comes for a connection that ended with a read   *)
(* error, and it stays a member for good.                                  *)
NoKeyOutlivesItsPeer ==
    Settled =>
        \A a \in Addrs : ~switched[a] =>
            \A n \in Nicks : known[a][n] # NoKey =>
                \E b \in Addrs : NickOf[b] = n /\ KnowsRightly(a, b)
=============================================================================
