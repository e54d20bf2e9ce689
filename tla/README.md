# A TLA+ model of voirc

voirc is a voice chat that needs no service: one user hosts an IRC server inside
the program, the others connect to it over TLS, and the IRC connection carries
chat, the announcement of identity keys, and the signalling of WebRTC calls. This
directory models the parts of it that run concurrently and can go wrong in ways a
unit test would hardly reach, checks them with TLC on small instances, and proves
with TLAPS, for every instance, all the safety properties that the runs check but for
the arithmetic of leading zero bits, and the two refinements.

Source files are named without their directory: `irc_server.rs:182` is line 182 of
`src/irc_server.rs` in the repository.

## 1. The system

| Component | State it keeps | Operations | Talks to | What makes it correct |
|---|---|---|---|---|
| Embedded IRC server, `irc_server.rs` | `ServerState`: clients (nick, key, authenticated), channels, `nick_pubkeys`, required difficulty | accept, register, CAP, NICK, USER, PRIVMSG, JOIN, KICK, PART, PING, VOIRC_HELLO, VOIRC_POW_SET, cleanup | its clients, over TLS lines; one task per connection | no strays in its tables, stable bindings, caps |
| Lock of the server, `tokio::sync::RwLock` | guards, a fair queue of requests | read, write, drop | every handler | guards given back, nobody waits for ever |
| IRC client, `irc_client.rs`, `state.rs` | `known_pubkeys`, roles, `peer_states`, fragments of signals | connect and its timers, reader task, `handle_message`, `handle_privmsg`, `handle_fragment` | server; event loop, through `IrcEvent`s | keys of those present, signals whole and once |
| Message log, `persistence.rs` | log in memory per channel, a `.jsonl` file per channel | `append`, `load_channel`, `messages_since`, sync request and response | event loop and reader append to the same log | sorted, once, verified, readable after a crash |
| Event loop, `gui.rs` | `peers`, reconnection counters, current channel, bans, roles | user commands, `IrcEvent`s, reconnection, failed connections, files | client, WebRTC peers, UI | one live call per pair, none to the departed |
| WebRTC peer, `webrtc_peer.rs` | one `RTCPeerConnection` per peer, a file in flight | offer, answer, candidates, state callbacks, files over a data channel | event loop, through queues | files whole, once, in order |
| Topology, roles, moderation: `topology.rs`, `config.rs`, `moderation.rs`, `state.rs` | `our_role`, the role of each listed peer | announcements, /mod, /unmod, /kick, /ban, whom to call | reader, event loop | roles come from the host, everybody is called |
| Sessions and proof of work: `VoircApp` in `gui.rs`, `pow.rs` | screen, name, queued connection, mining flag, tasks per connection | host, join, recent servers, settings, mine, disconnect, restart | client, event loop, server | nicks strong enough, every loop can be ended |
| Audio: `relay.rs`, mic, mix and forward tasks in `gui.rs`, `voice_mixer.rs` | TCP clients, channels between tasks, the table of peers | encode, send, relay, decode, forward | WebRTC peers, event loop | every voice arrives, no loops of packets |
| Magic links, TLS, settings, UPnP, chat window, widgets | settings, text | parsing, files, drawing | all | not modelled (section 8) |

What is hard in it:

- *Interleavings.* Every command of the server takes the lock once or several
  times; what it read in one section may be old in the next. The client has a
  reader task, an event loop, timers and WebRTC callbacks on the same maps; the
  audio tasks hold the table of peers while they write to sockets.
- *Order of messages.* Keys, roles, joins, departures, offers, answers and candidates
  cross on the wires; a signal, an announcement or an order of a peer whose key is
  not known is thrown away.
- *Departures and failures.* Sockets end, or fail by a path that skips the
  cleanup; writes fail; a program ends in the middle of a line of its file;
  connections break and are dialled again; a file breaks off halfway.
- *Work that outlives its screen.* A miner, an event loop, a reader go on after
  the user has left the screen they were started from.
- *Limits.* Lines of 512 bytes, caps on clients, fragments of 400 bytes, a
  counter of one byte for up to 256 bits.

`PROJECT.json` lists these hazards one by one at their lines ("hazards") with the
properties that would notice, and every part of the system with what is modelled
of it ("components").

## 2. The modules

    IrcServer  <--EXTENDS--  KeyExchange      (server + two or more clients)
                                 ^
                                 +------EXTENDS--  ServerProofs  (theorems about all three)
                                 v
    ServerLock      the lock that makes an action of IrcServer one step
    Signals      --implements--> SignalChannel   (fragments of a signal)
        ^
        +------EXTENDS--  SignalsProofs       (theorems)
    FileTransfer --implements--> FileDelivery    (files over data channels)
        ^
        +------EXTENDS--  FileTransferProofs  (theorems)
    Pow  <--EXTENDS--  Sessions   one user's program: screens, miner, connections
    MessageLog      log, file, sync of several clients; server = line limit
    Calls           one pair of clients; server = relay
    Roles           host, mods and peers of several rooms; who calls whom
    Audio           the way of a voice packet: tasks, tracks, relay
    SessionsProofs, MessageLogProofs, CallsProofs, RolesProofs, AudioProofs: theorems, each EXTENDS its own

The modules meet where one takes for granted what another shows: the order of keys and
calls in `Calls` is one of those `KeyExchange` has; `Audio` lets everyone call everyone,
because `Roles` shows that nobody learns a superpeer's role in time; `Sessions` reduces
the server to the guards of NICK and HELLO that `IrcServer` has in full; the calls that
break and come back under `FileTransfer` are those of `Calls`.

`MC*.tla` instantiate them for TLC. `PROJECT.json` maps every definition to its lines.
Definitions whose comment begins with "Mutation" are plausible mistakes: each
property of a passing run is violated when the definition they vary is replaced
by them, and they are used for nothing else.

### IrcServer

One action per critical section of a connection's task. A handler that takes the
lock several times (JOIN, HELLO, POW_SET) is several actions, its locals in `task[a]`
(`[at |-> "helloBind", nick |-> n, key |-> k]`). `clients`, `nick`, `pubkey`,
`authenticated`, `channels`, `nickPubkeys`, `powRequired` are the fields of
`ServerState` and its `Client` entries; `out` is what the last section put on the
clients' channels. A connection moves none -> handshake -> reading -> none, or, by
an error of `read_line` (`?` before the cleanup, line 165), to "dead" with its
entry left behind. The same path is in the modules that speak of departures: `ServerReadFails`
of `KeyExchange`, the end a server never comes to in `Sessions`, `Vanish` of `Roles`. It is the usual
one when a program ends without a TLS close_notify.

Abstractions: a nick's proof of work is a constant function `PowBits`; signatures
are valid or not (`HelloInvalid`); a channel is in the model before its first
member, as an absent and an empty channel behave alike; lines too long
are skipped without effect and have no action. If several clients have one nick,
`find_addr_by_nick` may return any of them (hash map order).

### ServerLock

What each handler does with the lock, as a sequence of "read", "write", "drop";
nesting is `Guarded("read", SendNotice)`. `Request` is granted at once or queued,
`Grant` serves the head of the queue: tokio's documented policy, under which a
reader that comes after a waiting writer waits behind it. The module is why
IrcServer may take a section for one step: a writer is alone, by the definition of the lock, which is
tokio's (`Compatible`), and handlers use it as it is meant to be used (`GuardsReturned`). It shows where a section
may never come (`NestedBehindWriter`). IrcServer does not know about hanging: its
`handle_hello` sends its notice and goes on.

### KeyExchange

IrcServer fed from sockets (`wire`) and writing to inboxes, with the clients' set-up:
NICK and USER at once, HELLO after 200 ms, JOIN after 500 ms, the reader's
reactions to JOIN, PART, QUIT and VOIRC_PUBKEY, a channel switch, and the end of
the program with some prefix of what it was sending still leaving. The server comes to the end of
a connection and cleans up (`ServerCleansUp`), or fails to read it and never does (`ServerReadFails`): then no QUIT
is sent, the member stays listed, and its nick stays bound. Timers fire in
their order and otherwise at any time. A departure removes a key twice, in the reader
and, however much later, in the event loop (`LoopForgets`); `wiped` remembers the keys
the second removal took by mistake. Users have different nicks.

### Signals and SignalChannel

`SignalChannel` is what the call set-up relies on: a signal handed over comes out at
most once, whole, under its sender's name, and what is lost stays lost. `Signals` is
the code: `send_webrtc_signal` puts one fragment after the other on the wire,
while the sender's other task does the same; the reader of the receiver keeps a
buffer per sender and id in `fragments`, sweeps those that are 60 s old before
every message (`TimePasses` lets 60 s go by), and drops a fragment whose sender's key
is not known at that moment. An event is its pieces in order, each with the
knowledge whether the server's `line.trim()` cut it. Server and network are a
queue per sender. Ids are random: two senders may draw the same, one sender does
not draw one twice. The refinement maps `pending` to the signals begun that
have neither arrived nor lost a fragment. A signal that comes out is whole but for the
blanks in which a fragment ended (`WholeSignal`, `Relayed`).

### MessageLog

Two workers per client, the event loop and the reader, append to one log and one
file. `append` is three steps, as in the code: the text, the line end (`writeln!`
makes two writes to an unbuffered file), the insertion under the write lock. The
relay drops lines over 512 bytes; the length of a line is computed from the
length of the content for a channel and nicks of fixed length. `Stop` ends a program anywhere, `WriteFails` lets
a write fail. `Known` fixes whose keys a client has (KeyExchange says which can be). A message verifies under its
author's own key, under another one that it names, or not at all; who knows the author's key takes only the
first (`Fits`), in chat and in a sync answer, and who does not takes the second as well.
The chain hash is left out: every caller verifies with `None`.

### Calls

One pair: readers, event loops, timers, the map of peers, the list of peers and
the WebRTC connections, whose callbacks go on after they left the map. A line
waits in `wire` on its way to the server; relay and the reader of the other client are
one step, as if the delay behind the server came before it (the order per sender is
the same; the order of two senders at one reader is free either way). A line that is read
becomes an `IrcEvent` in a queue, which the event loop handles one at a time;
`WebRtcPeer::new` with its description and the insertion are two steps
(`HandleJoined`, `Places`), with callbacks and the reader in between; `backoff` is the sleep
inside the Reconnect arm. ICE is reduced to: two connections that have each
other's descriptions, and at least one candidate, may come up. `Announce` stands for
a third person's JOIN and may happen at any time. Nobody is a known superpeer,
in which case `should_connect_to` is always true. `remove_peer` is one step.

### Pow and Sessions

`Pow` has the counting of leading zero bits with its one-byte counter
(`leading_zero_bits` wraps at `2^CountBits`), the check and the search of a nick; the hash is a
constant function, which the instance fixes on two bytes of two bits and a counter of two. `Meets` is
the reference: the hash, read as one number, is small enough.

`Sessions` is one user's program over time. The screens collapse to "in the menu" and "in a
call" (`call`), since each screen of the menu is one click from each other; what a screen lets the
user do is an action. A *session* is one call of `connect_to_server` that started its
tasks: `loop` is the task with the event loop, `at` how far its lines have come at the
server, `named`, `authed`, `member` what the server keeps of it. `ConnectionLost` is the client's side only:
`ServerCleansUp` may follow at any time or never, as the server may fail to read the end. When the program
ends (`Restart`) its own server goes with it; what the other server still has of the connections becomes `leftover`,
each cleaned up at any time or never (`LeftoverCleanedUp`), and a later connection
that says HELLO under the same nick meets their binding. `JoinRoomMining` queues the
connection and starts a miner, `MineEnds` leaves its result, and `Poll`, the first thing of every
frame on whatever screen, takes it. `Disconnect` only tells the event loop; the reader
and the connection go on. `Restart` keeps what `config.save` wrote. Recent servers
may hold any link. Other users have other nicks and keys; the user's own key loads.
`replaced` is history: sessions whose screen a late result of the miner took away.

### Roles

`peer_states` is a function `roles[u]` on the nicks the client lists, `ourRole` is
`state.our_role`; the role the event loop tests is the one it started with (`LoopRole`): a
promotion never reaches it. The server is one step per command; its answers wait in
`inbox`, a line becomes an event in `events`, and the loop takes one at a time.
A departure is noticed by the server (`Quit`) or not (`Vanish`): then the user stays listed, newcomers find him among the
names and call him, and what is sent to him is read by nobody.
A channel switch is two steps (`SwitchChannel`, `Announce`), because the loop loads the history
in between while the reader goes on. `calls[u]` are the peers u made an offer to; whether the
call comes up is the business of `Calls`. `promoted` and `heard` are history. The ban list
of the settings file is taken as empty.

### FileTransfer and FileDelivery

`FileDelivery` is the promise: a friend is given some of the files a user offered,
each whole, at most once, in the order of the offers. `FileTransfer` is the code: the event loop
sends a header, the chunks and the end to one peer after the other (`sending`), and does
nothing else meanwhile; the callback of the receiving end keeps one file per
channel (`inFlight`); whole files wait in `arrived` for the event loop, which writes them under
the name they were sent with. Chunks are numbered instead of filled with bytes. A channel is
external: reliable and ordered while it lives, `Break` loses what is in it, and a new call
has a fresh buffer. A send fails without a channel or by an error (`SendFails`);
a write fails before or after it opened the file (`SaveFails`).
Bound in `Share`: a user shares a file once, so that `OfferOf` knows which offer a content is.

### Audio

A packet is its speaker and a number. `mic`, `mix`, `fwd` are the channels between the tasks; the
mic task sends on the tracks and then, still under its read guard of the table of peers,
to the relay (`relaying`); the event loop waits with its write guard meanwhile
(`changing`). The track may lose a packet. The relay forwards to every other client under the nick of
its handshake; `Mix` decodes and, at a superpeer, hands on to `Forward`, which leaves out the nick
the packet came with. Decoding is taken to succeed, and the socket to hold
nothing: a write lasts until the relay has read it, which is the worst case for the guard.

## 3. The runs

| Run | Instance | Distinct states | Shows |
|---|---|---|---|
| `server` | 3 connections from 2 hosts, 2 users, 2 nicks, 1 channel, caps of 1, 2 handshakes at once | 209,282 | `TypeOK`, `LocalsCurrent`, `MembersRegistered`, `CapOvershoot`, `BindingStable` |
| `lock` | 2 connections, accept loop | 2,264 | `GuardsReturned`, `StuckOnlyWhenNested`, `EndsUnlessNested` |
| `keys` | 2 users, 2 channels, 2 sessions each, one switch per session | 400,137 | `ExchangeTypeOK`, `OneKnowsTheOther`, `NoKeyOutlivesItsPeer` |
| `log` | 2 clients, one of which knows no key, 2 messages, 2 starts, 2 times | 501,849 | `TypeOK`, `SortedOnce`, `WrittenFirst`, `OnlyVerified`, `LoadableUnlessTorn` |
| `log_sync` | the same without disk errors, 1 message | counterexample | sync answers go to oneself (finding 1) |
| `calls` | 4 connections, 1 mishap | 499,642 | `TypeOK`, `OneConnectionEach`, `NoCallWithTheDeparted`, `CallComesUp` |
| `signals` | 2 senders, 3 signals of 3, 2 and 2 fragments, 2 of them with one id, one fragment that ends in a blank, 1 key forgotten | 60,478 | `TypeOK`, `NothingVanishes`, `ImplementsChannel`, `SignalsArrive` |
| `sessions` | 2 sessions per run of the program, clients left behind by earlier runs included, 1 name with 2 suffixes, a room of his own and one of another, links of 2 and 3 bits | 261,265 | `TypeOK`, `StrongEnough`, `LoopsInHand`, `BindingsAlive`, `QueueServed`, `ToldLoopsEnd` |
| `sessions_back` | the same | counterexample | after Disconnect the user's own nick is refused to him (finding 2) |
| `roles` | host and a friend, 2 channels, 2 switches, 1 order, 1 departure, noticed or not | 328,186 | `TypeOK`, `RolesFromHost`, `AllInEarshot` |
| `files` | 3 users, one of them called by both others; 2 files of one name, one of them empty; 2 shares, 1 break, 1 failed send, 1 failed save | 437,607 | `NewestOnDisk`, `DeliversWhole`, `CountedArrives` |
| `audio` | a host and two friends, 1 packet, 1 change of a call, 1 lost relay connection | 99,472 | `FewCopies`, `RelayCovers`, `LoopGetsPeers` |

Why the bounds are enough for the interesting cases.

- `server`: caps of one and two handshakes in flight are the least that overshoot; a1
  and a3 belong to one user, so that sessions of one key meet, and a2 to another, so
  that keys compete; difficulty 8 lies above the bits of one nick and not of the other.
- `lock`: two connections and the accept loop give a nested reader, a writer between
  its two requests, and someone queued behind both.
- `keys`: a user leaves and comes back while the lines of its first session are still read. Two
  users are one pair; what a third one's lines do to a pair is left to the theorems, which hold
  for any number of users and sessions.
- `log`: one worker can be anywhere in its append while the other one writes; alice
  knows even her own key, as the second session of a user does, so that the answer
  to a sync request reaches a log at all, and bob knows none, so that he takes messages she would refuse.
- `calls`: a mishap is a departure to another channel, an error of `WebRtcPeer::new`, or a
  connection that breaks; four connections are two calls, which is what one mishap
  leads to.
- `sessions`: two sessions are what it takes for one that replaces, refuses or outlives
  another, also across a restart, when the other is one the server still has; a link of 2 bits can be mined, one of 3 bits cannot; the user may type a
  name that looks like a mined one.
- `roles`: two switches let one of the two go away and come back, or both meet
  elsewhere, with the lines of the first room still unread.
- `files`: two senders of one name and one receiver; the empty file has a header and an end
  only; a break or a failed send can fall between any two messages of a file.
- `audio`: one packet is enough to be multiplied; a change of a call while the mic
  task writes needs one of each. `FewCopies` is proved for any number of them.

Bounds in guards: `Accept` (handshakes), `Leave`/`ServerAccepts`/`connect_to_server` (sessions; in `Sessions` with the clients left behind), `Say`,
`SendForeign` (messages), `Start`, `Creates` (connections), `Mishap`, `Forget` (keys
forgotten), `SwitchChannel`, `Order`, `Leaves` of Roles, `Share`, `Break`, `SendFails`, `SaveFails`, `Speak`,
`WantChange`, `RelayLost`.

What the bounds leave out. With one mishap, `calls` has either a departure or a broken
connection in a behaviour, not one after the other. The exception for orphaned connections in
`NoCallWithTheDeparted` is there because a connection that the Reconnect arm removed
without closing it can come up again after its peer has left: a break, a
redial and a departure, whose state space TLC does not finish in reasonable time.
`DepartedForgotten` (section 5) holds for any number of each. `roles` with three users is
beyond an exhaustive run as well; it was random simulation of three users that showed why
`AllInEarshot` needs the exception for those who have `heard` of a superpeer (the line ROLE
of the room one has just left arrives in the new one), and `NobodyOutOfEarshot` proves the
property for any number of users.

No run checks for deadlock: users may stop, budgets of sessions and messages run
out, and a hang of the lock is the subject of two properties.

The type invariants of `ServerLock`, `FileTransfer` and `Audio` are proved (section 5) and not run.

## 4. Fairness

- `IrcServer`, `Roles`: none; their properties are safety. `KeyExchange`: weak fairness of each
  server task and of each client's timers, reader and event loop; tokio polls every woken task.
  Nothing makes a user connect, switch or leave, and a read that fails is as good as a cleanup. (Its properties are safety too; they
  speak of settled states.)
- `ServerLock`: weak fairness of `Grant`, and of each task's `Request` and `Drop`; none of `Begin`.
- `MessageLog`: weak fairness of each worker's append, reading and syncing; none of
  starting, stopping, speaking or failing.
- `Signals`: weak fairness of each sending task once it has begun, and of the reader
  for each sender. Nothing makes time pass or a key come back.
- `Calls`: weak fairness of the relay, of each event loop, and of the callbacks of each
  connection (gathering; coming up when both ends can). `ConnUp` assumes a
  network in which ICE works once it has a candidate.
- `Sessions`: weak fairness of the miner, whose attempts are bounded, together with the poll of
  the window, which is drawn again every 100 ms; and of the tasks of the sessions, whose
  connecting has a timeout of 10 s and whose timers fire. Nothing makes the user do
  anything, a connection break, or a server clean up.
- `FileTransfer`: weak fairness of each event loop (a send, its failure, or a save) and of the
  callback of each open channel. Nothing makes a channel open, break or an error happen.
- `Audio`: weak fairness of the mic and mix tasks, of the event loop's waiting change,
  and of the relay for each client: it accepts, reads what was written, or the write
  fails. The last part is the assumption to know: a relay connection that stays open and is not read
  would keep the mic task, its read guard, and with them the event loop.

Every step named so stays possible until it is taken or overtaken by a step
that removes the reason for it, so strong fairness is nowhere needed.

## 5. What is proved

`ServerProofs`, part one, about `IrcServer`: for all sets of addresses, nicks, keys, channels
and all caps, from the assumptions named in `IrcServer` (the caps are positive, addresses are finite,
`NoNick` and `NoKey` are not names, every address has a key, nicks and keys have their bits):

| Theorem | States |
|---|---|
| `TypeCorrect` | `Spec => []TypeOK` |
| `LocalsStayCurrent` | `Spec => []LocalsCurrent` |
| `NoStrayMembers` | `Spec => []MembersRegistered` |
| `CapOvershootBounded` | `Spec => []CapOvershoot` |
| `BindingsStable` | `Spec => BindingStable` |

Part two, about `KeyExchange`: for any number of users, rooms, sessions and switches, from
`ClientAssumption` as well (users have different nicks, the home room is a channel):

| Theorem | States |
|---|---|
| `ExchangeTypeCorrect` | `SpecExchange => []ExchangeTypeOK` |
| `ExchangeRunsTheServer` | `SpecExchange => Spec`: fed by the wires, the server does what `IrcServer` does by itself, so the theorems of part one hold in the composition |
| `NoKeyOutlives` | `SpecExchange => []NoKeyOutlivesItsPeer` |
| `OneOfTwoKnows` | `SpecExchange => []OneKnowsTheOther` |

Part three, about `ServerLock`: for any number of connections, from `WorkerAssumption` (the accept
loop is not a connection, `NoTask` is not a task):

| Theorem | States |
|---|---|
| `LockTypeCorrect` | `SpecLock => []LockTypeOK` |
| `AllGuardsReturned` | `SpecLock => []GuardsReturned` |
| `OnlyNestedReadsHang` | `SpecLock => []StuckOnlyWhenNested` |

Of part one: the inductive invariants are stacked. `Typed` is `TypeOK`. `Consistent` adds what the
tables owe each other and the locals: `MembersRegistered` alone is not
inductive, because `JoinInsert` inserts an address that it looked up in an earlier
section. It is preserved because the task that inserts is itself registered and
has a nick (`LocalsCurrent`), and only its own `Disconnect`, which needs the task to
be "reading", takes that away. `LocalsCurrent` in turn needs that nobody else's section writes
the entry of `a`; each step of the proof is one action. `Capped` carries the two sums
of `CapOvershoot`; `Accept` needs that the table was below its cap and that fewer than
`MaxHandshakes` were in flight, `Register` moves one address from one set to the other,
and the arithmetic is on cardinalities of finite sets. `BindingStable` follows from
`Consistent` step by step: only `HelloBind` sets a binding, after comparing it again
under the same lock, and only `Disconnect` drops one.

Of part two: both properties speak of settled states, in which all is read and handled, and each has
an account of what is under way to carry it there. `Sound` says what a wire and an inbox may
hold: every line about a nick is about the one user who has it, and a key under a nick is his
(`Identified`). `AllRouted` knows where a user is: unless he has switched and his PART has left the
wire, the one channel he is in is Home, so that his PART takes him out of the only
channel where anybody could go on hearing of him (`AtHome`, `HomeUntil`). `AllBacked` is the account of
`NoKeyOutlives`: of everybody who, for the server, is not there with a key together with someone
who stayed, no announcement is the last word in the inbox of the one who stayed (`Ends`), and a key he still
has is followed by a departure, in his inbox or among those his event loop has yet to handle (`GivenUp`,
`Due`). Somebody whose connection
ended with a read error still counts as there: no QUIT comes for him, and `NoKeyOutlivesItsPeer` lets his
key stay (`Ghost`), as the code does; a lemma of its own (`ReadFails`) shows that his end
changes nothing for those who are on. `OneTells` is that of `OneOfTwoKnows`: of two people in a room, one
has told the other (`Told`: the key is there, or arrives with no departure behind it), or is about
to, because the line that makes him greet (`Greets`) or his HELLO is queued or in the server's
hands (`AboutToTell`), or a late event of the loop has wiped the key (`LateWipe`). It is not enough to look at the pair's
inboxes: which of the two tells the other depends on whose JOIN the server takes first,
so that the invariant follows the lines through the sections of JOIN and HELLO. What the client
heeds of the lines of one section (`HeededOf`) is a recursive function for the reason given
below at `Those`.

Of part three: none of the properties is inductive, since nothing in them says that the
operation a task does next fits the guards it has. `IInv` adds `Holds(t)`: the rest of t's
handler is one of the rests that drop exactly what t holds (`Free`, `Reads`,
`ReadsTwice`, `Writes`), and `Enqueued`: a request in the queue is the next operation of its
task, and each task has one at most. `HandlersFree` shows that every handler of
the server starts without a guard, `OneOperation` what one operation does to
a rest. `OnlyNestedReadsHang` then goes by contradiction: if every handler waits, no
one holds the write guard (its next operation would be a drop), so the head of
the queue waits to write for a reader, who waits too, for a second read guard, further behind.

`RolesProofs`, for all rooms and any finite set of users with different nicks:

| Theorem | States |
|---|---|
| `TypeCorrect` | `Spec => []TypeOK` |
| `OnlyTheHostAppoints` | `Spec => []RolesFromHost` |
| `NobodyOutOfEarshot` | `Spec => []AllInEarshot` |

`RolesFromHost` speaks of tables only and is not inductive: a table follows lines and events
read later. `Typed` therefore says what may be under way: an announcement carries the
role its sender's event loop started with, an order that promotes names someone the host
has promoted; `Truthful` says what a table of roles may hold, and each way the reader
and the event loop change a table (`set_peer_role`, a list of names, a departure) is a
lemma about it. `AllInEarshot` speaks of the state in which all is read. `Earshot` extends it
to every state: for two people in a room, the caller has called, or is about to read or to
handle the arrival of the other with no departure of his behind it (`EndsIn`: a queue whose last
line about v is an arrival). `Present` says that whoever is on is listed
in his room, and nobody in another, also one whose connection the server lost without
noticing (`VanishKeeps`; such a one concerns nobody, `Concerns`), and `Unheard` that whoever
lists a superpeer counts as having `heard` of one.

`AudioProofs`, from `AudioAssumption`: for any finite set of users, any set of superpeers among
them, and any bounds on packets, changes of the table and losses of the relay:

| Theorem | States |
|---|---|
| `TypeCorrect` | `Spec => []TypeOK` |
| `NoEchoAndFewCopies` | if there is one superpeer at most (`OneForwards`), `Spec => []FewCopies` |

`Carried` says what a queue may hold: the microphone's its owner's packets, the mix and forward queues
none of them, and those of the superpeer only what came from the speaker himself, so that leaving
out the nick a packet came with is leaving out the one who spoke it. `Shares` is the account of
one packet and one listener: what he has or is about to get (`Coming`), what the superpeer holds
for him (`ToForward`), and what the speaker has still to give (`Unsent`: one copy to the calls and
one to the relay) are together four at most, and two without a superpeer. Every action but
`Forward` is `Balanced`: it adds nowhere more than it takes from `Unsent`; `Forward` moves one
copy from the superpeer to each listener. The hypothesis is needed: with a mod beside the host each
takes the other for the speaker, and the first thing to go is that nobody hears himself (section 6).

`CallsProofs`, for any number of connections and of mishaps:

| Theorem | States |
|---|---|
| `TypeCorrect` | `Spec => []TypeOK` |
| `NoGlare` | `Spec => []OneConnectionEach` |
| `DepartedForgotten` | `Spec => []NoCallWithTheDeparted` |
| `KeyForgotten` | `Spec => []NoKeyOfTheDeparted` |

`Backed` says that the connections in a map and in the hands of a loop are the client's own, and that
redials are paid for by mishaps. `Present` relates the wire to both ends: the last JOIN
or PART on it says where its client is. `Quiet` is the heart of `DepartedForgotten`: who never
moved, and is not in the room together with the other, knows no key and has no trace of the other
(`Clean`), or has its departure as the last event to handle (`LeftLast`), or a connection astray
(`Orphan`, which never ends: `OrphanStays`). No signal can come in behind that departure,
because the reader has forgotten the key. `Single` holds until the first mishap: one JOIN on a wire, one
"joined" among the events, one offer on its way or answered, so that each side creates once.

`FileTransferProofs`, for any users, calls and files (`NoFile` is no name, sizes are numbers):

| Theorem | States |
|---|---|
| `TypeCorrect` | `Spec => []TypeOK` |
| `TheNewestIsOnDisk` | `Spec => []NewestOnDisk` |
| `FilesAreDelivered` | `Spec => DeliversWhole`: FileTransfer implements FileDelivery |

The refinement needs to know what each message on a channel will do to its receiver. `Carried` says that
there is a sequence of *stages*, one before each message and one behind the last: which
file is being received, how much of it, of which offer. Each message leads from its stage to the next
(`Leads`), the first stage is what the receiver has in flight, and the sender goes on where the last
one ends (`Continues`). Receiving drops the first stage, sending adds one, a break empties the channel.
Only "end" is a step of FileDelivery on the receiving side; all others stutter.

`SignalsProofs`, for any signals, however they are cut:

| Theorem | States |
|---|---|
| `TypeCorrect` | `Spec => []TypeOK` |
| `AllFragmentsThere` | `Spec => []NothingVanishes` |
| `SignalsComeOutOnceAndWhole` | `Spec => ImplementsChannel`: Signals implements SignalChannel |

`Balance` keeps account of every fragment: to be sent, on the wire, in the buffer, each in one
place, and none of them once the signal has come out or was lost. `Sent` and `Buffered` say that the
fragments on a wire are different ones of its sender, and that a buffer has fragments of one signal and
lacks some, which is what makes a full buffer the whole signal.

`SessionsProofs`, for any number of sessions, every hash and difficulty:

| Theorem | States |
|---|---|
| `TypeCorrect` | `Spec => []TypeOK` |
| `EveryLoopInHand` | `Spec => []LoopsInHand` |
| `BindingsBacked` | `Spec => []BindingsAlive` |
| `NicksPass` | `Spec => []NicksChecked` |
| `StrongNicks` | `HashArithmetic` and `Spec` imply `[]StrongEnough` |

`OneMiner`: there is one miner at most, and it mines for the connection that waits for
it, so that a result found under a difficulty is used under the same one. `NicksChecked`: whoever
connects from the join screen has passed `check_difficulty`. `Accepted`: a server authenticates only
clients it has named. `BindingsBacked` counts, beside the connections of this run, the clients that earlier runs
left at the other server, which may be there for good: a binding is backed by a client the server still lists,
and goes when the server comes to its end. `NicksChecked` is about the program's own check; that the check makes the
hash small is arithmetic on powers of two, on which the solvers have no theory, so
`StrongNicks` takes it as a hypothesis (`HashArithmetic`), which TLC evaluates on the instance
(`ASSUME` in `MCSessions`).

`MessageLogProofs`, for any clients, messages, limits and nonempty sets of times:

| Theorem | States |
|---|---|
| `TypeCorrect` | `Spec => []TypeOK` |
| `LogsStaySorted` | `Spec => []SortedOnce` |
| `MemoryIsOnDisk` | `Spec => []WrittenFirst` |
| `LogsAreVerified` | `Spec => []OnlyVerified` |
| `UntornFilesLoad` | `Spec => []LoadableUnlessTorn` |

`Logs` relates the three places a message is in: the task that appends it has written it before the log
has it, and all of them are verified. `Lined`: unless a line of the file was interrupted, each text
has a line to itself, and one worker at most is between its text and its line end. `Those` (the
messages of a log that are in a set) is a recursive function instead of `SelectSeq`, whose
local recursion the provers cannot see; that it exists, for logs of any length, is an
induction of its own, on the well-foundedness of < (`SetInduction`, `OneCanRun`).

In all modules the last step is the same: `Init => IInv`, `IInv /\ [Next]_vars => IInv'`, one step
per action, and `IInv` implies the property; for a refinement, every step of the
detailed specification is one of the abstract one or leaves its variables alone.

Not proved, only model-checked: the liveness properties (`EndsUnlessNested`, `CallComesUp`, `SignalsArrive`, `QueueServed`,
`ToldLoopsEnd`, `CountedArrives`, `RelayCovers`, `LoopGetsPeers`, and the refuted ones), since
fairness and ENABLED are out of the prover's reach; and the arithmetic of leading zero bits
behind `StrongEnough`.

## 6. Findings

Two are counterexamples of "violation" runs; `PROJECT.json` quotes both sides.

1. `irc_client.rs:471` against `persistence.rs:9`: the answer to a sync request
   is addressed to the client that answers (`log_sync`, `LogsMerge`).
2. `gui.rs:1559` against `irc_server.rs:30`: Disconnect ends the event loop and not the
   connection, so the server goes on holding the nick, and refuses it to its owner when
   he comes back (`sessions_back`, `ComesBack`).

The others are built into properties that hold: each names the behaviour as the exception
it makes, and would have to be strengthened once the code is changed.

- `irc_server.rs:182` against the comment at line 30: the departure of one session of a nick drops the
  binding another session relies on, after which a second key can take the nick
  (`BindingStable` lets a binding go with any departure of its nick).
- `irc_server.rs:165`: a read that fails ends the handler by `?`, before the cleanup. No QUIT is sent, the key
  of the one who left stays known (`Ghost` in `NoKeyOutlivesItsPeer`), his nick stays bound
  (`BackedBy` in `BindingsAlive`; `ComesBack` leaves such clients out), and he stays
  listed in his channel (`TypeOK` and `Together` of `Roles`).
- `irc_server.rs:448` and `465`: a notice inside a read guard takes the read lock again;
  with a writer waiting between the two, the whole server stops (`StuckOnlyWhenNested`,
  `EndsUnlessNested`).
- `irc_client.rs:150`: a newcomer's HELLO precedes its JOIN, so those already in the room
  never learn its key and drop its signals, roles and messages (`OneKnowsTheOther`
  promises one direction only).
- `state.rs:230`, called by the reader and again by the event loop: the second removal
  takes a key that was learned in between (`LateWipe`).
- `irc_server.rs:166`: lines of more than 512 bytes are dropped without a word, a signed
  message of more than about 67 characters among them (`Relay` of MessageLog).
- `irc_server.rs:170` against DESIGN.md:4: a fragment of a signal that ends in a blank
  loses it on the way (`WholeSignal`).
- `topology.rs:55`: peers call each other "only if no superpeers exist at all". The
  decision is taken once, when the newcomer is seen, and he is entered as a peer just before
  (`HandleJoined`); his announcement comes before his key or before he is in the room.
  So the first decision is nearly always "call", and one who has `heard` of a superpeer
  and did not call is not called when the superpeer goes (`AllInEarshot`).
- `moderation.rs:110`: the help says that /kick disconnects a user; a kick and a ban
  put a line on the screens (`Executed`).
- `gui.rs:1202`: the relay is used on top of the calls, not instead of them, so a packet
  is usually heard twice, and up to twice more by way of a superpeer (`FewCopies`).
- `gui.rs:1002`: the forward task asks for the role of the moment, so a promoted mod forwards
  beside the host; a packet that one superpeer forwards comes to the other under the first
  one's nick (`webrtc_peer.rs` names the call, not the speaker), and goes back to its
  speaker. `FewCopies` and `NoEchoAndFewCopies` speak of one superpeer at most.
- `pow.rs:58` against the test at `pow.rs:192`: of an all-zero hash the test expects 32 bits; the
  code counts 256 in a counter of one byte, which stops a debug build and gives 0 in a
  release build (`leading_zero_bits` wraps; the unmined name of `sessions` has such a hash).
- Recent servers and the host's own room skip the check of the nick's difficulty on the
  join screen (`StrongEnough` speaks of the connections that were checked).

## 7. Assumptions

- Cryptography: a signature is valid or it is not, a key is its owner's.
- Users have different nicks where a module identifies a user by the nick (`KeyExchange`,
  `Roles`, `Calls`, `Audio`); nick competition is the subject of `IrcServer`.
- TLS and TCP deliver in order until they break. WebRTC data channels are reliable and ordered until
  they break, tracks may lose packets.
- tokio's RwLock is fair, and its unbounded channels keep order.
- The clock that stamps messages may give one time twice, never an earlier one than
  the run allows.

## 8. Not modelled, and why

- Audio capture, encoding and the mixing of samples: real-time signal processing on a
  sound card's threads, without protocol state.
- The chat window's history (`load_history`, `add_message`): a capped list and a text file
  nothing else reads.
- Connection states on the screen (connecting, NAT issue, relayed), `/mine` and the
  time estimates: shown, and read by nothing.
- UI widgets, magic links, TLS set-up, the settings file, UPnP, program start: data
  conversion, file and network glue. What the UI sends to the event loop appears as
  the actions of users.
- SHA-256: a constant function from nicks to small hashes.
- Custom commands, help and the parsing of moderation commands: wording.
- The chain hash of the log: every caller verifies with `None`.
- A relay client that stays connected and does not read (section 4).
- In `KeyExchange`, the return of a user at an address whose connection ended with a read error: addresses are
  not used again there, and a user who comes back at another one is refused his nick as long as
  the server keeps the binding (`Sessions` has that case), so that nobody hears of him.
- In `MessageLog`, keys that a client learns between two messages: `Known` stays as it is, and a message under another
  key than its author's, which was logged before that key was known, is not told apart.

## 9. Plan

1. A second mishap in `Calls`, by a smaller model of the callbacks.
