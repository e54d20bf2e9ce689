------------------------------ MODULE IrcServer ------------------------------
(***************************************************************************)
(* The embedded IRC server of voirc (src/src/irc_server.rs).               *)
(*                                                                         *)
(* One tokio task per connection works on a ServerState shared behind one  *)
(* RwLock.  An action is one critical section of one task; a handler that  *)
(* takes the lock several times is several actions, with its locals in     *)
(* task[a].  The lock itself is the subject of module ServerLock.          *)
(***************************************************************************)
EXTENDS Naturals, FiniteSets, Sequences

CONSTANTS
    Addrs,            \* peer socket addresses (ip, port), one per connection
    IpOf,             \* the ip of each address
    Nicks, Channels,
    Keys,             \* ed25519 public keys
    KeyOf,            \* the identity key of the user behind each address
    PowBits,          \* leading zero bits of SHA256(nick || key)
    Difficulties,     \* the difficulties VOIRC_POW_SET is tried with
    InitialBits,      \* the difficulty the host starts the server with
    MaxTotalClients, MaxClientsPerIp,
    MaxHandshakes,    \* bound: TLS handshakes in flight at any one time
    NoNick, NoKey

ASSUME CapAssumption ==
    /\ MaxTotalClients \in Nat \ {0}
    /\ MaxClientsPerIp \in Nat \ {0}
    /\ MaxHandshakes \in Nat \ {0}

ASSUME IdentityAssumption ==
    /\ IsFiniteSet(Addrs)
    /\ NoNick \notin Nicks
    /\ NoKey \notin Keys
    /\ KeyOf \in [Addrs -> Keys]

ASSUME PowAssumption ==
    /\ PowBits \in [Nicks \X Keys -> Nat]
    /\ Difficulties \subseteq 0..28
    /\ InitialBits \in Nat

VARIABLES
    task,         \* where the task of each connection is, with its locals
    clients,      \* the addresses in ServerState.clients ...
    nick, pubkey, authenticated,  \* ... and the fields of their Client entries
    channels,     \* channel -> addresses of its members
    nickPubkeys,  \* nick -> the key it is bound to
    powRequired,  \* ServerState.pow_required_bits
    out           \* the lines the last critical section put on each client's tx

state == <<clients, nick, pubkey, authenticated, channels, nickPubkeys, powRequired>>
vars == <<task, state, out>>

-----------------------------------------------------------------------------
(* Tasks and messages. *)

At(s) == [at |-> s]

Tasks ==
    {At(s) : s \in {"none", "handshake", "reading", "dead"}}
    \cup [at : {"helloPow", "helloBind"}, nick : Nicks, key : Keys]
    \cup [at : {"join"}, nick : Nicks, channel : Channels]
    \cup [at : {"powSet"}, bits : Difficulties]

Messages ==
    [cmd : {"CAP", "PONG", "HELLO_INVALID", "HELLO_OK", "POW_INVALID"}]
    \cup [cmd : {"433", "001", "NICK_MISMATCH"}, nick : Nicks]
    \cup [cmd : {"POW_REQUIRED", "POW_TOO_WEAK"}, bits : Nat]
    \cup [cmd : {"PUBKEY"}, nick : Nicks, key : Keys]
    \cup [cmd : {"PRIVMSG", "QUIT"}, nick : Nicks \cup {NoNick}]
    \cup [cmd : {"JOIN", "PART"}, nick : Nicks, channel : Channels]
    \cup [cmd : {"KICK"}, nick : Nicks, channel : Channels]
    \cup [cmd : {"NAMES"}, channel : Channels, names : SUBSET Nicks]

(* A line for each of "to" that is still in the client table. *)
Send(to, m) == [b \in Addrs |-> IF b \in to \cap clients THEN <<m>> ELSE <<>>]

Quiet == Send({}, [cmd |-> "PONG"])

-----------------------------------------------------------------------------
(* Helpers of ServerState. *)

find_addr_by_nick(n) == {b \in clients : nick[b] = n}

count_ip(ip) == Cardinality({b \in clients : IpOf[b] = ip})

Handshaking == {a \in Addrs : task[a].at = "handshake"}

(* pow::check_difficulty. *)
check_difficulty(n, k, required) == PowBits[<<n, k>>] >= required

(* Mutation: the binding is not compared with the key. *)
MayBindAnyKey(n, k) == n \in Nicks /\ k \in Keys

MayBind(n, k) == nickPubkeys[n] \in {NoKey, k}

CoMembers(a) == (UNION {channels[c] : c \in {d \in Channels : a \in channels[d]}}) \ {a}

Init ==
    /\ task = [a \in Addrs |-> At("none")]
    /\ clients = {}
    /\ nick = [a \in Addrs |-> NoNick]
    /\ pubkey = [a \in Addrs |-> NoKey]
    /\ authenticated = [a \in Addrs |-> FALSE]
    /\ channels = [c \in Channels |-> {}]
    /\ nickPubkeys = [n \in Nicks |-> NoKey]
    /\ powRequired = InitialBits
    /\ out = Quiet

-----------------------------------------------------------------------------
(* Life of a connection. *)

(* Mutation: the caps are compared with "<=". *)
AcceptOffByOne(a) ==
    /\ task[a].at = "none"
    /\ Cardinality(Handshaking) < MaxHandshakes
    /\ Cardinality(clients) <= MaxTotalClients
    /\ count_ip(IpOf[a]) <= MaxClientsPerIp
    /\ task' = [task EXCEPT ![a] = At("handshake")]
    /\ out' = Quiet
    /\ UNCHANGED state

(* The accept loop checks the caps against the client table only; a socket *)
(* over a cap is dropped, which changes nothing.                           *)
Accept(a) ==
    /\ task[a].at = "none"
    /\ Cardinality(Handshaking) < MaxHandshakes
    /\ Cardinality(clients) < MaxTotalClients
    /\ count_ip(IpOf[a]) < MaxClientsPerIp
    /\ task' = [task EXCEPT ![a] = At("handshake")]
    /\ out' = Quiet
    /\ UNCHANGED state

HandshakeFails(a) ==
    /\ task[a].at = "handshake"
    /\ task' = [task EXCEPT ![a] = At("none")]
    /\ out' = Quiet
    /\ UNCHANGED state

Register(a) ==
    /\ task[a].at = "handshake"
    /\ task' = [task EXCEPT ![a] = At("reading")]
    /\ clients' = clients \cup {a}
    /\ nick' = [nick EXCEPT ![a] = NoNick]
    /\ pubkey' = [pubkey EXCEPT ![a] = NoKey]
    /\ authenticated' = [authenticated EXCEPT ![a] = FALSE]
    /\ out' = Quiet
    /\ UNCHANGED <<channels, nickPubkeys, powRequired>>

(* Mutation: only an authenticated client is cleaned up after. *)
DisconnectUnauthenticated(a) ==
    /\ task[a].at = "reading"
    /\ task' = [task EXCEPT ![a] = At("none")]
    /\ clients' = clients \ {a}
    /\ nick' = [nick EXCEPT ![a] = NoNick]
    /\ pubkey' = [pubkey EXCEPT ![a] = NoKey]
    /\ authenticated' = [authenticated EXCEPT ![a] = FALSE]
    /\ channels' = [c \in Channels |->
                        IF authenticated[a] THEN channels[c] \ {a} ELSE channels[c]]
    /\ out' = Quiet
    /\ UNCHANGED <<nickPubkeys, powRequired>>

(* End of file on the socket: the cleanup after the read loop. *)
Disconnect(a) ==
    /\ task[a].at = "reading"
    /\ task' = [task EXCEPT ![a] = At("none")]
    /\ clients' = clients \ {a}
    /\ nick' = [nick EXCEPT ![a] = NoNick]
    /\ pubkey' = [pubkey EXCEPT ![a] = NoKey]
    /\ authenticated' = [authenticated EXCEPT ![a] = FALSE]
    /\ \/ /\ nick[a] = NoNick
          /\ out' = Quiet
          /\ UNCHANGED <<channels, nickPubkeys>>
       \/ /\ nick[a] # NoNick
          /\ nickPubkeys' = [nickPubkeys EXCEPT ![nick[a]] = NoKey]
          /\ channels' = [c \in Channels |-> channels[c] \ {a}]
          /\ out' = Send(CoMembers(a), [cmd |-> "QUIT", nick |-> nick[a]])
    /\ UNCHANGED powRequired

(* A reset, a TLS error or a line that is not UTF-8: "?" leaves the         *)
(* handler before the cleanup, and the Client entry stays behind.          *)
ReadError(a) ==
    /\ task[a].at = "reading"
    /\ task' = [task EXCEPT ![a] = At("dead")]
    /\ out' = Quiet
    /\ UNCHANGED state

-----------------------------------------------------------------------------
(* process_command: the commands that need one critical section. *)

Reading(a) == task[a].at = "reading" /\ UNCHANGED task

Reply(a, m) == out' = Send({a}, m) /\ UNCHANGED state

Cap(a) == Reading(a) /\ Reply(a, [cmd |-> "CAP"])

Ping(a) == Reading(a) /\ Reply(a, [cmd |-> "PONG"])

(* Mutation: a NICK line is served while another command of the connection is. *)
NickConcurrent(a, n) ==
    /\ a \in clients
    /\ nickPubkeys[n] \in {NoKey, pubkey[a]}
    /\ nick' = [nick EXCEPT ![a] = n]
    /\ out' = Quiet
    /\ UNCHANGED <<task, clients, pubkey, authenticated, channels, nickPubkeys, powRequired>>

Nick(a, n) ==
    /\ Reading(a)
    /\ \/ /\ nickPubkeys[n] \notin {NoKey, pubkey[a]}
          /\ Reply(a, [cmd |-> "433", nick |-> n])
       \/ /\ nickPubkeys[n] \in {NoKey, pubkey[a]}
          /\ nick' = [nick EXCEPT ![a] = n]
          /\ out' = Quiet
          /\ UNCHANGED <<clients, pubkey, authenticated, channels, nickPubkeys, powRequired>>

(* Mutation: USER is answered before NICK. *)
UserUnregistered(a) ==
    /\ Reading(a)
    /\ Reply(a, [cmd |-> "001", nick |-> nick[a]])

(* 001, 422 and the advertised difficulty. *)
User(a) ==
    /\ Reading(a)
    /\ nick[a] # NoNick
    /\ out' = [Quiet EXCEPT ![a] = <<[cmd |-> "001", nick |-> nick[a]],
                                     [cmd |-> "POW_REQUIRED", bits |-> powRequired]>>]
    /\ UNCHANGED state

(* The sender may speak: its nick is not bound, or it has authenticated. *)
MaySpeak(a) ==
    nick[a] # NoNick /\ nickPubkeys[nick[a]] # NoKey => authenticated[a]

Privmsg(a) ==
    /\ Reading(a)
    /\ MaySpeak(a)
    /\ \/ \E c \in Channels :
             out' = Send(channels[c] \ {a}, [cmd |-> "PRIVMSG", nick |-> nick[a]])
       \/ \E n \in Nicks : \E b \in find_addr_by_nick(n) :
             out' = Send({b}, [cmd |-> "PRIVMSG", nick |-> nick[a]])
    /\ UNCHANGED state

(* The target is any client with that nick, in the channel or not. *)
Kick(a, c, n) ==
    /\ Reading(a)
    /\ authenticated[a]
    /\ \E b \in find_addr_by_nick(n) :
          channels' = [channels EXCEPT ![c] = @ \ {b}]
    /\ out' = Send(channels[c], [cmd |-> "KICK", nick |-> n, channel |-> c])
    /\ UNCHANGED <<clients, nick, pubkey, authenticated, nickPubkeys, powRequired>>

Part(a, c) ==
    /\ Reading(a)
    /\ nick[a] # NoNick
    /\ channels' = [channels EXCEPT ![c] = @ \ {a}]
    /\ out' = Send(channels[c] \ {a}, [cmd |-> "PART", nick |-> nick[a], channel |-> c])
    /\ UNCHANGED <<clients, nick, pubkey, authenticated, nickPubkeys, powRequired>>

-----------------------------------------------------------------------------
(* JOIN: the nick is read in one section, the member inserted in the next. *)

JoinRead(a, c) ==
    /\ task[a].at = "reading"
    /\ nick[a] # NoNick
    /\ task' = [task EXCEPT ![a] = [at |-> "join", nick |-> nick[a], channel |-> c]]
    /\ out' = Quiet
    /\ UNCHANGED state

JoinInsert(a) ==
    /\ task[a].at = "join"
    /\ LET c == task[a].channel
           members == channels[c] \cup {a}
           joined == [cmd |-> "JOIN", nick |-> task[a].nick, channel |-> c]
           names == [cmd |-> "NAMES", channel |-> c,
                     names |-> {nick[b] : b \in members \cap clients} \ {NoNick}]
       IN  /\ channels' = [channels EXCEPT ![c] = members]
           /\ out' = [Send(members, joined) EXCEPT ![a] = <<joined, names>>]
    /\ task' = [task EXCEPT ![a] = At("reading")]
    /\ UNCHANGED <<clients, nick, pubkey, authenticated, nickPubkeys, powRequired>>

-----------------------------------------------------------------------------
(* VOIRC_HELLO: signature, nick, difficulty and binding, in that order. *)

(* Malformed key or signature, or a signature that does not verify. *)
HelloInvalid(a) == Reading(a) /\ Reply(a, [cmd |-> "HELLO_INVALID"])

HelloCheckNick(a, n) ==
    /\ task[a].at = "reading"
    /\ \/ /\ nick[a] # n
          /\ Reply(a, [cmd |-> "NICK_MISMATCH", nick |-> n])
          /\ UNCHANGED task
       \/ /\ nick[a] = n
          /\ task' = [task EXCEPT ![a] = [at |-> "helloPow", nick |-> n, key |-> KeyOf[a]]]
          /\ out' = Quiet
          /\ UNCHANGED state

HelloCheckPow(a) ==
    /\ task[a].at = "helloPow"
    /\ \/ /\ ~check_difficulty(task[a].nick, task[a].key, powRequired)
          /\ task' = [task EXCEPT ![a] = At("reading")]
          /\ Reply(a, [cmd |-> "POW_TOO_WEAK", bits |-> powRequired])
       \/ /\ check_difficulty(task[a].nick, task[a].key, powRequired)
          /\ task' = [task EXCEPT ![a] = [at |-> "helloBind",
                                          nick |-> task[a].nick, key |-> task[a].key]]
          /\ out' = Quiet
          /\ UNCHANGED state

HelloBind(a) ==
    /\ task[a].at = "helloBind"
    /\ task' = [task EXCEPT ![a] = At("reading")]
    /\ LET n == task[a].nick
           k == task[a].key
       IN  \/ /\ ~MayBind(n, k)
              /\ Reply(a, [cmd |-> "433", nick |-> n])
           \/ /\ MayBind(n, k)
              /\ nickPubkeys' = [nickPubkeys EXCEPT ![n] = k]
              /\ pubkey' = [pubkey EXCEPT ![a] = k]
              /\ authenticated' = [authenticated EXCEPT ![a] = TRUE]
              /\ out' = [Send(CoMembers(a), [cmd |-> "PUBKEY", nick |-> n, key |-> k])
                           EXCEPT ![a] = <<[cmd |-> "HELLO_OK"]>>]
              /\ UNCHANGED <<clients, nick, channels, powRequired>>

-----------------------------------------------------------------------------
(* VOIRC_POW_SET: authorised under the read lock, applied under the write lock. *)

PowSetInvalid(a) == Reading(a) /\ Reply(a, [cmd |-> "POW_INVALID"])

PowSetCheck(a, bits) ==
    /\ task[a].at = "reading"
    /\ authenticated[a]
    /\ task' = [task EXCEPT ![a] = [at |-> "powSet", bits |-> bits]]
    /\ out' = Quiet
    /\ UNCHANGED state

PowSetWrite(a) ==
    /\ task[a].at = "powSet"
    /\ task' = [task EXCEPT ![a] = At("reading")]
    /\ powRequired' = task[a].bits
    /\ out' = Send(clients, [cmd |-> "POW_REQUIRED", bits |-> task[a].bits])
    /\ UNCHANGED <<clients, nick, pubkey, authenticated, channels, nickPubkeys>>

-----------------------------------------------------------------------------
ConnectionStep(a) ==
    Accept(a) \/ HandshakeFails(a) \/ Register(a) \/ Disconnect(a) \/ ReadError(a)

CommandStep(a) ==
    \/ Cap(a) \/ Ping(a) \/ User(a) \/ Privmsg(a)
    \/ \E n \in Nicks : Nick(a, n)
    \/ \E c \in Channels : Part(a, c) \/ \E n \in Nicks : Kick(a, c, n)
    \/ \E c \in Channels : JoinRead(a, c)

HelloStep(a) ==
    \/ HelloInvalid(a)
    \/ \E n \in Nicks : HelloCheckNick(a, n)
    \/ HelloCheckPow(a)
    \/ HelloBind(a)

PowSetStep(a) ==
    PowSetInvalid(a) \/ PowSetWrite(a) \/ \E bits \in Difficulties : PowSetCheck(a, bits)

(* The steps a handler takes by itself once its command has been read. *)
Continue(a) == JoinInsert(a) \/ HelloCheckPow(a) \/ HelloBind(a) \/ PowSetWrite(a)

Step(a) == ConnectionStep(a) \/ CommandStep(a) \/ JoinInsert(a) \/ HelloStep(a) \/ PowSetStep(a)

Next == \E a \in Addrs : Step(a)

Spec == Init /\ [][Next]_vars

-----------------------------------------------------------------------------
(* Every variable keeps the type of the field it models. *)
TypeOK ==
    /\ task \in [Addrs -> Tasks]
    /\ clients \subseteq Addrs
    /\ nick \in [Addrs -> Nicks \cup {NoNick}]
    /\ pubkey \in [Addrs -> Keys \cup {NoKey}]
    /\ authenticated \in [Addrs -> BOOLEAN]
    /\ channels \in [Channels -> SUBSET Addrs]
    /\ nickPubkeys \in [Nicks -> Keys \cup {NoKey}]
    /\ powRequired \in Nat
    /\ out \in [Addrs -> Seq(Messages)]

(* The server's tables and the locals of a handler agree between two of its *)
(* critical sections: a handler that has dropped the lock and will take it  *)
(* again works for a registered client, under the nick it read before, and  *)
(* a difficulty change in flight still belongs to an authenticated client   *)
(* (nobody but the connection's own task writes these fields).              *)
LocalsCurrent ==
    \A a \in Addrs :
        /\ task[a].at \notin {"none", "handshake"} <=> a \in clients
        /\ task[a].at \in {"join", "helloPow", "helloBind"} => nick[a] = task[a].nick
        /\ task[a].at = "powSet" => authenticated[a]

(* A channel never lists an address that has left the client table, nor one *)
(* without a nick: the cleanup skips the channels of a client that has no   *)
(* nick, so the two facts stand or fall together.                           *)
MembersRegistered ==
    \A c \in Channels : \A a \in channels[c] : a \in clients /\ nick[a] # NoNick

(* The caps are read before the TLS handshake and the client is inserted    *)
(* after it: the table can exceed a cap by the handshakes in flight, and by *)
(* no more.                                                                 *)
CapOvershoot ==
    /\ Cardinality(clients) + Cardinality(Handshaking)
           <= MaxTotalClients - 1 + MaxHandshakes
    /\ \A ip \in {IpOf[a] : a \in Addrs} :
           count_ip(ip) + Cardinality({a \in Handshaking : IpOf[a] = ip})
               <= MaxClientsPerIp - 1 + MaxHandshakes

(* A binding is never handed from one key to another: it is dropped first,  *)
(* and only by a client leaving under that nick.  (HELLO checks the binding *)
(* again under the write lock that makes it.)                               *)
BindingStable ==
    [][\A n \in Nicks :
          nickPubkeys[n] \notin {NoKey, nickPubkeys'[n]} =>
              /\ nickPubkeys'[n] = NoKey
              /\ \E a \in clients \ clients' : nick[a] = n]_vars
=============================================================================
