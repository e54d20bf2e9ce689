---------------------------- MODULE ServerProofs -----------------------------
(***************************************************************************)
(* Theorems about the embedded server, for every value of the constants:   *)
(* part one, IrcServer by itself (Spec, whatever a client may send); part  *)
(* two, KeyExchange, which composes it with its clients (SpecExchange);    *)
(* part three, ServerLock, the lock its handlers take (SpecLock).          *)
(***************************************************************************)
EXTENDS KeyExchange, ServerLock, FiniteSetTheorems, SequenceTheorems, TLAPS

-----------------------------------------------------------------------------
(* Part one, the server.  Lines and outboxes. *)

Lines == [Addrs -> Seq(Messages)]

LEMMA SendType ==
    ASSUME NEW to, NEW m \in Messages
    PROVE  Send(to, m) \in Lines
  BY DEF Send, Lines

LEMMA QuietType == Quiet \in Lines
<1>1. [cmd |-> "PONG"] \in Messages
  BY DEF Messages
<1> QED
  BY <1>1, SendType DEF Quiet

LEMMA ReplyType ==
    ASSUME NEW a, NEW m \in Messages, Reply(a, m)
    PROVE  out' \in Lines
  BY SendType DEF Reply

(* Giving one client lines of its own keeps an outbox an outbox. *)
LEMMA ExceptType ==
    ASSUME NEW o \in Lines, NEW a, NEW s \in Seq(Messages)
    PROVE  [o EXCEPT ![a] = s] \in Lines
  BY DEF Lines

-----------------------------------------------------------------------------
(* Types. *)

StateType ==
    /\ clients \subseteq Addrs
    /\ nick \in [Addrs -> Nicks \cup {NoNick}]
    /\ pubkey \in [Addrs -> Keys \cup {NoKey}]
    /\ authenticated \in [Addrs -> BOOLEAN]
    /\ channels \in [Channels -> SUBSET Addrs]
    /\ nickPubkeys \in [Nicks -> Keys \cup {NoKey}]
    /\ powRequired \in Nat

Typed == StateType /\ task \in [Addrs -> Tasks] /\ out \in Lines

LEMMA TypedIsTypeOK == Typed <=> TypeOK
  BY DEF TypeOK, Typed, StateType, Lines

LEMMA StateKept ==
    ASSUME StateType, UNCHANGED state
    PROVE  StateType'
  BY DEF StateType, state

LEMMA ConnectionTypes ==
    ASSUME Typed, NEW a \in Addrs, ConnectionStep(a)
    PROVE  Typed'
<1> USE DEF Typed
<1>0. \A s \in {"none", "handshake", "reading", "dead"} : At(s) \in Tasks
  BY DEF Tasks
<1>1. CASE Accept(a)
  BY <1>0, <1>1, QuietType, StateKept DEF Accept
<1>2. CASE HandshakeFails(a)
  BY <1>0, <1>2, QuietType, StateKept DEF HandshakeFails
<1>3. CASE Register(a)
  BY <1>0, <1>3, QuietType DEF Register, StateType
<1>4. CASE Disconnect(a)
  <2>1. task' \in [Addrs -> Tasks]
    BY <1>0, <1>4 DEF Disconnect
  <2>2. out' \in Lines
    <3>1. [cmd |-> "QUIT", nick |-> nick[a]] \in Messages
      BY DEF Messages, StateType
    <3> QED
      BY <1>4, <3>1, QuietType, SendType DEF Disconnect
  <2>3. StateType'
    BY <1>4 DEF Disconnect, StateType
  <2> QED
    BY <2>1, <2>2, <2>3
<1>5. CASE ReadError(a)
  BY <1>0, <1>5, QuietType, StateKept DEF ReadError
<1> QED
  BY <1>1, <1>2, <1>3, <1>4, <1>5 DEF ConnectionStep

LEMMA CommandTypes ==
    ASSUME Typed, NEW a \in Addrs, CommandStep(a)
    PROVE  Typed'
<1> USE DEF Typed
<1>1. CASE Cap(a)
  <2>1. [cmd |-> "CAP"] \in Messages
    BY DEF Messages
  <2> QED
    BY <1>1, <2>1, ReplyType, StateKept DEF Cap, Reading, Reply
<1>2. CASE Ping(a)
  <2>1. [cmd |-> "PONG"] \in Messages
    BY DEF Messages
  <2> QED
    BY <1>2, <2>1, ReplyType, StateKept DEF Ping, Reading, Reply
<1>3. CASE User(a)
  <2>1. /\ [cmd |-> "001", nick |-> nick[a]] \in Messages
        /\ [cmd |-> "POW_REQUIRED", bits |-> powRequired] \in Messages
    BY <1>3 DEF User, Messages, StateType
  <2> DEFINE s == <<[cmd |-> "001", nick |-> nick[a]],
                    [cmd |-> "POW_REQUIRED", bits |-> powRequired]>>
  <2>2. s \in Seq(Messages)
    BY <2>1
  <2>3. out' = [Quiet EXCEPT ![a] = s]
    BY <1>3 DEF User
  <2>4. out' \in Lines
    <3> HIDE DEF s
    <3> QED
      BY <2>2, <2>3, QuietType, ExceptType
  <2> QED
    BY <1>3, <2>4, StateKept DEF User, Reading
<1>4. CASE Privmsg(a)
  <2>1. [cmd |-> "PRIVMSG", nick |-> nick[a]] \in Messages
    BY DEF Messages, StateType
  <2>2. out' \in Lines
    BY <1>4, <2>1, SendType DEF Privmsg
  <2> QED
    BY <1>4, <2>2, StateKept DEF Privmsg, Reading
<1>5. CASE \E n \in Nicks : Nick(a, n)
  <2>1. PICK n \in Nicks : Nick(a, n)
    BY <1>5
  <2>2. [cmd |-> "433", nick |-> n] \in Messages
    BY DEF Messages
  <2>3. out' \in Lines
    BY <2>1, <2>2, ReplyType, QuietType DEF Nick
  <2>4. StateType'
    BY <2>1, StateKept DEF Nick, Reply, StateType
  <2> QED
    BY <2>1, <2>3, <2>4 DEF Nick, Reading
<1>6. CASE \E c \in Channels : Part(a, c)
  <2>1. PICK c \in Channels : Part(a, c)
    BY <1>6
  <2>2. [cmd |-> "PART", nick |-> nick[a], channel |-> c] \in Messages
    BY <2>1 DEF Part, Messages, StateType
  <2>3. out' \in Lines
    BY <2>1, <2>2, SendType DEF Part
  <2>4. StateType'
    BY <2>1 DEF Part, StateType
  <2> QED
    BY <2>1, <2>3, <2>4 DEF Part, Reading
<1>7. CASE \E c \in Channels : \E n \in Nicks : Kick(a, c, n)
  <2>1. PICK c \in Channels, n \in Nicks : Kick(a, c, n)
    BY <1>7
  <2>2. [cmd |-> "KICK", nick |-> n, channel |-> c] \in Messages
    BY DEF Messages
  <2>3. out' \in Lines
    BY <2>1, <2>2, SendType DEF Kick
  <2>4. StateType'
    BY <2>1 DEF Kick, StateType
  <2> QED
    BY <2>1, <2>3, <2>4 DEF Kick, Reading
<1>8. CASE \E c \in Channels : JoinRead(a, c)
  <2>1. PICK c \in Channels : JoinRead(a, c)
    BY <1>8
  <2>2. [at |-> "join", nick |-> nick[a], channel |-> c] \in Tasks
    BY <2>1 DEF JoinRead, Tasks, StateType
  <2> QED
    BY <2>1, <2>2, QuietType, StateKept DEF JoinRead
<1> QED
  BY <1>1, <1>2, <1>3, <1>4, <1>5, <1>6, <1>7, <1>8 DEF CommandStep

(* What the locals of a handler are, once the lock is taken again. *)
LEMMA TaskFields ==
    ASSUME Typed, NEW a \in Addrs
    PROVE  /\ task[a].at \in {"helloPow", "helloBind"} =>
                 task[a].nick \in Nicks /\ task[a].key \in Keys
           /\ task[a].at = "join" => task[a].nick \in Nicks /\ task[a].channel \in Channels
           /\ task[a].at = "powSet" => task[a].bits \in Difficulties
           /\ At("reading") \in Tasks
  BY DEF Typed, Tasks, At

LEMMA JoinTypes ==
    ASSUME Typed, NEW a \in Addrs, JoinInsert(a)
    PROVE  Typed'
<1> DEFINE c == task[a].channel
           members == channels[c] \cup {a}
           joined == [cmd |-> "JOIN", nick |-> task[a].nick, channel |-> c]
           listed == {nick[b] : b \in members \cap clients} \ {NoNick}
           names == [cmd |-> "NAMES", channel |-> c, names |-> listed]
<1>1. c \in Channels /\ task[a].nick \in Nicks
  BY TaskFields DEF JoinInsert
<1>2. listed \in SUBSET Nicks
  BY DEF Typed, StateType
<1>3. joined \in Messages
  BY <1>1 DEF Messages
<1>4. names \in Messages
  BY <1>1, <1>2 DEF Messages
<1>5. Send(members, joined) \in Lines
  BY <1>3, SendType
<1>6. out' \in Lines
  <2>1. <<joined, names>> \in Seq(Messages)
    BY <1>3, <1>4
  <2>2. out' = [Send(members, joined) EXCEPT ![a] = <<joined, names>>]
    BY DEF JoinInsert
  <2> QED
    BY <1>5, <2>1, <2>2, ExceptType
<1>7. StateType'
  BY <1>1 DEF JoinInsert, Typed, StateType
<1>8. task' \in [Addrs -> Tasks]
  BY TaskFields DEF JoinInsert, Typed
<1> QED
  BY <1>6, <1>7, <1>8 DEF Typed

LEMMA HelloTypes ==
    ASSUME Typed, NEW a \in Addrs, HelloStep(a)
    PROVE  Typed'
<1> USE DEF Typed
<1>1. CASE HelloInvalid(a)
  <2>1. [cmd |-> "HELLO_INVALID"] \in Messages
    BY DEF Messages
  <2> QED
    BY <1>1, <2>1, ReplyType, StateKept DEF HelloInvalid, Reading, Reply
<1>2. CASE \E n \in Nicks : HelloCheckNick(a, n)
  <2>1. PICK n \in Nicks : HelloCheckNick(a, n)
    BY <1>2
  <2>2. [cmd |-> "NICK_MISMATCH", nick |-> n] \in Messages
    BY DEF Messages
  <2>3. [at |-> "helloPow", nick |-> n, key |-> KeyOf[a]] \in Tasks
    BY IdentityAssumption DEF Tasks
  <2>4. out' \in Lines
    BY <2>1, <2>2, ReplyType, QuietType DEF HelloCheckNick
  <2>5. StateType'
    BY <2>1, StateKept DEF HelloCheckNick, Reply
  <2> QED
    BY <2>1, <2>3, <2>4, <2>5 DEF HelloCheckNick
<1>3. CASE HelloCheckPow(a)
  <2>1. [cmd |-> "POW_TOO_WEAK", bits |-> powRequired] \in Messages
    BY DEF Messages, StateType
  <2>2. out' \in Lines
    BY <1>3, <2>1, ReplyType, QuietType DEF HelloCheckPow
  <2>3. StateType'
    BY <1>3, StateKept DEF HelloCheckPow, Reply
  <2>4. task[a].nick \in Nicks /\ task[a].key \in Keys
    BY <1>3, TaskFields DEF HelloCheckPow
  <2>5. [at |-> "helloBind", nick |-> task[a].nick, key |-> task[a].key] \in Tasks
    BY <2>4 DEF Tasks
  <2>6. task' \in [Addrs -> Tasks]
    BY <1>3, <2>5, TaskFields DEF HelloCheckPow
  <2> QED
    BY <2>2, <2>3, <2>6
<1>4. CASE HelloBind(a)
  <2>1. task[a].nick \in Nicks /\ task[a].key \in Keys
    BY <1>4, TaskFields DEF HelloBind
  <2>2. /\ [cmd |-> "433", nick |-> task[a].nick] \in Messages
        /\ [cmd |-> "PUBKEY", nick |-> task[a].nick, key |-> task[a].key] \in Messages
        /\ [cmd |-> "HELLO_OK"] \in Messages
    BY <2>1 DEF Messages
  <2>3. <<[cmd |-> "HELLO_OK"]>> \in Seq(Messages)
    BY <2>2
  <2>4. out' \in Lines
    <3> DEFINE told == [cmd |-> "PUBKEY", nick |-> task[a].nick, key |-> task[a].key]
               ok == <<[cmd |-> "HELLO_OK"]>>
    <3>1. CASE Reply(a, [cmd |-> "433", nick |-> task[a].nick])
      BY <2>2, <3>1, ReplyType
    <3>2. CASE out' = [Send(CoMembers(a), told) EXCEPT ![a] = ok]
      <4>1. told \in Messages /\ ok \in Seq(Messages)
        BY <2>2, <2>3
      <4> HIDE DEF told, ok
      <4> QED
        BY <3>2, <4>1, SendType, ExceptType
    <3> QED
      BY <1>4, <3>1, <3>2 DEF HelloBind
  <2>5. StateType'
    BY <1>4, <2>1, StateKept DEF HelloBind, Reply, StateType
  <2> QED
    BY <1>4, <2>4, <2>5, TaskFields DEF HelloBind
<1> QED
  BY <1>1, <1>2, <1>3, <1>4 DEF HelloStep

LEMMA PowSetTypes ==
    ASSUME Typed, NEW a \in Addrs, PowSetStep(a)
    PROVE  Typed'
<1> USE DEF Typed
<1>1. CASE PowSetInvalid(a)
  <2>1. [cmd |-> "POW_INVALID"] \in Messages
    BY DEF Messages
  <2> QED
    BY <1>1, <2>1, ReplyType, StateKept DEF PowSetInvalid, Reading, Reply
<1>2. CASE PowSetWrite(a)
  <2>1. task[a].bits \in Nat
    BY <1>2, TaskFields, PowAssumption DEF PowSetWrite
  <2>2. [cmd |-> "POW_REQUIRED", bits |-> task[a].bits] \in Messages
    BY <2>1 DEF Messages
  <2>3. out' \in Lines
    BY <1>2, <2>2, SendType DEF PowSetWrite
  <2> QED
    BY <1>2, <2>1, <2>3, TaskFields DEF PowSetWrite, StateType
<1>3. CASE \E bits \in Difficulties : PowSetCheck(a, bits)
  <2>1. PICK bits \in Difficulties : PowSetCheck(a, bits)
    BY <1>3
  <2>2. [at |-> "powSet", bits |-> bits] \in Tasks
    BY DEF Tasks
  <2> QED
    BY <2>1, <2>2, QuietType, StateKept DEF PowSetCheck
<1> QED
  BY <1>1, <1>2, <1>3 DEF PowSetStep

LEMMA InitTyped == Init => Typed
<1>1. At("none") \in Tasks
  BY DEF Tasks
<1> QED
  BY <1>1, QuietType, PowAssumption DEF Init, Typed, StateType

LEMMA StepTyped == Typed /\ [Next]_vars => Typed'
<1> SUFFICES ASSUME Typed, [Next]_vars
             PROVE  Typed'
  OBVIOUS
<1>1. ASSUME NEW a \in Addrs, Step(a)
      PROVE  Typed'
  BY <1>1, ConnectionTypes, CommandTypes, JoinTypes, HelloTypes, PowSetTypes DEF Step
<1>2. CASE UNCHANGED vars
  BY <1>2, StateKept DEF vars, Typed
<1> QED
  BY <1>1, <1>2 DEF Next

(* Type correctness. *)
THEOREM TypeCorrect == Spec => []TypeOK
  BY InitTyped, StepTyped, TypedIsTypeOK, PTL DEF Spec

-----------------------------------------------------------------------------
(* The tables and the locals of the handlers. *)

Consistent == LocalsCurrent /\ MembersRegistered

LEMMA InitConsistent == Init => Consistent
  BY DEF Init, Consistent, LocalsCurrent, MembersRegistered, At

LEMMA ConnectionConsistent ==
    ASSUME Typed, Consistent, NEW a \in Addrs, ConnectionStep(a)
    PROVE  Consistent'
<1> USE DEF Typed, StateType, Consistent, LocalsCurrent, MembersRegistered, At, state
<1>1. CASE Accept(a)
  BY <1>1 DEF Accept
<1>2. CASE HandshakeFails(a)
  BY <1>2 DEF HandshakeFails
<1>3. CASE Register(a)
  BY <1>3 DEF Register
<1>4. CASE Disconnect(a)
  BY <1>4 DEF Disconnect
<1>5. CASE ReadError(a)
  BY <1>5 DEF ReadError
<1> QED
  BY <1>1, <1>2, <1>3, <1>4, <1>5 DEF ConnectionStep

LEMMA CommandConsistent ==
    ASSUME Typed, Consistent, NEW a \in Addrs, CommandStep(a)
    PROVE  Consistent'
<1> USE DEF Typed, StateType, Consistent, LocalsCurrent, MembersRegistered, Reading, state
<1>1. CASE UNCHANGED <<task, state>>
  BY <1>1
<1>2. ASSUME Cap(a) \/ Ping(a) \/ User(a) \/ Privmsg(a)
      PROVE  UNCHANGED <<task, state>>
  BY <1>2 DEF Cap, Ping, User, Privmsg, Reply
<1>3. ASSUME NEW n \in Nicks, Nick(a, n)
      PROVE  Consistent'
  BY <1>3, IdentityAssumption DEF Nick, Reply
<1>4. ASSUME NEW c \in Channels, Part(a, c)
      PROVE  Consistent'
  BY <1>4 DEF Part
<1>5. ASSUME NEW c \in Channels, NEW n \in Nicks, Kick(a, c, n)
      PROVE  Consistent'
  BY <1>5 DEF Kick
<1>6. ASSUME NEW c \in Channels, JoinRead(a, c)
      PROVE  Consistent'
  BY <1>6 DEF JoinRead
<1> QED
  BY <1>1, <1>2, <1>3, <1>4, <1>5, <1>6 DEF CommandStep

LEMMA HandlerConsistent ==
    ASSUME Typed, Consistent, NEW a \in Addrs,
           JoinInsert(a) \/ HelloStep(a) \/ PowSetStep(a)
    PROVE  Consistent'
<1> USE DEF Typed, StateType, Consistent, LocalsCurrent, MembersRegistered, Reading, At, state
<1>1. CASE JoinInsert(a)
  <2>1. task[a].nick \in Nicks /\ task[a].channel \in Channels
    BY <1>1, TaskFields DEF JoinInsert
  <2> QED
    BY <1>1, <2>1, IdentityAssumption DEF JoinInsert
<1>2. CASE HelloInvalid(a)
  BY <1>2 DEF HelloInvalid, Reply
<1>3. ASSUME NEW n \in Nicks, HelloCheckNick(a, n)
      PROVE  Consistent'
  BY <1>3 DEF HelloCheckNick, Reply
<1>4. CASE HelloCheckPow(a)
  BY <1>4 DEF HelloCheckPow, Reply
<1>5. CASE HelloBind(a)
  BY <1>5 DEF HelloBind, Reply
<1>6. CASE PowSetInvalid(a)
  BY <1>6 DEF PowSetInvalid, Reply
<1>7. CASE PowSetWrite(a)
  BY <1>7 DEF PowSetWrite
<1>8. ASSUME NEW bits \in Difficulties, PowSetCheck(a, bits)
      PROVE  Consistent'
  BY <1>8 DEF PowSetCheck
<1> QED
  BY <1>1, <1>2, <1>3, <1>4, <1>5, <1>6, <1>7, <1>8 DEF HelloStep, PowSetStep

LEMMA StepConsistent == Typed /\ Consistent /\ [Next]_vars => Consistent'
<1> SUFFICES ASSUME Typed, Consistent, [Next]_vars
             PROVE  Consistent'
  OBVIOUS
<1>1. CASE Next
  BY <1>1, ConnectionConsistent, CommandConsistent, HandlerConsistent DEF Next, Step
<1>2. CASE UNCHANGED vars
  BY <1>2 DEF vars, state, Consistent, LocalsCurrent, MembersRegistered
<1> QED
  BY <1>1, <1>2

LEMMA AlwaysConsistent == Spec => [](Typed /\ Consistent)
  BY InitTyped, StepTyped, InitConsistent, StepConsistent, PTL DEF Spec

(* Locals carried from one critical section to the next are never stale. *)
THEOREM LocalsStayCurrent == Spec => []LocalsCurrent
<1>1. Consistent => LocalsCurrent
  BY DEF Consistent
<1> QED
  BY <1>1, AlwaysConsistent, PTL

(* No channel keeps a member that has left. *)
THEOREM NoStrayMembers == Spec => []MembersRegistered
<1>1. Consistent => MembersRegistered
  BY DEF Consistent
<1> QED
  BY <1>1, AlwaysConsistent, PTL

-----------------------------------------------------------------------------
(* The caps. *)

From(S, ip) == {a \in S : IpOf[a] = ip}

(* The inductive form: it also counts the handshakes in flight. *)
Capped ==
    /\ Cardinality(Handshaking) <= MaxHandshakes
    /\ CapOvershoot

(* Counting clients C and handshakes H: both shrink, or one moves over. *)
LEMMA Shrink ==
    ASSUME NEW C, NEW H, IsFiniteSet(C), IsFiniteSet(H), NEW D \in SUBSET C, NEW G \in SUBSET H
    PROVE  /\ Cardinality(D) + Cardinality(G) <= Cardinality(C) + Cardinality(H)
           /\ Cardinality(G) <= Cardinality(H)
<1>1. /\ IsFiniteSet(D) /\ Cardinality(D) <= Cardinality(C)
      /\ IsFiniteSet(G) /\ Cardinality(G) <= Cardinality(H)
  BY FS_Subset
<1> QED
  BY <1>1, FS_CardinalityType

LEMMA Move ==
    ASSUME NEW C, NEW H, IsFiniteSet(C), IsFiniteSet(H), NEW a \in H \ C
    PROVE  Cardinality(C \cup {a}) + Cardinality(H \ {a}) = Cardinality(C) + Cardinality(H)
<1>1. Cardinality(C \cup {a}) = Cardinality(C) + 1
  BY FS_AddElement
<1>2. Cardinality(H \ {a}) = Cardinality(H) - 1
  BY FS_RemoveElement
<1> QED
  BY <1>1, <1>2, FS_CardinalityType

LEMMA Finite ==
    ASSUME Typed
    PROVE  /\ IsFiniteSet(clients) /\ IsFiniteSet(Handshaking)
           /\ \A ip : IsFiniteSet(From(clients, ip)) /\ IsFiniteSet(From(Handshaking, ip))
<1>1. clients \subseteq Addrs /\ Handshaking \subseteq Addrs
  BY DEF Typed, StateType, Handshaking
<1>2. \A ip : From(clients, ip) \subseteq Addrs /\ From(Handshaking, ip) \subseteq Addrs
  BY <1>1 DEF From
<1> QED
  BY <1>1, <1>2, FS_Subset, IdentityAssumption

(* What a step does to the two sets the caps are about. *)
LEMMA CapSets ==
    ASSUME Typed, Consistent, [Next]_vars
    PROVE  \/ /\ clients' \subseteq clients
              /\ Handshaking' \subseteq Handshaking
           \/ \E a \in Addrs \ Handshaking :
                 /\ Cardinality(Handshaking) < MaxHandshakes
                 /\ Cardinality(clients) < MaxTotalClients
                 /\ count_ip(IpOf[a]) < MaxClientsPerIp
                 /\ clients' = clients
                 /\ Handshaking' = Handshaking \cup {a}
           \/ \E a \in Handshaking \ clients :
                 /\ clients' = clients \cup {a}
                 /\ Handshaking' = Handshaking \ {a}
<1> USE DEF Typed, StateType, Handshaking, At, state
<1>1. ASSUME NEW a \in Addrs, Accept(a)
      PROVE  /\ a \notin Handshaking
             /\ clients' = clients
             /\ Handshaking' = Handshaking \cup {a}
  BY <1>1 DEF Accept
<1>2. ASSUME NEW a \in Addrs, Register(a)
      PROVE  /\ a \in Handshaking \ clients
             /\ clients' = clients \cup {a}
             /\ Handshaking' = Handshaking \ {a}
  BY <1>2 DEF Register, Consistent, LocalsCurrent
<1>3. ASSUME NEW a \in Addrs, HandshakeFails(a) \/ Disconnect(a) \/ ReadError(a)
      PROVE  clients' \subseteq clients /\ Handshaking' \subseteq Handshaking
  BY <1>3 DEF HandshakeFails, Disconnect, ReadError
<1>4. ASSUME NEW a \in Addrs, CommandStep(a)
      PROVE  clients' \subseteq clients /\ Handshaking' \subseteq Handshaking
  <2>1. ASSUME NEW c \in Channels, JoinRead(a, c)
        PROVE  clients' \subseteq clients /\ Handshaking' \subseteq Handshaking
    BY <2>1 DEF JoinRead
  <2>2. ASSUME NEW n \in Nicks, Nick(a, n)
        PROVE  clients' = clients /\ UNCHANGED task
    BY <2>2 DEF Nick, Reading, Reply
  <2>3. ASSUME NEW c \in Channels, Part(a, c) \/ \E n \in Nicks : Kick(a, c, n)
        PROVE  clients' = clients /\ UNCHANGED task
    BY <2>3 DEF Part, Kick, Reading
  <2>4. ASSUME Cap(a) \/ Ping(a) \/ User(a) \/ Privmsg(a)
        PROVE  clients' = clients /\ UNCHANGED task
    BY <2>4 DEF Cap, Ping, User, Privmsg, Reply, Reading
  <2> QED
    BY <1>4, <2>1, <2>2, <2>3, <2>4 DEF CommandStep
<1>5. ASSUME NEW a \in Addrs, JoinInsert(a) \/ HelloStep(a) \/ PowSetStep(a)
      PROVE  clients' \subseteq clients /\ Handshaking' \subseteq Handshaking
  <2>1. CASE JoinInsert(a)
    BY <2>1 DEF JoinInsert
  <2>2. CASE HelloStep(a)
    <3>1. CASE HelloInvalid(a)
      BY <3>1 DEF HelloInvalid, Reply, Reading
    <3>2. ASSUME NEW n \in Nicks, HelloCheckNick(a, n)
          PROVE  clients' \subseteq clients /\ Handshaking' \subseteq Handshaking
      BY <3>2 DEF HelloCheckNick, Reply
    <3>3. CASE HelloCheckPow(a)
      BY <3>3 DEF HelloCheckPow, Reply
    <3>4. CASE HelloBind(a)
      BY <3>4 DEF HelloBind, Reply
    <3> QED
      BY <2>2, <3>1, <3>2, <3>3, <3>4 DEF HelloStep
  <2>3. CASE PowSetStep(a)
    BY <2>3 DEF PowSetStep, PowSetInvalid, PowSetCheck, PowSetWrite, Reply, Reading
  <2> QED
    BY <1>5, <2>1, <2>2, <2>3
<1>6. CASE UNCHANGED vars
  BY <1>6 DEF vars
<1>7. ASSUME NEW a \in Addrs, Accept(a)
      PROVE  /\ Cardinality(Handshaking) < MaxHandshakes
             /\ Cardinality(clients) < MaxTotalClients
             /\ count_ip(IpOf[a]) < MaxClientsPerIp
  BY <1>7 DEF Accept
<1> QED
  BY <1>1, <1>2, <1>3, <1>4, <1>5, <1>6, <1>7 DEF Next, Step, ConnectionStep

LEMMA InitCapped == Init => Capped
<1> SUFFICES ASSUME Init
             PROVE  Capped
  OBVIOUS
<1>1. clients = {} /\ Handshaking = {}
  BY DEF Init, Handshaking, At
<1>2. \A ip : {a \in clients : IpOf[a] = ip} = {} /\ {a \in Handshaking : IpOf[a] = ip} = {}
  BY <1>1
<1> QED
  BY <1>1, <1>2, FS_EmptySet, CapAssumption DEF Capped, CapOvershoot, count_ip

LEMMA StepCapped == Typed /\ Consistent /\ Capped /\ [Next]_vars => Capped'
<1> SUFFICES ASSUME Typed, Consistent, Capped, [Next]_vars
             PROVE  Capped'
  OBVIOUS
<1> DEFINE Load(C, H, cap) ==
             Cardinality(C) + Cardinality(H) <= cap - 1 + MaxHandshakes
<1> USE Finite, CapAssumption
<1>1. /\ Cardinality(Handshaking) <= MaxHandshakes
      /\ Load(clients, Handshaking, MaxTotalClients)
      /\ \A ip \in {IpOf[a] : a \in Addrs} :
             Load(From(clients, ip), From(Handshaking, ip), MaxClientsPerIp)
  BY DEF Capped, CapOvershoot, count_ip, From
<1>2. SUFFICES /\ Cardinality(Handshaking') <= MaxHandshakes
               /\ Load(clients', Handshaking', MaxTotalClients)
               /\ \A ip \in {IpOf[a] : a \in Addrs} :
                      Load(From(clients', ip), From(Handshaking', ip), MaxClientsPerIp)
  BY DEF Capped, CapOvershoot, count_ip, From
<1>3. CASE clients' \subseteq clients /\ Handshaking' \subseteq Handshaking
  <2>1. \A ip : /\ From(clients', ip) \subseteq From(clients, ip)
               /\ From(Handshaking', ip) \subseteq From(Handshaking, ip)
    BY <1>3 DEF From
  <2>2. Cardinality(Handshaking') <= MaxHandshakes
    BY <1>1, <1>3, FS_Subset, FS_CardinalityType
  <2>3. Load(clients', Handshaking', MaxTotalClients)
    <3>1. Cardinality(clients') + Cardinality(Handshaking')
             <= Cardinality(clients) + Cardinality(Handshaking)
      BY <1>3, Shrink
    <3> QED
      BY <1>1, <1>3, <3>1, FS_Subset, FS_CardinalityType
  <2>4. ASSUME NEW ip \in {IpOf[a] : a \in Addrs}
        PROVE  Load(From(clients', ip), From(Handshaking', ip), MaxClientsPerIp)
    <3>1. Cardinality(From(clients', ip)) + Cardinality(From(Handshaking', ip))
             <= Cardinality(From(clients, ip)) + Cardinality(From(Handshaking, ip))
      BY <2>1, Shrink
    <3> QED
      BY <1>1, <2>1, <3>1, FS_Subset, FS_CardinalityType
  <2> QED
    BY <2>2, <2>3, <2>4
<1>4. ASSUME NEW a \in Addrs \ Handshaking,
             Cardinality(Handshaking) < MaxHandshakes,
             Cardinality(clients) < MaxTotalClients,
             count_ip(IpOf[a]) < MaxClientsPerIp,
             clients' = clients,
             Handshaking' = Handshaking \cup {a}
      PROVE  /\ Cardinality(Handshaking') <= MaxHandshakes
             /\ Load(clients', Handshaking', MaxTotalClients)
             /\ \A ip \in {IpOf[b] : b \in Addrs} :
                    Load(From(clients', ip), From(Handshaking', ip), MaxClientsPerIp)
  <2>1. Cardinality(Handshaking') = Cardinality(Handshaking) + 1
    BY <1>4, FS_AddElement
  <2>2. Cardinality(Handshaking') <= MaxHandshakes
    BY <1>4, <2>1, FS_CardinalityType
  <2>3. Load(clients', Handshaking', MaxTotalClients)
    BY <1>4, <2>1, FS_CardinalityType
  <2>4. ASSUME NEW ip \in {IpOf[b] : b \in Addrs}
        PROVE  Load(From(clients', ip), From(Handshaking', ip), MaxClientsPerIp)
    <3>1. CASE ip # IpOf[a]
      <4>1. From(Handshaking', ip) = From(Handshaking, ip)
        BY <1>4, <3>1 DEF From
      <4> QED
        BY <1>1, <1>4, <4>1
    <3>2. CASE ip = IpOf[a]
      <4>1. /\ From(Handshaking', ip) = From(Handshaking, ip) \cup {a}
            /\ a \notin From(Handshaking, ip)
        BY <1>4, <3>2 DEF From
      <4>2. Cardinality(From(Handshaking', ip)) = Cardinality(From(Handshaking, ip)) + 1
        BY <4>1, FS_AddElement
      <4>3. From(Handshaking, ip) \subseteq Handshaking
        BY DEF From
      <4>4. Cardinality(From(Handshaking, ip)) <= Cardinality(Handshaking)
        BY <4>3, FS_Subset
      <4>5. Cardinality(From(clients', ip)) < MaxClientsPerIp
        BY <1>4, <3>2 DEF count_ip, From
      <4>6. Cardinality(From(clients', ip)) \in Nat
        BY <1>4, FS_CardinalityType
      <4> QED
        BY <1>4, <4>2, <4>4, <4>5, <4>6, FS_CardinalityType
    <3> QED
      BY <3>1, <3>2
  <2> QED
    BY <2>2, <2>3, <2>4
<1>5. ASSUME NEW a \in Handshaking \ clients,
             clients' = clients \cup {a},
             Handshaking' = Handshaking \ {a}
      PROVE  /\ Cardinality(Handshaking') <= MaxHandshakes
             /\ Load(clients', Handshaking', MaxTotalClients)
             /\ \A ip \in {IpOf[b] : b \in Addrs} :
                    Load(From(clients', ip), From(Handshaking', ip), MaxClientsPerIp)
  <2>1. Cardinality(Handshaking') <= MaxHandshakes
    <3>1. Cardinality(Handshaking') <= Cardinality(Handshaking)
      BY <1>5, FS_Subset
    <3>2. Cardinality(Handshaking') \in Nat /\ Cardinality(Handshaking) \in Nat
      BY <1>5, FS_Subset, FS_CardinalityType
    <3> QED
      BY <1>1, <3>1, <3>2, CapAssumption
  <2>2. Load(clients', Handshaking', MaxTotalClients)
    BY <1>1, <1>5, Move
  <2>3. ASSUME NEW ip \in {IpOf[b] : b \in Addrs}
        PROVE  Load(From(clients', ip), From(Handshaking', ip), MaxClientsPerIp)
    <3>1. CASE ip # IpOf[a]
      <4>1. From(clients', ip) = From(clients, ip) /\ From(Handshaking', ip) = From(Handshaking, ip)
        BY <1>5, <3>1 DEF From
      <4> QED
        BY <1>1, <4>1
    <3>2. CASE ip = IpOf[a]
      <4>1. /\ From(clients', ip) = From(clients, ip) \cup {a}
            /\ From(Handshaking', ip) = From(Handshaking, ip) \ {a}
            /\ a \in From(Handshaking, ip) \ From(clients, ip)
        BY <1>5, <3>2 DEF From
      <4> QED
        BY <1>1, <4>1, Move
    <3> QED
      BY <3>1, <3>2
  <2> QED
    BY <2>1, <2>2, <2>3
<1> QED
  BY <1>3, <1>4, <1>5, CapSets

(* The client table exceeds a cap by the handshakes in flight at most. *)
THEOREM CapOvershootBounded == Spec => []CapOvershoot
<1>1. Capped => CapOvershoot
  BY DEF Capped
<1> QED
  BY <1>1, InitTyped, StepTyped, InitConsistent, StepConsistent, InitCapped, StepCapped, PTL
  DEF Spec

-----------------------------------------------------------------------------
(* Bindings. *)

BindingKept ==
    \A n \in Nicks :
        nickPubkeys[n] \notin {NoKey, nickPubkeys'[n]} =>
            /\ nickPubkeys'[n] = NoKey
            /\ \E a \in clients \ clients' : nick[a] = n

LEMMA StepBinding == Typed /\ Consistent /\ [Next]_vars => [BindingKept]_vars
<1> SUFFICES ASSUME Typed, Consistent, Next
             PROVE  BindingKept
  OBVIOUS
<1> USE DEF Typed, StateType
<1>1. CASE nickPubkeys' = nickPubkeys
  BY <1>1 DEF BindingKept
<1>2. ASSUME NEW a \in Addrs, Disconnect(a)
      PROVE  BindingKept
  <2>1. a \in clients \ clients'
    BY <1>2 DEF Disconnect, Consistent, LocalsCurrent
  <2> QED
    BY <1>2, <2>1 DEF Disconnect, BindingKept
<1>3. ASSUME NEW a \in Addrs, HelloBind(a)
      PROVE  BindingKept
  <2>1. task[a].nick \in Nicks
    BY <1>3, TaskFields DEF HelloBind
  <2> QED
    BY <1>3, <2>1 DEF HelloBind, MayBind, Reply, state, BindingKept
<1>4. ASSUME NEW a \in Addrs,
             Accept(a) \/ HandshakeFails(a) \/ Register(a) \/ ReadError(a)
      PROVE  nickPubkeys' = nickPubkeys
  BY <1>4 DEF Accept, HandshakeFails, Register, ReadError, state
<1>5. ASSUME NEW a \in Addrs, CommandStep(a)
      PROVE  nickPubkeys' = nickPubkeys
  <2>1. ASSUME NEW c \in Channels, JoinRead(a, c)
        PROVE  nickPubkeys' = nickPubkeys
    BY <2>1 DEF JoinRead, state
  <2>2. ASSUME NEW n \in Nicks, Nick(a, n)
        PROVE  nickPubkeys' = nickPubkeys
    BY <2>2 DEF Nick, Reply, state
  <2>3. ASSUME NEW c \in Channels, Part(a, c) \/ \E n \in Nicks : Kick(a, c, n)
        PROVE  nickPubkeys' = nickPubkeys
    BY <2>3 DEF Part, Kick
  <2>4. ASSUME Cap(a) \/ Ping(a) \/ User(a) \/ Privmsg(a)
        PROVE  nickPubkeys' = nickPubkeys
    BY <2>4 DEF Cap, Ping, User, Privmsg, Reply, state
  <2> QED
    BY <1>5, <2>1, <2>2, <2>3, <2>4 DEF CommandStep
<1>6. ASSUME NEW a \in Addrs, JoinInsert(a) \/ PowSetStep(a)
      PROVE  nickPubkeys' = nickPubkeys
  BY <1>6 DEF JoinInsert, PowSetStep, PowSetInvalid, PowSetCheck, PowSetWrite, Reply, state
<1>7. ASSUME NEW a \in Addrs,
             HelloInvalid(a) \/ HelloCheckPow(a) \/ \E n \in Nicks : HelloCheckNick(a, n)
      PROVE  nickPubkeys' = nickPubkeys
  BY <1>7 DEF HelloInvalid, HelloCheckPow, HelloCheckNick, Reply, state
<1> QED
  BY <1>1, <1>2, <1>3, <1>4, <1>5, <1>6, <1>7 DEF Next, Step, ConnectionStep, HelloStep

(* A nick never passes from one key to another. *)
THEOREM BindingsStable == Spec => BindingStable
<1>1. Spec => [][BindingKept]_vars
  BY AlwaysConsistent, StepBinding, PTL DEF Spec
<1> QED
  BY <1>1 DEF BindingStable, BindingKept

-----------------------------------------------------------------------------
(* Part two, the exchange.  What the client heeds of what a critical        *)
(* section sends it.                                                       *)

Runs(f, lines) ==
    f = [i \in 0..Len(lines) |->
            IF i = 0 THEN <<>>
            ELSE IF Heeded(lines[i]) THEN Append(f[i - 1], lines[i]) ELSE f[i - 1]]

LEMMA RunStep ==
    ASSUME NEW f, NEW lines, Runs(f, lines), NEW i \in 0..Len(lines)
    PROVE  f[i] = IF i = 0 THEN <<>>
                  ELSE IF Heeded(lines[i]) THEN Append(f[i - 1], lines[i]) ELSE f[i - 1]
  BY DEF Runs

LEMMA HeededRun ==
    ASSUME NEW lines, NEW g, Runs(g, lines)
    PROVE  \E f : Runs(f, lines) /\ HeededOf(lines) = f[Len(lines)]
<1>1. PICK f : f = CHOOSE h : Runs(h, lines)
  OBVIOUS
<1>2. Runs(f, lines)
  BY <1>1
<1>3. HeededOf(lines) = f[Len(lines)]
  BY <1>1 DEF HeededOf, Runs
<1> QED
  BY <1>2, <1>3

LEMMA HeededNone == HeededOf(<<>>) = <<>>
<1> DEFINE g == [i \in 0..0 |-> <<>>]
<1>1. Runs(g, <<>>)
  BY DEF Runs
<1>2. PICK f : Runs(f, <<>>) /\ HeededOf(<<>>) = f[0]
  <2>1. Len(<<>>) = 0
    OBVIOUS
  <2> QED
    BY <1>1, <2>1, HeededRun
<1>3. f[0] = <<>>
  BY <1>2 DEF Runs
<1> QED
  BY <1>2, <1>3

LEMMA HeededOne ==
    ASSUME NEW m
    PROVE  HeededOf(<<m>>) = IF Heeded(m) THEN <<m>> ELSE <<>>
<1> DEFINE heard == IF Heeded(m) THEN <<m>> ELSE <<>>
           g == [i \in 0..1 |-> IF i = 0 THEN <<>> ELSE heard]
<1>1. Len(<<m>>) = 1 /\ <<m>>[1] = m /\ Append(<<>>, m) = <<m>>
  OBVIOUS
<1>2. Runs(g, <<m>>)
  <2>1. ASSUME NEW i \in 0..1
        PROVE  g[i] = IF i = 0 THEN <<>>
                      ELSE IF Heeded(<<m>>[i]) THEN Append(g[i - 1], <<m>>[i]) ELSE g[i - 1]
    <3>1. CASE i = 0
      BY <3>1
    <3>2. CASE i = 1
      BY <1>1, <3>2
    <3> QED
      BY <3>1, <3>2
  <2> QED
    BY <1>1, <2>1 DEF Runs
<1>3. PICK f : Runs(f, <<m>>) /\ HeededOf(<<m>>) = f[1]
  BY <1>1, <1>2, HeededRun
<1>4. f[0] = <<>> /\ f[1] = IF Heeded(m) THEN Append(f[0], m) ELSE f[0]
  <2> HIDE DEF g, heard
  <2>1. 0 \in 0..Len(<<m>>) /\ 1 \in 0..Len(<<m>>)
    BY <1>1
  <2>2. f[0] = <<>>
    BY <1>3, <2>1, RunStep
  <2>3. f[1] = IF 1 = 0 THEN <<>>
               ELSE IF Heeded(<<m>>[1]) THEN Append(f[1 - 1], <<m>>[1]) ELSE f[1 - 1]
    BY <1>3, <2>1, RunStep
  <2>4. 1 # 0 /\ 1 - 1 = 0
    OBVIOUS
  <2> QED
    BY <1>1, <2>2, <2>3, <2>4
<1> QED
  BY <1>1, <1>3, <1>4

LEMMA HeededTwo ==
    ASSUME NEW m, NEW o, ~Heeded(o)
    PROVE  HeededOf(<<m, o>>) = IF Heeded(m) THEN <<m>> ELSE <<>>
<1> DEFINE heard == IF Heeded(m) THEN <<m>> ELSE <<>>
           g == [i \in 0..2 |-> IF i = 0 THEN <<>> ELSE heard]
<1>1. /\ Len(<<m, o>>) = 2 /\ <<m, o>>[1] = m /\ <<m, o>>[2] = o
      /\ Append(<<>>, m) = <<m>>
  OBVIOUS
<1>2. Runs(g, <<m, o>>)
  <2>1. ASSUME NEW i \in 0..2
        PROVE  g[i] = IF i = 0 THEN <<>>
                      ELSE IF Heeded(<<m, o>>[i]) THEN Append(g[i - 1], <<m, o>>[i])
                      ELSE g[i - 1]
    <3>1. CASE i = 0
      BY <3>1
    <3>2. CASE i = 1
      BY <1>1, <3>2
    <3>3. CASE i = 2
      BY <1>1, <3>3
    <3> QED
      BY <3>1, <3>2, <3>3
  <2> QED
    BY <1>1, <2>1 DEF Runs
<1>3. PICK f : Runs(f, <<m, o>>) /\ HeededOf(<<m, o>>) = f[2]
  BY <1>1, <1>2, HeededRun
<1>4. f[0] = <<>> /\ f[1] = IF Heeded(m) THEN Append(f[0], m) ELSE f[0]
  <2> HIDE DEF g, heard
  <2>1. 0 \in 0..Len(<<m, o>>) /\ 1 \in 0..Len(<<m, o>>)
    BY <1>1
  <2>2. f[0] = <<>>
    BY <1>3, <2>1, RunStep
  <2>3. f[1] = IF 1 = 0 THEN <<>>
               ELSE IF Heeded(<<m, o>>[1]) THEN Append(f[1 - 1], <<m, o>>[1]) ELSE f[1 - 1]
    BY <1>3, <2>1, RunStep
  <2>4. 1 # 0 /\ 1 - 1 = 0
    OBVIOUS
  <2> QED
    BY <1>1, <2>2, <2>3, <2>4
<1>5. f[2] = f[1]
  <2> HIDE DEF g, heard
  <2>1. 2 \in 0..Len(<<m, o>>)
    BY <1>1
  <2>2. f[2] = IF 2 = 0 THEN <<>>
               ELSE IF Heeded(<<m, o>>[2]) THEN Append(f[2 - 1], <<m, o>>[2]) ELSE f[2 - 1]
    BY <1>3, <2>1, RunStep
  <2>3. 2 # 0 /\ 2 - 1 = 1
    OBVIOUS
  <2> QED
    BY <1>1, <2>2, <2>3
<1> QED
  BY <1>1, <1>3, <1>4, <1>5

-----------------------------------------------------------------------------
(* The inductive invariant, first part: what is on the wires and in the     *)
(* inboxes, and that whatever is kept, said or known about a nick is about  *)
(* the one user who has it.                                                 *)

Strong(a) == check_difficulty(NickOf[a], KeyOf[a], InitialBits)

Says(a) == [cmd |-> "PUBKEY", nick |-> NickOf[a], key |-> KeyOf[a]]
Joining(a, c) == [cmd |-> "JOIN", nick |-> NickOf[a], channel |-> c]
Parting(a, c) == [cmd |-> "PART", nick |-> NickOf[a], channel |-> c]
Quitting(a) == [cmd |-> "QUIT", nick |-> NickOf[a]]

Commands == [cmd : {"NICK", "USER", "HELLO"}] \cup [cmd : {"JOIN", "PART"}, channel : Channels]

Presences == [cmd : {"JOIN", "PART"}, nick : Nicks, channel : Channels] \cup [cmd : {"QUIT"}, nick : Nicks]
Announcements == {Says(a) : a \in {b \in Addrs : Strong(b)}}
HeededLines == Presences \cup Announcements

ClientTyped ==
    /\ phase \in [Addrs -> {"off", "hello", "join", "on"}]
    /\ room \in [Addrs -> Channels]
    /\ wire \in [Addrs -> Seq(Commands)] /\ inbox \in [Addrs -> Seq(HeededLines)]
    /\ known \in [Addrs -> [Nicks -> Keys \cup {NoKey}]]
    /\ left \in [Addrs -> Seq(Nicks)]
    /\ sessions \in [Addrs -> Nat] /\ switched \in [Addrs -> BOOLEAN]
    /\ wiped \in [Addrs -> SUBSET Nicks]

(* The server's side. *)
Served(a) ==
    /\ nick[a] \in {NoNick, NickOf[a]}
    /\ task[a].at \in {"helloPow", "helloBind"} => task[a].key = KeyOf[a]
    /\ task[a].at = "helloBind" => Strong(a)
    /\ task[a].at # "powSet"
    /\ pubkey[a] \in {NoKey, KeyOf[a]}
    /\ pubkey[a] # NoKey => a \in clients /\ Strong(a) /\ nick[a] # NoNick
    /\ nickPubkeys[NickOf[a]] = pubkey[a]

(* The client's side. *)
KnowsTheirs(a) ==
    /\ phase[a] = "off" => inbox[a] = <<>> /\ left[a] = <<>> /\ known[a] = NothingKnown
    /\ phase[a] # "off" => task[a].at # "none"
    /\ \A n \in Nicks : known[a][n] # NoKey =>
           \E b \in Addrs : n = NickOf[b] /\ known[a][n] = KeyOf[b] /\ Strong(b)

Identified ==
    powRequired = InitialBits /\ \A a \in Addrs : Served(a) /\ KnowsTheirs(a)

Sound == Typed /\ Consistent /\ ClientTyped /\ Identified

-----------------------------------------------------------------------------
(* Mail: what a critical section of the server adds to the inboxes.         *)

Mail(to, line) ==
    inbox' = [b \in Addrs |-> IF b \in to /\ phase[b] # "off" THEN Append(inbox[b], line)
                              ELSE inbox[b]]

LEMMA Inboxes ==
    ASSUME Sound, NEW b \in Addrs
    PROVE  /\ inbox[b] \in Seq(HeededLines)
           /\ \A x : inbox[b] \o <<x>> = Append(inbox[b], x)
           /\ inbox[b] \o <<>> = inbox[b]
           /\ phase[b] = "off" => inbox[b] = <<>>
<1>1. inbox[b] \in Seq(HeededLines)
  BY DEF Sound, ClientTyped
<1>2. phase[b] = "off" => inbox[b] = <<>>
  BY DEF Sound, Identified, KnowsTheirs
<1>3. \A x : inbox[b] \o <<x>> = Append(inbox[b], x)
  BY <1>1
<1>4. inbox[b] \o <<>> = inbox[b]
  BY <1>1
<1> QED
  BY <1>1, <1>2, <1>3, <1>4

(* A heeded line that is sent to some clients reaches them. *)
LEMMA MailSent ==
    ASSUME Sound, Deliver, NEW to, NEW line, Heeded(line),
           \A b \in Addrs : HeededOf(out'[b]) = IF b \in to THEN <<line>> ELSE <<>>
    PROVE  Mail(to, line)
<1>1. ASSUME NEW b \in Addrs
      PROVE  inbox'[b] = IF b \in to /\ phase[b] # "off" THEN Append(inbox[b], line)
                         ELSE inbox[b]
  <2>1. inbox'[b] = IF phase[b] = "off" THEN <<>> ELSE inbox[b] \o HeededOf(out'[b])
    BY DEF Deliver
  <2>2. CASE phase[b] = "off"
    BY <2>1, <2>2, Inboxes
  <2>3. CASE phase[b] # "off" /\ b \in to
    BY <2>1, <2>3, Inboxes
  <2>4. CASE phase[b] # "off" /\ b \notin to
    BY <2>1, <2>4, Inboxes
  <2> QED
    BY <2>2, <2>3, <2>4
<1>2. inbox' = [b \in Addrs |-> inbox'[b]]
  BY DEF Deliver
<1> QED
  BY <1>1, <1>2 DEF Mail

LEMMA NothingSent ==
    ASSUME Sound, Deliver, \A b \in Addrs : HeededOf(out'[b]) = <<>>
    PROVE  inbox' = inbox
<1>1. ASSUME NEW b \in Addrs
      PROVE  inbox'[b] = inbox[b]
  <2>1. inbox'[b] = IF phase[b] = "off" THEN <<>> ELSE inbox[b] \o HeededOf(out'[b])
    BY DEF Deliver
  <2> QED
    BY <2>1, Inboxes
<1>2. inbox' = [b \in Addrs |-> inbox'[b]] /\ inbox = [b \in Addrs |-> inbox[b]]
  BY DEF Deliver, Sound, ClientTyped
<1> QED
  BY <1>1, <1>2

LEMMA SentTo ==
    ASSUME NEW to, NEW m, out' = Send(to, m), NEW b \in Addrs
    PROVE  HeededOf(out'[b]) = IF b \in to \cap clients /\ Heeded(m) THEN <<m>> ELSE <<>>
<1>1. CASE b \in to \cap clients
  <2>1. out'[b] = <<m>>
    BY <1>1 DEF Send
  <2> QED
    BY <1>1, <2>1, HeededOne
<1>2. CASE b \notin to \cap clients
  <2>1. out'[b] = <<>>
    BY <1>2 DEF Send
  <2> QED
    BY <1>2, <2>1, HeededNone
<1> QED
  BY <1>1, <1>2

LEMMA NobodySent == ASSUME out' = Quiet, NEW b \in Addrs PROVE HeededOf(out'[b]) = <<>>
<1>1. ~Heeded([cmd |-> "PONG"])
  BY DEF Heeded
<1> QED
  BY <1>1, SentTo DEF Quiet

(* Replies to the sender are not heeded. *)
LEMMA ReplySent ==
    ASSUME NEW a, NEW m, ~Heeded(m), Reply(a, m), NEW b \in Addrs
    PROVE  HeededOf(out'[b]) = <<>>
  BY SentTo DEF Reply

LEMMA Members ==
    ASSUME Sound, NEW a \in Addrs
    PROVE  /\ \A c \in Channels : channels[c] \subseteq clients
           /\ \A c \in Channels : a \in channels[c] => nick[a] = NickOf[a]
           /\ CoMembers(a) \subseteq clients \ {a}
           /\ a \in clients <=> task[a].at \notin {"none", "handshake"}
           /\ NickOf[a] \in Nicks /\ NickOf[a] # NoNick /\ KeyOf[a] \in Keys /\ KeyOf[a] # NoKey
<1>1. /\ \A c \in Channels : channels[c] \subseteq clients
      /\ \A c \in Channels : a \in channels[c] => nick[a] # NoNick
      /\ a \in clients <=> task[a].at \notin {"none", "handshake"}
  BY DEF Sound, Consistent, MembersRegistered, LocalsCurrent
<1>2. NickOf[a] \in Nicks /\ NickOf[a] # NoNick /\ KeyOf[a] \in Keys /\ KeyOf[a] # NoKey
  BY ClientAssumption, IdentityAssumption
<1>3. nick[a] \in {NoNick, NickOf[a]}
  BY DEF Sound, Identified, Served
<1> QED
  BY <1>1, <1>2, <1>3 DEF CoMembers

(* The locals of a handler are about its own user. *)
LEMMA Locals ==
    ASSUME Sound, NEW a \in Addrs
    PROVE  /\ task[a].at \in {"join", "helloPow", "helloBind"} => task[a].nick = NickOf[a]
           /\ task[a].at \in {"join", "helloPow", "helloBind"} => nick[a] = NickOf[a]
           /\ task[a].at = "join" => task[a].channel \in Channels
<1>1. task[a].at \in {"join", "helloPow", "helloBind"} => nick[a] = task[a].nick
  BY DEF Sound, Consistent, LocalsCurrent
<1>2. task[a].at \in {"join", "helloPow", "helloBind"} => task[a].nick \in Nicks
  BY TaskFields DEF Sound
<1>3. nick[a] \in {NoNick, NickOf[a]}
  BY DEF Sound, Identified, Served
<1> QED
  BY <1>1, <1>2, <1>3, TaskFields, IdentityAssumption DEF Sound

LEMMA PartMail ==
    ASSUME Sound, NEW a \in Addrs, NEW c \in Channels, Part(a, c), Deliver
    PROVE  Mail(channels[c] \ {a}, Parting(a, c))
<1> DEFINE line == [cmd |-> "PART", nick |-> nick[a], channel |-> c]
<1>1. line = Parting(a, c) /\ Heeded(Parting(a, c))
  <2>1. nick[a] = NickOf[a]
    BY DEF Part, Sound, Identified, Served
  <2> QED
    BY <2>1 DEF Parting, Heeded
<1>2. out' = Send(channels[c] \ {a}, Parting(a, c))
  BY <1>1 DEF Part
<1>3. (channels[c] \ {a}) \cap clients = channels[c] \ {a}
  BY Members
<1>4. ASSUME NEW b \in Addrs
      PROVE  HeededOf(out'[b]) = IF b \in channels[c] \ {a} THEN <<Parting(a, c)>> ELSE <<>>
  BY <1>1, <1>2, <1>3, SentTo
<1> QED
  BY <1>1, <1>4, MailSent

LEMMA JoinMail ==
    ASSUME Sound, NEW a \in Addrs, JoinInsert(a), Deliver
    PROVE  /\ task[a].channel \in Channels /\ a \in clients /\ nick[a] = NickOf[a]
           /\ channels' = [channels EXCEPT ![task[a].channel] = @ \cup {a}]
           /\ Mail(channels[task[a].channel] \cup {a}, Joining(a, task[a].channel))
<1> DEFINE c == task[a].channel
           to == channels[c] \cup {a}
           line == Joining(a, c)
           listed == {nick[b] : b \in to \cap clients} \ {NoNick}
           names == [cmd |-> "NAMES", channel |-> c, names |-> listed]
<1>1. c \in Channels /\ task[a].nick = NickOf[a] /\ a \in clients /\ nick[a] = NickOf[a]
  BY Locals, Members DEF JoinInsert
<1>2. out' = [Send(to, line) EXCEPT ![a] = <<line, names>>]
  BY <1>1 DEF JoinInsert, Joining
<1>3. Heeded(line) /\ ~Heeded(names)
  BY DEF Heeded, Joining
<1>4. to \cap clients = to
  BY <1>1, Members
<1> HIDE DEF c, names, line
<1>5. ASSUME NEW b \in Addrs
      PROVE  HeededOf(out'[b]) = IF b \in to THEN <<line>> ELSE <<>>
  <2>1. CASE b = a
    <3>1. out'[b] = <<line, names>>
      BY <1>2, <2>1 DEF Send
    <3> QED
      BY <1>3, <2>1, <3>1, HeededTwo
  <2>2. CASE b # a
    <3>1. out'[b] = IF b \in to THEN <<line>> ELSE <<>>
      BY <1>2, <1>4, <2>2 DEF Send
    <3> QED
      BY <1>3, <3>1, HeededOne, HeededNone
  <2> QED
    BY <2>1, <2>2
<1>6. Mail(to, line)
  BY <1>3, <1>5, MailSent
<1> QED
  BY <1>1, <1>6 DEF JoinInsert, c, line

LEMMA BindMail ==
    ASSUME Sound, NEW a \in Addrs, HelloBind(a), Deliver
    PROVE  /\ Strong(a) /\ a \in clients /\ nick[a] = NickOf[a]
           /\ nickPubkeys' = [nickPubkeys EXCEPT ![NickOf[a]] = KeyOf[a]]
           /\ pubkey' = [pubkey EXCEPT ![a] = KeyOf[a]]
           /\ UNCHANGED <<clients, nick, channels, powRequired>>
           /\ Mail(CoMembers(a), Says(a))
<1>1. /\ Strong(a) /\ a \in clients /\ nick[a] = NickOf[a]
      /\ task[a].nick = NickOf[a] /\ task[a].key = KeyOf[a]
      /\ nickPubkeys[NickOf[a]] \in {NoKey, KeyOf[a]}
  BY Locals, Members DEF HelloBind, Sound, Identified, Served
<1>2. /\ nickPubkeys' = [nickPubkeys EXCEPT ![NickOf[a]] = KeyOf[a]]
      /\ pubkey' = [pubkey EXCEPT ![a] = KeyOf[a]]
      /\ UNCHANGED <<clients, nick, channels, powRequired>>
      /\ out' = [Send(CoMembers(a), Says(a)) EXCEPT ![a] = <<[cmd |-> "HELLO_OK"]>>]
  BY <1>1 DEF HelloBind, MayBind, Says
<1>3. Heeded(Says(a)) /\ ~Heeded([cmd |-> "HELLO_OK"])
  BY DEF Heeded, Says
<1>4. CoMembers(a) \cap clients = CoMembers(a) /\ a \notin CoMembers(a)
  BY Members
<1>5. ASSUME NEW b \in Addrs
      PROVE  HeededOf(out'[b]) = IF b \in CoMembers(a) THEN <<Says(a)>> ELSE <<>>
  <2>1. CASE b = a
    <3>1. out'[b] = <<[cmd |-> "HELLO_OK"]>>
      BY <1>2, <2>1 DEF Send
    <3> QED
      BY <1>3, <1>4, <2>1, <3>1, HeededOne
  <2>2. CASE b # a
    <3>1. out'[b] = IF b \in CoMembers(a) THEN <<Says(a)>> ELSE <<>>
      BY <1>2, <1>4, <2>2 DEF Send
    <3> QED
      BY <1>3, <3>1, HeededOne, HeededNone
  <2> QED
    BY <2>1, <2>2
<1>6. Mail(CoMembers(a), Says(a))
  BY <1>3, <1>5, MailSent
<1> QED
  BY <1>1, <1>2, <1>6

LEMMA QuitMail ==
    ASSUME Sound, NEW a \in Addrs, Disconnect(a), Deliver
    PROVE  /\ nickPubkeys' = [nickPubkeys EXCEPT ![NickOf[a]] = NoKey]
           /\ channels' = [c \in Channels |-> channels[c] \ {a}]
           /\ Mail(CoMembers(a), Quitting(a))
<1>1. CASE nick[a] = NoNick
  <2>1. out' = Quiet /\ UNCHANGED <<channels, nickPubkeys>>
    BY <1>1 DEF Disconnect
  <2>2. nickPubkeys[NickOf[a]] = NoKey
    BY <1>1 DEF Sound, Identified, Served
  <2>3. \A c \in Channels : a \notin channels[c]
    BY <1>1, Members
  <2>4. inbox' = inbox
    BY <2>1, NobodySent, NothingSent
  <2>5. CoMembers(a) = {}
    BY <2>3 DEF CoMembers
  <2>6. Mail(CoMembers(a), Quitting(a))
    BY <2>4, <2>5 DEF Mail, Sound, ClientTyped
  <2>7. nickPubkeys' = [nickPubkeys EXCEPT ![NickOf[a]] = NoKey]
    BY <2>1, <2>2 DEF Sound, Typed, StateType
  <2>8. channels' = [c \in Channels |-> channels[c] \ {a}]
    <3>1. channels \in [Channels -> SUBSET Addrs]
      BY DEF Sound, Typed, StateType
    <3>2. \A c \in Channels : channels[c] \ {a} = channels[c]
      BY <2>3
    <3> QED
      BY <2>1, <3>1, <3>2
  <2> QED
    BY <2>6, <2>7, <2>8
<1>2. CASE nick[a] # NoNick
  <2>1. nick[a] = NickOf[a]
    BY <1>2 DEF Sound, Identified, Served
  <2>2. /\ nickPubkeys' = [nickPubkeys EXCEPT ![NickOf[a]] = NoKey]
        /\ channels' = [c \in Channels |-> channels[c] \ {a}]
        /\ out' = Send(CoMembers(a), Quitting(a))
    BY <1>2, <2>1 DEF Disconnect, Quitting
  <2>3. Heeded(Quitting(a))
    BY DEF Heeded, Quitting
  <2>4. CoMembers(a) \cap clients = CoMembers(a)
    BY Members
  <2>5. Mail(CoMembers(a), Quitting(a))
    BY <2>2, <2>3, <2>4, SentTo, MailSent
  <2> QED
    BY <2>2, <2>5
<1> QED
  BY <1>1, <1>2

(* The other commands and sections send nothing a client heeds. *)
Unheard(a) ==
    \/ Nick(a, NickOf[a]) \/ User(a) \/ HelloCheckNick(a, NickOf[a])
    \/ HelloCheckPow(a) \/ \E c \in Channels : JoinRead(a, c)

LEMMA UnheardMail ==
    ASSUME Sound, NEW a \in Addrs, Unheard(a), Deliver
    PROVE  inbox' = inbox /\ UNCHANGED <<clients, pubkey, channels, nickPubkeys, powRequired>>
<1>1. CASE Nick(a, NickOf[a])
  <2>1. nickPubkeys[NickOf[a]] \in {NoKey, pubkey[a]}
    BY DEF Sound, Identified, Served
  <2>2. out' = Quiet /\ UNCHANGED <<clients, pubkey, channels, nickPubkeys, powRequired>>
    BY <1>1, <2>1 DEF Nick
  <2> QED
    BY <2>2, NobodySent, NothingSent
<1>2. CASE User(a)
  <2> DEFINE m == [cmd |-> "001", nick |-> nick[a]]
             o == [cmd |-> "POW_REQUIRED", bits |-> powRequired]
  <2>1. out' = [Quiet EXCEPT ![a] = <<m, o>>]
        /\ UNCHANGED <<clients, pubkey, channels, nickPubkeys, powRequired>>
    BY <1>2 DEF User, state
  <2>2. ~Heeded(m) /\ ~Heeded(o)
    BY DEF Heeded
  <2>3. ASSUME NEW b \in Addrs
        PROVE  HeededOf(out'[b]) = <<>>
    <3> HIDE DEF m, o
    <3>1. CASE b = a
      <4>1. out'[b] = <<m, o>>
        BY <2>1, <3>1 DEF Quiet, Send
      <4> QED
        BY <2>2, <4>1, HeededTwo
    <3>2. CASE b # a
      <4>1. out'[b] = <<>>
        BY <2>1, <3>2 DEF Quiet, Send
      <4> QED
        BY <4>1, HeededNone
    <3> QED
      BY <3>1, <3>2
  <2> QED
    BY <2>1, <2>3, NothingSent
<1>3. CASE HelloCheckNick(a, NickOf[a])
  <2>1. UNCHANGED <<clients, pubkey, channels, nickPubkeys, powRequired>>
    BY <1>3 DEF HelloCheckNick, Reply, state
  <2>2. ~Heeded([cmd |-> "NICK_MISMATCH", nick |-> NickOf[a]])
    BY DEF Heeded
  <2>3. \A b \in Addrs : HeededOf(out'[b]) = <<>>
    BY <1>3, <2>2, ReplySent, NobodySent DEF HelloCheckNick
  <2> QED
    BY <2>1, <2>3, NothingSent
<1>4. CASE HelloCheckPow(a)
  <2>1. UNCHANGED <<clients, pubkey, channels, nickPubkeys, powRequired>>
    BY <1>4 DEF HelloCheckPow, Reply, state
  <2>2. ~Heeded([cmd |-> "POW_TOO_WEAK", bits |-> powRequired])
    BY DEF Heeded
  <2>3. \A b \in Addrs : HeededOf(out'[b]) = <<>>
    BY <1>4, <2>2, ReplySent, NobodySent DEF HelloCheckPow
  <2> QED
    BY <2>1, <2>3, NothingSent
<1>5. CASE \E c \in Channels : JoinRead(a, c)
  <2>1. out' = Quiet /\ UNCHANGED <<clients, pubkey, channels, nickPubkeys, powRequired>>
    BY <1>5 DEF JoinRead, state
  <2> QED
    BY <2>1, NobodySent, NothingSent
<1> QED
  BY <1>1, <1>2, <1>3, <1>4, <1>5 DEF Unheard

-----------------------------------------------------------------------------
(* What the server does with the head of a wire. *)

Rest == <<phase, room, known, left, user, wiped>>

LEMMA CommandFields ==
    ASSUME NEW cmd \in Commands
    PROVE  /\ cmd.cmd \in {"NICK", "USER", "HELLO", "JOIN", "PART"}
           /\ cmd.cmd \in {"JOIN", "PART"} =>
                 cmd.channel \in Channels /\ cmd = InChannel(cmd.cmd, cmd.channel)
           /\ cmd.cmd \in {"NICK", "USER", "HELLO"} => cmd = Cmd(cmd.cmd)
  BY DEF Commands, InChannel, Cmd

LEMMA CommandTyped ==
    /\ \A c \in Channels : InChannel("JOIN", c) \in Commands /\ InChannel("PART", c) \in Commands
    /\ Cmd("NICK") \in Commands /\ Cmd("USER") \in Commands /\ Cmd("HELLO") \in Commands
  BY DEF Commands, InChannel, Cmd

LEMMA Wires ==
    ASSUME Sound, NEW a \in Addrs
    PROVE  /\ wire[a] \in Seq(Commands)
           /\ wire[a] # <<>> =>
                 /\ Head(wire[a]) \in Commands /\ Head(wire[a]) = wire[a][1]
                 /\ Tail(wire[a]) \in Seq(Commands)
                 /\ Len(wire[a]) \in Nat /\ Len(wire[a]) > 0
                 /\ DOMAIN Tail(wire[a]) = 1..Len(wire[a]) - 1
                 /\ \A i \in DOMAIN Tail(wire[a]) : i + 1 \in DOMAIN wire[a] /\ Tail(wire[a])[i] = wire[a][i + 1]
<1>1. wire[a] \in Seq(Commands)
  BY DEF Sound, ClientTyped
<1> QED
  BY <1>1

LEMMA ServerReadsWhat ==
    ASSUME Sound, NEW a \in Addrs, ServerReads(a)
    PROVE  /\ Deliver /\ UNCHANGED Rest /\ wire[a] # <<>>
           /\ wire' = [wire EXCEPT ![a] = Tail(@)]
           /\ \/ Head(wire[a]).cmd = "NICK" /\ Nick(a, NickOf[a])
              \/ Head(wire[a]).cmd = "USER" /\ User(a)
              \/ Head(wire[a]).cmd = "HELLO" /\ HelloCheckNick(a, NickOf[a])
              \/ \E c \in Channels : Head(wire[a]) = InChannel("JOIN", c) /\ JoinRead(a, c)
              \/ \E c \in Channels : Head(wire[a]) = InChannel("PART", c) /\ Part(a, c)
<1>1. /\ Deliver /\ UNCHANGED Rest /\ wire[a] # <<>>
      /\ wire' = [wire EXCEPT ![a] = Tail(@)]
  BY DEF ServerReads, Rest
<1>2. Head(wire[a]) \in Commands
  BY <1>1, Wires
<1> DEFINE h == Head(wire[a])
<1> HIDE DEF h
<1>3. \/ h.cmd = "NICK" /\ Nick(a, NickOf[a])
      \/ h.cmd = "USER" /\ User(a)
      \/ h.cmd = "HELLO" /\ HelloCheckNick(a, NickOf[a])
      \/ h.cmd = "JOIN" /\ JoinRead(a, h.channel)
      \/ h.cmd = "PART" /\ Part(a, h.channel)
  BY DEF ServerReads, h
<1>4. h.cmd \in {"JOIN", "PART"} => h.channel \in Channels /\ h = InChannel(h.cmd, h.channel)
  BY <1>2, CommandFields DEF h
<1>5. \/ h.cmd = "NICK" /\ Nick(a, NickOf[a])
      \/ h.cmd = "USER" /\ User(a)
      \/ h.cmd = "HELLO" /\ HelloCheckNick(a, NickOf[a])
      \/ \E c \in Channels : h = InChannel("JOIN", c) /\ JoinRead(a, c)
      \/ \E c \in Channels : h = InChannel("PART", c) /\ Part(a, c)
  BY <1>3, <1>4
<1> QED
  BY <1>1, <1>5 DEF h

LEMMA ServerContinuesWhat ==
    ASSUME Sound, NEW a \in Addrs, ServerContinues(a)
    PROVE  /\ Deliver /\ UNCHANGED Rest /\ UNCHANGED wire
           /\ JoinInsert(a) \/ HelloCheckPow(a) \/ HelloBind(a)
  BY DEF ServerContinues, Continue, PowSetWrite, Rest, Sound, Identified, Served

(* The server takes its own steps only, whatever its clients do. *)
LEMMA ServerInside ==
    ASSUME Sound, NextExchange
    PROVE  [Next]_vars
<1>1. PICK a \in Addrs : ServerStep(a) \/ ClientStep(a) \/ UserStep(a)
  BY DEF NextExchange
<1>2. ASSUME Step(a) \/ UNCHANGED vars
      PROVE  [Next]_vars
  BY <1>2 DEF Next
<1>3. CASE ServerRegisters(a)
  BY <1>2, <1>3 DEF ServerRegisters, Step, ConnectionStep
<1>4. CASE ServerReads(a)
  <2>1. Nick(a, NickOf[a]) => CommandStep(a)
    BY Members DEF CommandStep
  <2>2. HelloCheckNick(a, NickOf[a]) => HelloStep(a)
    BY Members DEF HelloStep
  <2>3. ASSUME NEW c \in Channels, JoinRead(a, c) \/ Part(a, c)
        PROVE  CommandStep(a)
    BY <2>3 DEF CommandStep
  <2>4. User(a) => CommandStep(a)
    BY DEF CommandStep
  <2> QED
    BY <1>2, <1>4, <2>1, <2>2, <2>3, <2>4, ServerReadsWhat DEF Step
<1>5. CASE ServerContinues(a)
  BY <1>2, <1>5, ServerContinuesWhat DEF Step, HelloStep
<1>6. CASE ServerCleansUp(a)
  BY <1>2, <1>6 DEF ServerCleansUp, Step, ConnectionStep
<1>7. CASE ClientStep(a)
  <2>1. UNCHANGED vars
    BY <1>7 DEF ClientStep, HelloTimer, JoinTimer, ClientReads, LoopForgets
  <2> QED
    BY <2>1
<1>8. CASE ServerAccepts(a)
  BY <1>2, <1>8 DEF ServerAccepts, Step, ConnectionStep
<1>9. CASE Leave(a) \/ \E ch \in Channels : SwitchChannel(a, ch)
  <2>1. UNCHANGED vars
    BY <1>9 DEF Leave, SwitchChannel
  <2> QED
    BY <2>1
<1>10. CASE ServerReadFails(a)
  BY <1>2, <1>10 DEF ServerReadFails, Step, ConnectionStep
<1> QED
  BY <1>1, <1>3, <1>4, <1>5, <1>6, <1>7, <1>8, <1>9, <1>10 DEF ServerStep, UserStep

-----------------------------------------------------------------------------
(* The types of the clients' variables. *)

LEMMA LineTyped ==
    ASSUME NEW a \in Addrs
    PROVE  /\ \A c \in Channels : Joining(a, c) \in HeededLines /\ Parting(a, c) \in HeededLines
           /\ Quitting(a) \in HeededLines
           /\ Strong(a) => Says(a) \in HeededLines
<1>1. NickOf[a] \in Nicks
  BY ClientAssumption
<1>2. \A c \in Channels : Joining(a, c) \in Presences /\ Parting(a, c) \in Presences
  BY <1>1 DEF Presences, Joining, Parting
<1>3. Quitting(a) \in Presences
  BY <1>1 DEF Presences, Quitting
<1>4. Strong(a) => Says(a) \in Announcements
  BY DEF Announcements
<1> QED
  BY <1>2, <1>3, <1>4 DEF HeededLines

LEMMA MailTyped ==
    ASSUME Sound, NEW to, NEW line \in HeededLines, Mail(to, line)
    PROVE  /\ inbox' \in [Addrs -> Seq(HeededLines)]
           /\ \A b \in Addrs : phase[b] = "off" => inbox'[b] = <<>>
<1>1. ASSUME NEW b \in Addrs
      PROVE  /\ inbox'[b] \in Seq(HeededLines)
             /\ phase[b] = "off" => inbox'[b] = <<>>
  <2>1. inbox[b] \in Seq(HeededLines) /\ (phase[b] = "off" => inbox[b] = <<>>)
    BY Inboxes
  <2>2. Append(inbox[b], line) \in Seq(HeededLines)
    BY <2>1
  <2>3. inbox'[b] = IF b \in to /\ phase[b] # "off" THEN Append(inbox[b], line) ELSE inbox[b]
    BY DEF Mail
  <2> QED
    BY <2>1, <2>2, <2>3
<1>2. inbox' = [b \in Addrs |-> inbox'[b]]
  BY DEF Mail
<1> QED
  BY <1>1, <1>2

(* What a server step leaves for the client's side of the invariant. *)
LEMMA ServedClientTyped ==
    ASSUME Sound, UNCHANGED Rest, wire' \in [Addrs -> Seq(Commands)],
           inbox' \in [Addrs -> Seq(HeededLines)]
    PROVE  ClientTyped'
  BY DEF Sound, ClientTyped, Rest, user

LEMMA ServedKnows ==
    ASSUME Sound, UNCHANGED Rest, \A b \in Addrs : phase[b] = "off" => inbox'[b] = <<>>,
           \A b \in Addrs : phase[b] # "off" => task'[b].at # "none"
    PROVE  \A b \in Addrs : KnowsTheirs(b)'
  BY DEF Sound, Identified, KnowsTheirs, Rest

LEMMA WireTail ==
    ASSUME Sound, NEW a \in Addrs, wire[a] # <<>>, wire' = [wire EXCEPT ![a] = Tail(@)]
    PROVE  wire' \in [Addrs -> Seq(Commands)]
<1>1. Tail(wire[a]) \in Seq(Commands)
  BY Wires
<1> QED
  BY <1>1 DEF Sound, ClientTyped

-----------------------------------------------------------------------------
(* Soundness is kept: the server's steps. *)

LEMMA OneNickEach ==
    ASSUME NEW a \in Addrs, NEW b \in Addrs, NickOf[a] = NickOf[b]
    PROVE  a = b
  BY ClientAssumption

LEMMA SoundParts ==
    ASSUME Sound
    PROVE  /\ task \in [Addrs -> Tasks] /\ clients \subseteq Addrs
           /\ nick \in [Addrs -> Nicks \cup {NoNick}]
           /\ pubkey \in [Addrs -> Keys \cup {NoKey}]
           /\ channels \in [Channels -> SUBSET Addrs]
           /\ nickPubkeys \in [Nicks -> Keys \cup {NoKey}]
           /\ powRequired = InitialBits
           /\ \A b \in Addrs : Served(b) /\ KnowsTheirs(b)
  BY DEF Sound, Typed, StateType, Identified

LEMMA UnheardSound ==
    ASSUME Sound, NEW a \in Addrs, Unheard(a), Deliver
    PROVE  /\ powRequired' = InitialBits
           /\ \A b \in Addrs : Served(b)'
           /\ \A b \in Addrs : phase[b] # "off" => task'[b].at # "none"
<1> USE SoundParts, UnheardMail, Members DEF Served
<1>1. powRequired' = InitialBits
  OBVIOUS
<1>2. CASE Nick(a, NickOf[a])
  <2>1. nick' = [nick EXCEPT ![a] = NickOf[a]] /\ UNCHANGED task
    BY <1>2 DEF Nick, Reading
  <2>2. \A b \in Addrs : Served(b)'
    BY <2>1
  <2> QED
    BY <1>1, <2>1, <2>2 DEF KnowsTheirs
<1>3. CASE User(a)
  <2>1. UNCHANGED <<task, nick>>
    BY <1>3 DEF User, Reading, state
  <2>2. \A b \in Addrs : Served(b)'
    BY <2>1
  <2> QED
    BY <1>1, <2>1, <2>2 DEF KnowsTheirs
<1>4. CASE HelloCheckNick(a, NickOf[a])
  <2>1. UNCHANGED nick
    BY <1>4 DEF HelloCheckNick, Reply, state
  <2>2. \/ UNCHANGED task
        \/ task' = [task EXCEPT ![a] = [at |-> "helloPow", nick |-> NickOf[a], key |-> KeyOf[a]]]
    BY <1>4 DEF HelloCheckNick
  <2>3. \A b \in Addrs : Served(b)'
    BY <2>1, <2>2
  <2> QED
    BY <1>1, <2>2, <2>3 DEF KnowsTheirs
<1>5. CASE HelloCheckPow(a)
  <2>1. UNCHANGED nick
    BY <1>5 DEF HelloCheckPow, Reply, state
  <2>2. task[a].nick = NickOf[a] /\ task[a].key = KeyOf[a]
    BY <1>5, Locals DEF HelloCheckPow
  <2>3. \/ task' = [task EXCEPT ![a] = At("reading")]
        \/ /\ Strong(a)
           /\ task' = [task EXCEPT ![a] = [at |-> "helloBind", nick |-> NickOf[a], key |-> KeyOf[a]]]
    BY <1>5, <2>2 DEF HelloCheckPow, Strong
  <2>4. \A b \in Addrs : Served(b)'
    BY <2>1, <2>3 DEF At, Strong
  <2> QED
    BY <1>1, <2>3, <2>4 DEF KnowsTheirs, At
<1>6. CASE \E c \in Channels : JoinRead(a, c)
  <2>1. PICK c \in Channels : JoinRead(a, c)
    BY <1>6
  <2>2. /\ UNCHANGED nick
        /\ task' = [task EXCEPT ![a] = [at |-> "join", nick |-> nick[a], channel |-> c]]
    BY <2>1 DEF JoinRead, state
  <2>3. \A b \in Addrs : Served(b)'
    BY <2>2
  <2> QED
    BY <1>1, <2>2, <2>3 DEF KnowsTheirs
<1> QED
  BY <1>2, <1>3, <1>4, <1>5, <1>6 DEF Unheard

LEMMA PartSound ==
    ASSUME Sound, NEW a \in Addrs, NEW c \in Channels, Part(a, c)
    PROVE  /\ powRequired' = InitialBits
           /\ \A b \in Addrs : Served(b)'
           /\ \A b \in Addrs : phase[b] # "off" => task'[b].at # "none"
<1>1. UNCHANGED <<task, clients, nick, pubkey, nickPubkeys, powRequired>>
  BY DEF Part, Reading
<1> QED
  BY <1>1, SoundParts DEF Served, KnowsTheirs, Strong

LEMMA JoinSound ==
    ASSUME Sound, NEW a \in Addrs, JoinInsert(a)
    PROVE  /\ powRequired' = InitialBits
           /\ \A b \in Addrs : Served(b)'
           /\ \A b \in Addrs : phase[b] # "off" => task'[b].at # "none"
<1>1. /\ UNCHANGED <<clients, nick, pubkey, nickPubkeys, powRequired>>
      /\ task' = [task EXCEPT ![a] = At("reading")]
  BY DEF JoinInsert
<1> QED
  BY <1>1, SoundParts DEF Served, KnowsTheirs, Strong, At

LEMMA BindSound ==
    ASSUME Sound, NEW a \in Addrs, HelloBind(a), Deliver
    PROVE  /\ powRequired' = InitialBits
           /\ \A b \in Addrs : Served(b)'
           /\ \A b \in Addrs : phase[b] # "off" => task'[b].at # "none"
<1>1. task' = [task EXCEPT ![a] = At("reading")]
  BY DEF HelloBind
<1>2. ASSUME NEW b \in Addrs
      PROVE  Served(b)'
  <2>1. CASE b = a
    BY <1>1, <2>1, BindMail, SoundParts, Members DEF Served, At
  <2>2. CASE b # a
    <3>1. NickOf[b] # NickOf[a] /\ NickOf[b] \in Nicks
      BY <2>2, OneNickEach, Members
    <3> QED
      BY <1>1, <2>2, <3>1, BindMail, SoundParts DEF Served
  <2> QED
    BY <2>1, <2>2
<1> QED
  BY <1>1, <1>2, BindMail, SoundParts DEF KnowsTheirs, At

LEMMA QuitSound ==
    ASSUME Sound, NEW a \in Addrs, phase[a] = "off", Disconnect(a), Deliver
    PROVE  /\ powRequired' = InitialBits
           /\ \A b \in Addrs : Served(b)'
           /\ \A b \in Addrs : phase[b] # "off" => task'[b].at # "none"
<1>1. /\ task' = [task EXCEPT ![a] = At("none")]
      /\ clients' = clients \ {a} /\ powRequired' = powRequired
      /\ nick' = [nick EXCEPT ![a] = NoNick]
      /\ pubkey' = [pubkey EXCEPT ![a] = NoKey]
  BY DEF Disconnect
<1>2. ASSUME NEW b \in Addrs
      PROVE  Served(b)'
  <2>1. CASE b = a
    BY <1>1, <2>1, QuitMail, SoundParts, Members DEF Served, At
  <2>2. CASE b # a
    <3>1. NickOf[b] # NickOf[a] /\ NickOf[b] \in Nicks
      BY <2>2, OneNickEach, Members
    <3> QED
      BY <1>1, <2>2, <3>1, QuitMail, SoundParts DEF Served
  <2> QED
    BY <2>1, <2>2
<1> QED
  BY <1>1, <1>2, SoundParts DEF KnowsTheirs, At

LEMMA RegisterSound ==
    ASSUME Sound, NEW a \in Addrs, Register(a)
    PROVE  /\ powRequired' = InitialBits
           /\ \A b \in Addrs : Served(b)'
           /\ \A b \in Addrs : phase[b] # "off" => task'[b].at # "none"
           /\ pubkey' = pubkey
<1>1. /\ task' = [task EXCEPT ![a] = At("reading")]
      /\ clients' = clients \cup {a}
      /\ nick' = [nick EXCEPT ![a] = NoNick]
      /\ pubkey' = [pubkey EXCEPT ![a] = NoKey]
      /\ UNCHANGED <<nickPubkeys, powRequired>>
  BY DEF Register
<1>2. a \notin clients
  BY Members DEF Register
<1>3. pubkey[a] = NoKey
  BY <1>2, SoundParts DEF Served
<1>4. pubkey' = pubkey
  BY <1>1, <1>3, SoundParts
<1>5. \A b \in Addrs : Served(b)'
  BY <1>1, <1>3, <1>4, SoundParts DEF Served, At
<1> QED
  BY <1>1, <1>4, <1>5, SoundParts DEF KnowsTheirs, At

LEMMA ReadFails ==
    ASSUME Sound, NEW a \in Addrs, ServerReadFails(a)
    PROVE  /\ phase[a] = "off" /\ UNCHANGED state /\ UNCHANGED client /\ UNCHANGED Rest
           /\ UNCHANGED <<wire, inbox, pubkey, channels>>
           /\ task' = [task EXCEPT ![a] = At("dead")]
           /\ powRequired' = InitialBits
           /\ \A b \in Addrs : Served(b)'
           /\ \A b \in Addrs : phase[b] # "off" => task'[b].at # "none"
<1>1. /\ phase[a] = "off" /\ UNCHANGED client
      /\ task' = [task EXCEPT ![a] = At("dead")]
      /\ UNCHANGED <<clients, nick, pubkey, authenticated, channels, nickPubkeys, powRequired>>
  BY DEF ServerReadFails, ReadError, state
<1>2. /\ UNCHANGED state /\ UNCHANGED Rest
      /\ UNCHANGED <<wire, inbox, pubkey, channels>>
  BY <1>1 DEF state, client, Rest
<1>3. \A b \in Addrs : Served(b)'
  BY <1>1, SoundParts DEF Served, Strong, At
<1>4. \A b \in Addrs : phase[b] # "off" => task'[b].at # "none"
  BY <1>1, SoundParts DEF KnowsTheirs
<1> QED
  BY <1>1, <1>2, <1>3, <1>4, SoundParts

LEMMA ServerSound ==
    ASSUME Sound, NEW a \in Addrs, ServerStep(a)
    PROVE  ClientTyped' /\ Identified'
<1>1. ASSUME UNCHANGED Rest, wire' \in [Addrs -> Seq(Commands)],
             inbox' \in [Addrs -> Seq(HeededLines)],
             \A b \in Addrs : phase[b] = "off" => inbox'[b] = <<>>,
             powRequired' = InitialBits, \A b \in Addrs : Served(b)',
             \A b \in Addrs : phase[b] # "off" => task'[b].at # "none"
      PROVE  ClientTyped' /\ Identified'
  BY <1>1, ServedClientTyped, ServedKnows DEF Identified
<1>2. /\ wire \in [Addrs -> Seq(Commands)] /\ inbox \in [Addrs -> Seq(HeededLines)]
      /\ \A b \in Addrs : phase[b] = "off" => inbox[b] = <<>>
  BY SoundParts DEF Sound, ClientTyped, KnowsTheirs
<1>3. CASE ServerRegisters(a)
  <2>1. Register(a) /\ UNCHANGED Rest /\ UNCHANGED wire /\ UNCHANGED inbox
    BY <1>3 DEF ServerRegisters, client, Rest
  <2> QED
    BY <1>1, <1>2, <2>1, RegisterSound
<1>4. CASE ServerReads(a)
  <2>1. /\ Deliver /\ UNCHANGED Rest /\ wire' \in [Addrs -> Seq(Commands)]
        /\ Unheard(a) \/ \E c \in Channels : Part(a, c)
    BY <1>4, ServerReadsWhat, WireTail DEF Unheard
  <2>2. CASE Unheard(a)
    BY <1>1, <1>2, <2>1, <2>2, UnheardMail, UnheardSound
  <2>3. ASSUME NEW c \in Channels, Part(a, c)
        PROVE  ClientTyped' /\ Identified'
    <3>1. /\ inbox' \in [Addrs -> Seq(HeededLines)]
          /\ \A b \in Addrs : phase[b] = "off" => inbox'[b] = <<>>
      BY <2>1, <2>3, PartMail, LineTyped, MailTyped
    <3> QED
      BY <1>1, <2>1, <2>3, <3>1, PartSound
  <2> QED
    BY <2>1, <2>2, <2>3
<1>5. CASE ServerContinues(a)
  <2>1. /\ Deliver /\ UNCHANGED Rest /\ wire' \in [Addrs -> Seq(Commands)]
        /\ JoinInsert(a) \/ HelloCheckPow(a) \/ HelloBind(a)
    BY <1>2, <1>5, ServerContinuesWhat
  <2>2. CASE JoinInsert(a)
    <3>1. /\ inbox' \in [Addrs -> Seq(HeededLines)]
          /\ \A b \in Addrs : phase[b] = "off" => inbox'[b] = <<>>
      BY <2>1, <2>2, JoinMail, LineTyped, MailTyped
    <3> QED
      BY <1>1, <2>1, <2>2, <3>1, JoinSound
  <2>3. CASE HelloCheckPow(a)
    BY <1>1, <1>2, <2>1, <2>3, UnheardMail, UnheardSound DEF Unheard
  <2>4. CASE HelloBind(a)
    <3>1. /\ inbox' \in [Addrs -> Seq(HeededLines)]
          /\ \A b \in Addrs : phase[b] = "off" => inbox'[b] = <<>>
      BY <2>1, <2>4, BindMail, LineTyped, MailTyped
    <3> QED
      BY <1>1, <2>1, <2>4, <3>1, BindSound
  <2> QED
    BY <2>1, <2>2, <2>3, <2>4
<1>6. CASE ServerCleansUp(a)
  <2>1. /\ Disconnect(a) /\ Deliver /\ UNCHANGED Rest /\ UNCHANGED wire /\ phase[a] = "off"
    BY <1>6 DEF ServerCleansUp, Rest
  <2>2. /\ inbox' \in [Addrs -> Seq(HeededLines)]
        /\ \A b \in Addrs : phase[b] = "off" => inbox'[b] = <<>>
    BY <2>1, QuitMail, LineTyped, MailTyped
  <2> QED
    BY <1>1, <1>2, <2>1, <2>2, QuitSound
<1>7. CASE ServerReadFails(a)
  BY <1>1, <1>2, <1>7, ReadFails
<1> QED
  BY <1>3, <1>4, <1>5, <1>6, <1>7 DEF ServerStep

-----------------------------------------------------------------------------
(* Soundness is kept: the clients' and the users' steps. *)

LEMMA ServerIdle ==
    ASSUME Sound, UNCHANGED vars
    PROVE  powRequired' = InitialBits /\ \A b \in Addrs : Served(b)'
  BY SoundParts DEF Served, vars, state, Strong

LEMMA SentTyped ==
    ASSUME Sound, NEW a \in Addrs, NEW commands \in Seq(Commands), Sends(a, commands)
    PROVE  wire' \in [Addrs -> Seq(Commands)]
<1>1. wire[a] \o commands \in Seq(Commands)
  BY Wires
<1> QED
  BY <1>1 DEF Sends, Sound, ClientTyped

(* The head of an inbox, and what is left of it. *)
LEMMA Heads ==
    ASSUME Sound, NEW a \in Addrs, inbox[a] # <<>>
    PROVE  Head(inbox[a]) \in HeededLines /\ Tail(inbox[a]) \in Seq(HeededLines)
  BY Inboxes

LEMMA LineFields ==
    ASSUME NEW line \in HeededLines
    PROVE  /\ line.cmd \in {"JOIN", "PART", "QUIT", "PUBKEY"}
           /\ line.cmd # "PUBKEY" => line.nick \in Nicks
           /\ line.cmd = "PUBKEY" => \E b \in Addrs : Strong(b) /\ line = Says(b)
           /\ \A b \in Addrs : line = Says(b) => line.cmd = "PUBKEY"
  BY DEF HeededLines, Presences, Announcements, Says

(* Another key is entered for a nick that had none, and only its own. *)
LEMMA Learnt ==
    ASSUME Sound, NEW a \in Addrs, NEW b \in Addrs
    PROVE  /\ Learn(known[a], Says(b)) \in [Nicks -> Keys \cup {NoKey}]
           /\ \A n \in Nicks :
                  Learn(known[a], Says(b))[n] =
                      IF n = NickOf[b] THEN KeyOf[b] ELSE known[a][n]
<1>1. known[a] \in [Nicks -> Keys \cup {NoKey}] /\ NickOf[b] \in Nicks /\ KeyOf[b] \in Keys
  BY Members DEF Sound, ClientTyped
<1>2. known[a][NickOf[b]] \in {NoKey, KeyOf[b]}
  <2>1. SUFFICES ASSUME known[a][NickOf[b]] # NoKey
                 PROVE  known[a][NickOf[b]] = KeyOf[b]
    OBVIOUS
  <2>2. PICK x \in Addrs : NickOf[b] = NickOf[x] /\ known[a][NickOf[b]] = KeyOf[x]
    BY <1>1, <2>1, SoundParts DEF KnowsTheirs
  <2> QED
    BY <2>2, OneNickEach
<1> QED
  BY <1>1, <1>2 DEF Learn, Says

LEMMA TimerSound ==
    ASSUME Sound, NEW a \in Addrs, HelloTimer(a) \/ JoinTimer(a)
    PROVE  ClientTyped' /\ Identified'
<1>1. UNCHANGED vars /\ UNCHANGED <<room, inbox, known, left, user, wiped>>
  BY DEF HelloTimer, JoinTimer
<1>2. PICK p \in {"join", "on"} : phase' = [phase EXCEPT ![a] = p] /\ phase[a] # "off"
  BY DEF HelloTimer, JoinTimer
<1>3. wire' \in [Addrs -> Seq(Commands)]
  <2>1. <<Cmd("HELLO")>> \in Seq(Commands) /\ <<InChannel("JOIN", Home)>> \in Seq(Commands)
    BY CommandTyped, ClientAssumption
  <2> QED
    BY <2>1, SentTyped DEF HelloTimer, JoinTimer
<1>4. ClientTyped'
  BY <1>1, <1>2, <1>3 DEF Sound, ClientTyped, user
<1>5. ASSUME NEW b \in Addrs
      PROVE  KnowsTheirs(b)'
  <2>1. KnowsTheirs(b)
    BY SoundParts
  <2>2. /\ phase'[b] = "off" <=> phase[b] = "off"
        /\ task' = task /\ inbox' = inbox /\ left' = left /\ known' = known
    BY <1>1, <1>2 DEF vars, Sound, ClientTyped
  <2> QED
    BY <2>1, <2>2 DEF KnowsTheirs
<1> QED
  BY <1>1, <1>4, <1>5, ServerIdle DEF Identified

LEMMA SwitchSound ==
    ASSUME Sound, NEW a \in Addrs, NEW ch \in Channels, SwitchChannel(a, ch)
    PROVE  ClientTyped' /\ Identified'
<1>1. UNCHANGED vars /\ UNCHANGED <<phase, inbox, left, sessions, wiped>>
  BY DEF SwitchChannel
<1>2. /\ known' = [known EXCEPT ![a] = NothingKnown]
      /\ room' = [room EXCEPT ![a] = ch]
      /\ switched' = [switched EXCEPT ![a] = TRUE]
  BY DEF SwitchChannel
<1>3. wire' \in [Addrs -> Seq(Commands)]
  <2>1. room[a] \in Channels
    BY DEF Sound, ClientTyped
  <2>2. <<InChannel("PART", room[a]), InChannel("JOIN", ch)>> \in Seq(Commands)
    BY <2>1, CommandTyped
  <2> QED
    BY <2>2, SentTyped DEF SwitchChannel
<1>4. ClientTyped'
  BY <1>1, <1>2, <1>3 DEF Sound, ClientTyped, NothingKnown
<1>5. ASSUME NEW b \in Addrs
      PROVE  KnowsTheirs(b)'
  <2>1. KnowsTheirs(b) /\ task' = task
    BY <1>1, SoundParts DEF vars
  <2>2. CASE b # a
    <3>1. /\ phase'[b] = phase[b] /\ inbox'[b] = inbox[b] /\ left'[b] = left[b]
          /\ known'[b] = known[b]
      BY <1>1, <1>2, <2>2 DEF Sound, ClientTyped
    <3> QED
      BY <2>1, <3>1 DEF KnowsTheirs
  <2>3. CASE b = a
    <3>1. /\ phase'[a] = phase[a] /\ inbox'[a] = inbox[a] /\ left'[a] = left[a]
          /\ known'[a] = NothingKnown
      BY <1>1, <1>2 DEF Sound, ClientTyped
    <3>2. \A n \in Nicks : NothingKnown[n] = NoKey
      BY DEF NothingKnown
    <3> QED
      BY <2>1, <2>3, <3>1, <3>2 DEF KnowsTheirs
  <2> QED
    BY <2>2, <2>3
<1> QED
  BY <1>1, <1>4, <1>5, ServerIdle DEF Identified

LEMMA LeaveSound ==
    ASSUME Sound, NEW a \in Addrs, Leave(a)
    PROVE  ClientTyped' /\ Identified'
<1>1. UNCHANGED vars /\ UNCHANGED <<room, user, wiped>>
  BY DEF Leave
<1>2. /\ phase' = [phase EXCEPT ![a] = "off"]
      /\ inbox' = [inbox EXCEPT ![a] = <<>>]
      /\ known' = [known EXCEPT ![a] = NothingKnown]
      /\ left' = [left EXCEPT ![a] = <<>>]
  BY DEF Leave
<1>3. wire' \in [Addrs -> Seq(Commands)]
  <2>1. PICK k \in 0..Len(wire[a]) : wire' = [wire EXCEPT ![a] = SubSeq(@, 1, k)]
    BY DEF Leave
  <2>2. SubSeq(wire[a], 1, k) \in Seq(Commands)
    BY Wires
  <2> QED
    BY <2>1, <2>2 DEF Sound, ClientTyped
<1>4. ClientTyped'
  <2>1. /\ <<>> \in Seq(Nicks) /\ <<>> \in Seq(HeededLines)
        /\ NothingKnown \in [Nicks -> Keys \cup {NoKey}]
    BY DEF NothingKnown
  <2> QED
    BY <1>1, <1>2, <1>3, <2>1 DEF Sound, ClientTyped, user
<1>5. ASSUME NEW b \in Addrs
      PROVE  KnowsTheirs(b)'
  <2>1. KnowsTheirs(b) /\ task' = task
    BY <1>1, SoundParts DEF vars
  <2>2. CASE b # a
    <3>1. /\ phase'[b] = phase[b] /\ inbox'[b] = inbox[b] /\ left'[b] = left[b]
          /\ known'[b] = known[b]
      BY <1>1, <1>2, <2>2 DEF Sound, ClientTyped
    <3> QED
      BY <2>1, <3>1 DEF KnowsTheirs
  <2>3. CASE b = a
    <3>1. /\ phase'[a] = "off" /\ inbox'[a] = <<>> /\ left'[a] = <<>>
          /\ known'[a] = NothingKnown
      BY <1>1, <1>2 DEF Sound, ClientTyped
    <3>2. \A n \in Nicks : NothingKnown[n] = NoKey
      BY DEF NothingKnown
    <3> QED
      BY <2>1, <2>3, <3>1, <3>2 DEF KnowsTheirs
  <2> QED
    BY <2>2, <2>3
<1> QED
  BY <1>1, <1>4, <1>5, ServerIdle DEF Identified

LEMMA AcceptSound ==
    ASSUME Sound, NEW a \in Addrs, ServerAccepts(a)
    PROVE  ClientTyped' /\ Identified'
<1>1. /\ task' = [task EXCEPT ![a] = At("handshake")] /\ UNCHANGED state
      /\ task[a].at = "none"
  BY DEF ServerAccepts, Accept
<1>2. /\ phase[a] = "off" /\ phase' = [phase EXCEPT ![a] = "hello"]
      /\ room' = [room EXCEPT ![a] = Home]
      /\ wire' = [wire EXCEPT ![a] = <<Cmd("NICK"), Cmd("USER")>>]
      /\ known' = [known EXCEPT ![a] = NothingKnown]
      /\ sessions' = [sessions EXCEPT ![a] = @ + 1]
      /\ switched' = [switched EXCEPT ![a] = FALSE]
      /\ wiped' = [wiped EXCEPT ![a] = {}]
      /\ UNCHANGED <<inbox, left>>
  BY DEF ServerAccepts
<1>3. <<Cmd("NICK"), Cmd("USER")>> \in Seq(Commands)
  BY CommandTyped
<1>4. ClientTyped'
  BY <1>2, <1>3, ClientAssumption DEF Sound, ClientTyped, NothingKnown
<1>5. \A b \in Addrs : KnowsTheirs(b)'
  BY <1>1, <1>2, SoundParts DEF KnowsTheirs, Sound, ClientTyped, NothingKnown, At
<1>6. \A b \in Addrs : Served(b)'
  BY <1>1, SoundParts DEF Served, state, At, Strong
<1> QED
  BY <1>1, <1>4, <1>5, <1>6, SoundParts DEF Identified, state

LEMMA ReadsSound ==
    ASSUME Sound, NEW a \in Addrs, ClientReads(a)
    PROVE  ClientTyped' /\ Identified'
<1> DEFINE line == Head(inbox[a])
<1>1. /\ UNCHANGED vars /\ UNCHANGED <<phase, room, user, wiped>>
      /\ phase[a] # "off" /\ inbox[a] # <<>>
      /\ inbox' = [inbox EXCEPT ![a] = Tail(@)]
  BY DEF ClientReads
<1>2. line \in HeededLines /\ Tail(inbox[a]) \in Seq(HeededLines)
  BY <1>1, Heads
<1>3. ASSUME wire' \in [Addrs -> Seq(Commands)], left' \in [Addrs -> Seq(Nicks)],
             NEW keys \in [Nicks -> Keys \cup {NoKey}], known' = [known EXCEPT ![a] = keys],
             \A b \in Addrs \ {a} : left'[b] = left[b],
             \A n \in Nicks : keys[n] # NoKey =>
                 \E b \in Addrs : n = NickOf[b] /\ keys[n] = KeyOf[b] /\ Strong(b)
      PROVE  ClientTyped' /\ Identified'
  <2>1. ClientTyped'
    BY <1>1, <1>2, <1>3 DEF Sound, ClientTyped, user
  <2>2. ASSUME NEW b \in Addrs
        PROVE  KnowsTheirs(b)'
    <3>1. KnowsTheirs(b) /\ task' = task /\ phase' = phase
      BY <1>1, SoundParts DEF vars
    <3>2. CASE b # a
      <4>1. inbox'[b] = inbox[b] /\ left'[b] = left[b] /\ known'[b] = known[b]
        BY <1>1, <1>3, <3>2 DEF Sound, ClientTyped
      <4> QED
        BY <3>1, <4>1 DEF KnowsTheirs
    <3>3. CASE b = a
      <4>1. phase'[a] # "off" /\ known'[a] = keys
        BY <1>1, <1>3 DEF Sound, ClientTyped
      <4> QED
        BY <1>3, <3>1, <3>3, <4>1 DEF KnowsTheirs
    <3> QED
      BY <3>2, <3>3
  <2> QED
    BY <1>1, <2>1, <2>2, ServerIdle DEF Identified
<1>4. /\ known[a] \in [Nicks -> Keys \cup {NoKey}] /\ known = [known EXCEPT ![a] = known[a]]
      /\ \A n \in Nicks : known[a][n] # NoKey =>
             \E b \in Addrs : n = NickOf[b] /\ known[a][n] = KeyOf[b] /\ Strong(b)
      /\ left \in [Addrs -> Seq(Nicks)] /\ wire \in [Addrs -> Seq(Commands)]
  BY SoundParts DEF Sound, ClientTyped, KnowsTheirs
<1>5. CASE line.cmd = "JOIN"
  <2>1. Greet(a, line) /\ UNCHANGED <<known, left>>
    BY <1>5 DEF ClientReads
  <2>2. <<Cmd("HELLO")>> \in Seq(Commands)
    BY CommandTyped
  <2>3. wire' \in [Addrs -> Seq(Commands)]
    BY <1>4, <2>1, <2>2, SentTyped DEF Greet
  <2> QED
    BY <1>3, <1>4, <2>1, <2>3
<1>6. CASE line.cmd \in {"PART", "QUIT"}
  <2>1. /\ known' = [known EXCEPT ![a] = Forget(known[a], line.nick)]
        /\ left' = [left EXCEPT ![a] = Append(@, line.nick)] /\ UNCHANGED wire
    BY <1>6 DEF ClientReads
  <2>2. line.nick \in Nicks
    BY <1>2, <1>6, LineFields
  <2>3. Forget(known[a], line.nick) \in [Nicks -> Keys \cup {NoKey}]
    BY <1>4, <2>2 DEF Forget
  <2>4. \A n \in Nicks : Forget(known[a], line.nick)[n] \in {NoKey, known[a][n]}
    BY <1>4, <2>2 DEF Forget
  <2>5. left' \in [Addrs -> Seq(Nicks)] /\ \A b \in Addrs \ {a} : left'[b] = left[b]
    BY <1>4, <2>1, <2>2
  <2>6. PICK keys : keys = Forget(known[a], line.nick)
    OBVIOUS
  <2>7. ASSUME NEW n \in Nicks, keys[n] # NoKey
        PROVE  \E b \in Addrs : n = NickOf[b] /\ keys[n] = KeyOf[b] /\ Strong(b)
    BY <1>4, <2>4, <2>6, <2>7
  <2>8. /\ keys \in [Nicks -> Keys \cup {NoKey}] /\ known' = [known EXCEPT ![a] = keys]
        /\ wire' \in [Addrs -> Seq(Commands)]
    BY <1>4, <2>1, <2>3, <2>6
  <2> QED
    BY <1>3, <2>5, <2>7, <2>8
<1>7. CASE line.cmd = "PUBKEY"
  <2>1. known' = [known EXCEPT ![a] = Learn(known[a], line)] /\ UNCHANGED <<wire, left>>
    BY <1>7 DEF ClientReads
  <2>2. PICK b \in Addrs : Strong(b) /\ line = Says(b)
    BY <1>2, <1>7, LineFields
  <2>3. /\ Learn(known[a], line) \in [Nicks -> Keys \cup {NoKey}]
        /\ \A n \in Nicks : Learn(known[a], line)[n] = IF n = NickOf[b] THEN KeyOf[b] ELSE known[a][n]
    BY <2>2, Learnt
  <2>4. PICK keys : keys = Learn(known[a], line)
    OBVIOUS
  <2>5. ASSUME NEW n \in Nicks, keys[n] # NoKey
        PROVE  \E x \in Addrs : n = NickOf[x] /\ keys[n] = KeyOf[x] /\ Strong(x)
    BY <1>4, <2>2, <2>3, <2>4, <2>5
  <2>6. /\ keys \in [Nicks -> Keys \cup {NoKey}] /\ known' = [known EXCEPT ![a] = keys]
        /\ wire' \in [Addrs -> Seq(Commands)] /\ left' = left
    BY <1>4, <2>1, <2>3, <2>4
  <2> QED
    BY <1>3, <1>4, <2>5, <2>6
<1> QED
  BY <1>2, <1>5, <1>6, <1>7, LineFields

LEMMA LoopSound ==
    ASSUME Sound, NEW a \in Addrs, LoopForgets(a)
    PROVE  ClientTyped' /\ Identified'
<1> DEFINE n == Head(left[a])
<1>1. /\ UNCHANGED vars /\ UNCHANGED <<phase, room, wire, inbox, user>> /\ left[a] # <<>>
      /\ known' = [known EXCEPT ![a] = Forget(@, n)]
      /\ wiped' = [wiped EXCEPT ![a] = IF known[a][n] = NoKey THEN @ ELSE @ \cup {n}]
      /\ left' = [left EXCEPT ![a] = Tail(@)]
  BY DEF LoopForgets
<1>2. left[a] \in Seq(Nicks) /\ known[a] \in [Nicks -> Keys \cup {NoKey}]
  BY DEF Sound, ClientTyped
<1>3. n \in Nicks /\ Tail(left[a]) \in Seq(Nicks)
  BY <1>1, <1>2
<1>4. /\ Forget(known[a], n) \in [Nicks -> Keys \cup {NoKey}]
      /\ \A m \in Nicks : Forget(known[a], n)[m] \in {NoKey, known[a][m]}
  BY <1>2, <1>3 DEF Forget
<1>5. ClientTyped'
  BY <1>1, <1>3, <1>4 DEF Sound, ClientTyped, user
<1>6. phase[a] # "off"
  BY <1>1, SoundParts DEF KnowsTheirs
<1>7. ASSUME NEW b \in Addrs
      PROVE  KnowsTheirs(b)'
  <2>1. \A m \in Nicks : known'[b][m] \in {NoKey, known[b][m]}
    BY <1>1, <1>4 DEF Sound, ClientTyped
  <2>2. (left'[b] = left[b] /\ known'[b] = known[b]) \/ phase[b] # "off"
    BY <1>1, <1>6
  <2>3. KnowsTheirs(b)
    BY SoundParts
  <2> QED
    BY <1>1, <2>1, <2>2, <2>3 DEF KnowsTheirs, vars
<1> QED
  BY <1>1, <1>5, <1>7, ServerIdle DEF Identified

LEMMA StepSound == Sound /\ [NextExchange]_allVars => Sound'
<1> SUFFICES ASSUME Sound, [NextExchange]_allVars
             PROVE  Sound'
  OBVIOUS
<1>1. CASE NextExchange
  <2>1. [Next]_vars
    BY <1>1, ServerInside
  <2>2. Typed' /\ Consistent'
    BY <2>1, StepTyped, StepConsistent DEF Sound
  <2>3. ClientTyped' /\ Identified'
    BY <1>1, ServerSound, TimerSound, SwitchSound, LeaveSound, AcceptSound, ReadsSound, LoopSound
    DEF NextExchange, ClientStep, UserStep
  <2> QED
    BY <2>2, <2>3 DEF Sound
<1>2. CASE UNCHANGED allVars
  <2>1. [Next]_vars /\ UNCHANGED vars /\ UNCHANGED client
    BY <1>2 DEF allVars
  <2>2. Typed' /\ Consistent'
    BY <2>1, StepTyped, StepConsistent DEF Sound
  <2>3. ClientTyped' /\ \A b \in Addrs : KnowsTheirs(b)'
    BY <2>1, SoundParts DEF client, user, vars, Sound, ClientTyped, KnowsTheirs
  <2> QED
    BY <2>1, <2>2, <2>3, ServerIdle DEF Sound, Identified
<1> QED
  BY <1>1, <1>2

LEMMA InitSound == InitExchange => Sound
<1> SUFFICES ASSUME InitExchange
             PROVE  Sound
  OBVIOUS
<1>1. Typed /\ Consistent
  BY InitTyped, InitConsistent DEF InitExchange
<1>2. ClientTyped
  BY ClientAssumption DEF InitExchange, ClientTyped, NothingKnown
<1>3. ASSUME NEW a \in Addrs
      PROVE  Served(a) /\ KnowsTheirs(a)
  <2>1. NickOf[a] \in Nicks
    BY ClientAssumption
  <2> QED
    BY <2>1 DEF InitExchange, Init, Served, KnowsTheirs, NothingKnown, At
<1> QED
  BY <1>1, <1>2, <1>3 DEF Sound, Identified, InitExchange, Init

LEMMA AlwaysSound == SpecExchange => []Sound
  BY InitSound, StepSound, PTL DEF SpecExchange

(* Type correctness of the clients' variables. *)
THEOREM ExchangeTypeCorrect == SpecExchange => []ExchangeTypeOK
<1>1. Sound => ExchangeTypeOK
  <2>1. HeededLines \subseteq Messages
    <3>1. Presences \subseteq Messages
      BY DEF Presences, Messages
    <3>2. Announcements \subseteq Messages
      BY ClientAssumption, IdentityAssumption DEF Announcements, Says, Messages
    <3> QED
      BY <3>1, <3>2 DEF HeededLines
  <2> QED
    BY <2>1 DEF Sound, ClientTyped, ExchangeTypeOK
<1> QED
  BY <1>1, AlwaysSound, PTL

(* In the composition the server behaves as it does by itself, so all that  *)
(* part one says of it holds there too: IrcServer is implemented.           *)
THEOREM ExchangeRunsTheServer == SpecExchange => Spec
<1>1. Sound /\ [NextExchange]_allVars => [Next]_vars
  BY ServerInside DEF allVars
<1>2. InitExchange => Init
  BY DEF InitExchange
<1> QED
  BY <1>1, <1>2, AlwaysSound, PTL DEF SpecExchange, Spec

-----------------------------------------------------------------------------
(* Queues: no element of S is in q; and x is, with none of S behind it.     *)

Clear(q, S) == \A i \in DOMAIN q : q[i] \notin S

Ends(q, x, S) == \E i \in DOMAIN q : q[i] = x /\ \A j \in DOMAIN q : j > i => q[j] \notin S

LEMMA Appended ==
    ASSUME NEW T, NEW q \in Seq(T), NEW y \in T
    PROVE  /\ Len(q) \in Nat /\ DOMAIN q = 1..Len(q)
           /\ DOMAIN Append(q, y) = 1..(Len(q) + 1)
           /\ \A i \in 1..Len(q) : Append(q, y)[i] = q[i]
           /\ Append(q, y)[Len(q) + 1] = y
  OBVIOUS

LEMMA Tailed ==
    ASSUME NEW T, NEW q \in Seq(T), q # <<>>
    PROVE  /\ Len(q) \in Nat /\ Len(q) > 0 /\ DOMAIN q = 1..Len(q)
           /\ DOMAIN Tail(q) = 1..(Len(q) - 1)
           /\ \A i \in 1..(Len(q) - 1) : Tail(q)[i] = q[i + 1]
           /\ Head(q) = q[1]
  OBVIOUS

LEMMA ClearAppend ==
    ASSUME NEW T, NEW q \in Seq(T), NEW y \in T, NEW S
    PROVE  Clear(Append(q, y), S) <=> Clear(q, S) /\ y \notin S
<1>1. PICK r : r = Append(q, y)
  OBVIOUS
<1>2. /\ Len(q) \in Nat /\ DOMAIN q = 1..Len(q) /\ DOMAIN r = 1..(Len(q) + 1)
      /\ \A i \in 1..Len(q) : r[i] = q[i]
      /\ r[Len(q) + 1] = y
  BY <1>1, Appended
<1>3. Clear(r, S) <=> Clear(q, S) /\ y \notin S
  BY <1>2 DEF Clear
<1> QED
  BY <1>1, <1>3

LEMMA EndsAppend ==
    ASSUME NEW T, NEW q \in Seq(T), NEW y \in T, NEW S, NEW x, x \notin S
    PROVE  Ends(Append(q, y), x, S) <=> y \notin S /\ (y = x \/ Ends(q, x, S))
<1>1. PICK r : r = Append(q, y)
  OBVIOUS
<1>2. /\ Len(q) \in Nat /\ DOMAIN q = 1..Len(q) /\ DOMAIN r = 1..(Len(q) + 1)
      /\ \A i \in 1..Len(q) : r[i] = q[i]
      /\ r[Len(q) + 1] = y
  BY <1>1, Appended
<1>3. ASSUME Ends(r, x, S)
      PROVE  y \notin S /\ (y = x \/ Ends(q, x, S))
  <2>1. PICK i \in 1..(Len(q) + 1) : r[i] = x /\ \A j \in 1..(Len(q) + 1) : j > i => r[j] \notin S
    BY <1>2, <1>3 DEF Ends
  <2>2. CASE i = Len(q) + 1
    BY <1>2, <2>1, <2>2
  <2>3. CASE i # Len(q) + 1
    <3>1. i \in 1..Len(q) /\ Len(q) + 1 > i /\ Len(q) + 1 \in 1..(Len(q) + 1)
      BY <1>2, <2>3
    <3>2. y \notin S
      BY <1>2, <2>1, <3>1
    <3>3. \A j \in 1..Len(q) : j > i => q[j] \notin S
      BY <1>2, <2>1, <3>1
    <3> QED
      BY <1>2, <2>1, <3>1, <3>2, <3>3 DEF Ends
  <2> QED
    BY <2>2, <2>3
<1>4. ASSUME y \notin S, y = x
      PROVE  Ends(r, x, S)
  <2>1. Len(q) + 1 \in DOMAIN r /\ r[Len(q) + 1] = x
    BY <1>2, <1>4
  <2>2. \A j \in DOMAIN r : ~(j > Len(q) + 1)
    BY <1>2
  <2> QED
    BY <2>1, <2>2 DEF Ends
<1>5. ASSUME y \notin S, Ends(q, x, S)
      PROVE  Ends(r, x, S)
  <2>1. PICK i \in 1..Len(q) : q[i] = x /\ \A j \in 1..Len(q) : j > i => q[j] \notin S
    BY <1>2, <1>5 DEF Ends
  <2>2. i \in DOMAIN r /\ r[i] = x
    BY <1>2, <2>1
  <2>3. ASSUME NEW j \in DOMAIN r, j > i
        PROVE  r[j] \notin S
    <3>1. j = Len(q) + 1 \/ j \in 1..Len(q)
      BY <1>2
    <3> QED
      BY <1>2, <1>5, <2>1, <2>3, <3>1
  <2> QED
    BY <2>2, <2>3 DEF Ends
<1> QED
  BY <1>1, <1>3, <1>4, <1>5

LEMMA ClearTail ==
    ASSUME NEW T, NEW q \in Seq(T), q # <<>>, NEW S
    PROVE  Clear(q, S) <=> Head(q) \notin S /\ Clear(Tail(q), S)
<1>1. PICK r, h : r = Tail(q) /\ h = Head(q)
  OBVIOUS
<1>2. /\ Len(q) \in Nat /\ Len(q) > 0 /\ DOMAIN q = 1..Len(q)
      /\ DOMAIN r = 1..(Len(q) - 1)
      /\ \A i \in 1..(Len(q) - 1) : r[i] = q[i + 1]
      /\ h = q[1]
  BY <1>1, Tailed
<1>3. ASSUME h \notin S, Clear(r, S), NEW i \in 1..Len(q)
      PROVE  q[i] \notin S
  <2>1. CASE i = 1
    BY <1>2, <1>3, <2>1
  <2>2. CASE i # 1
    <3>1. i - 1 \in 1..(Len(q) - 1) /\ (i - 1) + 1 = i
      BY <1>2, <2>2
    <3> QED
      BY <1>2, <1>3, <3>1 DEF Clear
  <2> QED
    BY <2>1, <2>2
<1>4. ASSUME Clear(q, S)
      PROVE  h \notin S /\ Clear(r, S)
  BY <1>2, <1>4 DEF Clear
<1> QED
  BY <1>1, <1>2, <1>3, <1>4 DEF Clear

LEMMA EndsTail ==
    ASSUME NEW T, NEW q \in Seq(T), q # <<>>, NEW S, NEW x
    PROVE  Ends(q, x, S) <=> Ends(Tail(q), x, S) \/ (Head(q) = x /\ Clear(Tail(q), S))
<1>1. PICK r, h : r = Tail(q) /\ h = Head(q)
  OBVIOUS
<1>2. /\ Len(q) \in Nat /\ Len(q) > 0 /\ DOMAIN q = 1..Len(q)
      /\ DOMAIN r = 1..(Len(q) - 1)
      /\ \A i \in 1..(Len(q) - 1) : r[i] = q[i + 1]
      /\ h = q[1]
  BY <1>1, Tailed
<1>3. ASSUME Ends(q, x, S)
      PROVE  Ends(r, x, S) \/ (h = x /\ Clear(r, S))
  <2>1. PICK i \in 1..Len(q) : q[i] = x /\ \A j \in 1..Len(q) : j > i => q[j] \notin S
    BY <1>2, <1>3 DEF Ends
  <2>2. CASE i = 1
    <3>1. \A j \in 1..(Len(q) - 1) : r[j] \notin S
      BY <1>2, <2>1, <2>2
    <3> QED
      BY <1>2, <2>1, <2>2, <3>1 DEF Clear
  <2>3. CASE i # 1
    <3>1. i - 1 \in 1..(Len(q) - 1) /\ (i - 1) + 1 = i
      BY <1>2, <2>3
    <3>2. \A j \in 1..(Len(q) - 1) : j > i - 1 => r[j] \notin S
      BY <1>2, <2>1
    <3> QED
      BY <1>2, <2>1, <3>1, <3>2 DEF Ends
  <2> QED
    BY <2>2, <2>3
<1>4. ASSUME Ends(r, x, S)
      PROVE  Ends(q, x, S)
  <2>1. PICK i \in 1..(Len(q) - 1) :
            r[i] = x /\ \A j \in 1..(Len(q) - 1) : j > i => r[j] \notin S
    BY <1>2, <1>4 DEF Ends
  <2>2. i + 1 \in DOMAIN q /\ q[i + 1] = x
    BY <1>2, <2>1
  <2>3. ASSUME NEW j \in DOMAIN q, j > i + 1
        PROVE  q[j] \notin S
    <3>1. j - 1 \in 1..(Len(q) - 1) /\ (j - 1) + 1 = j /\ j - 1 > i
      BY <1>2, <2>1, <2>3
    <3> QED
      BY <1>2, <2>1, <3>1
  <2> QED
    BY <2>2, <2>3 DEF Ends
<1>5. ASSUME h = x, Clear(r, S)
      PROVE  Ends(q, x, S)
  <2>1. 1 \in DOMAIN q /\ q[1] = x
    BY <1>2, <1>5
  <2>2. ASSUME NEW j \in DOMAIN q, j > 1
        PROVE  q[j] \notin S
    <3>1. j - 1 \in 1..(Len(q) - 1) /\ (j - 1) + 1 = j
      BY <1>2, <2>2
    <3> QED
      BY <1>2, <1>5, <3>1 DEF Clear
  <2> QED
    BY <2>1, <2>2 DEF Ends
<1> QED
  BY <1>1, <1>3, <1>4, <1>5

LEMMA EmptyQueue == ASSUME NEW S, NEW x PROVE Clear(<<>>, S) /\ ~Ends(<<>>, x, S)
  BY DEF Clear, Ends

-----------------------------------------------------------------------------
(* The inductive invariant, second part: a user who has not changed rooms,  *)
(* or whose PART is still on its way, is at Home as far as the server can   *)
(* tell, so that the PART takes him out of the only channel he is in.       *)

AtHome(a) ==
    /\ \A c \in Channels : a \in channels[c] => c = Home
    /\ task[a].at = "join" => task[a].channel = Home

HomeUntil(a, k) ==
    \A j \in DOMAIN wire[a] :
        j <= k /\ wire[a][j].cmd \in {"JOIN", "PART"} => wire[a][j].channel = Home

Routed(a) ==
    phase[a] # "off" =>
        /\ ~switched[a] =>
               /\ room[a] = Home /\ AtHome(a) /\ HomeUntil(a, Len(wire[a]))
               /\ \A i \in DOMAIN wire[a] : wire[a][i].cmd # "PART"
        /\ \A i \in DOMAIN wire[a] : wire[a][i].cmd = "PART" => AtHome(a) /\ HomeUntil(a, i)

AllRouted == \A a \in Addrs : Routed(a)

(* The server has worked for somebody else, or not moved this user. *)
LEMMA RoutedStays ==
    ASSUME NEW a \in Addrs, Routed(a), phase'[a] = phase[a], wire'[a] = wire[a],
           room'[a] = room[a], switched'[a] = switched[a],
           \A c \in Channels : a \in channels'[c] => a \in channels[c] \/ AtHome(a)',
           task'[a] = task[a] \/ task'[a].at # "join"
    PROVE  Routed(a)'
<1>1. AtHome(a) => AtHome(a)'
  BY DEF AtHome
<1>2. \A k : HomeUntil(a, k) => HomeUntil(a, k)'
  BY DEF HomeUntil
<1> QED
  BY <1>1, <1>2 DEF Routed

(* It has taken the head of the wire. *)
LEMMA RoutedTail ==
    ASSUME Sound, NEW a \in Addrs, Routed(a), wire[a] # <<>>, wire'[a] = Tail(wire[a]),
           phase'[a] = phase[a], room'[a] = room[a], switched'[a] = switched[a],
           AtHome(a) /\ HomeUntil(a, 1) => AtHome(a)'
    PROVE  Routed(a)'
<1>1. PICK n, t, w : n = Len(wire[a]) /\ t = wire'[a] /\ w = wire[a]
  OBVIOUS
<1>2. /\ n \in Nat /\ n > 0 /\ DOMAIN w = 1..n
      /\ DOMAIN t = 1..(n - 1) /\ Len(t) = n - 1
      /\ \A i \in 1..(n - 1) : t[i] = w[i + 1]
  BY <1>1, Wires, Tailed
<1>3. ASSUME NEW k \in 0..(n - 1), HomeUntil(a, k + 1)
      PROVE  HomeUntil(a, k)'
  <2>1. ASSUME NEW j \in 1..(n - 1), j <= k, t[j].cmd \in {"JOIN", "PART"}
        PROVE  t[j].channel = Home
    <3>1. j + 1 \in 1..n /\ j + 1 <= k + 1 /\ t[j] = w[j + 1]
      BY <1>2, <2>1
    <3> QED
      BY <1>1, <1>2, <1>3, <2>1, <3>1 DEF HomeUntil
  <2> QED
    BY <1>1, <1>2, <2>1 DEF HomeUntil
<1>4. \A k \in 1..n : HomeUntil(a, k) => HomeUntil(a, 1)
  BY <1>1, <1>2 DEF HomeUntil
<1>5. SUFFICES ASSUME phase[a] # "off"
               PROVE  Routed(a)'
  BY DEF Routed
<1>6. ASSUME ~switched[a]
      PROVE  /\ room'[a] = Home /\ AtHome(a)' /\ HomeUntil(a, n - 1)'
             /\ \A i \in 1..(n - 1) : t[i].cmd # "PART"
  <2>1. /\ room[a] = Home /\ AtHome(a) /\ HomeUntil(a, n)
        /\ \A i \in 1..n : w[i].cmd # "PART"
    BY <1>1, <1>2, <1>5, <1>6 DEF Routed
  <2>2. n \in 1..n /\ n - 1 \in 0..(n - 1) /\ (n - 1) + 1 = n
    BY <1>2
  <2>3. AtHome(a)' /\ HomeUntil(a, n - 1)'
    BY <1>3, <1>4, <2>1, <2>2
  <2>4. \A i \in 1..(n - 1) : t[i].cmd # "PART"
    BY <1>2, <2>1
  <2> QED
    BY <2>1, <2>3, <2>4
<1>7. ASSUME NEW i \in 1..(n - 1), t[i].cmd = "PART"
      PROVE  AtHome(a)' /\ HomeUntil(a, i)'
  <2>1. i + 1 \in 1..n /\ w[i + 1].cmd = "PART" /\ i \in 0..(n - 1)
    BY <1>2, <1>7
  <2>2. AtHome(a) /\ HomeUntil(a, i + 1)
    BY <1>1, <1>2, <1>5, <2>1 DEF Routed
  <2> QED
    BY <1>3, <1>4, <2>1, <2>2
<1> QED
  BY <1>1, <1>2, <1>6, <1>7 DEF Routed

(* The client has sent a command that is not a PART. *)
LEMMA RoutedSends ==
    ASSUME Sound, NEW a \in Addrs, Routed(a), NEW cmd \in Commands, Sends(a, <<cmd>>),
           cmd.cmd = "HELLO" \/ cmd = InChannel("JOIN", Home),
           phase[a] # "off", room'[a] = room[a], switched'[a] = switched[a], UNCHANGED vars
    PROVE  Routed(a)'
<1>1. PICK n, t, w : n = Len(wire[a]) /\ t = wire'[a] /\ w = wire[a]
  OBVIOUS
<1>2. w \in Seq(Commands) /\ t = Append(w, cmd)
  BY <1>1, Wires DEF Sends, Sound, ClientTyped
<1>3. /\ n \in Nat /\ DOMAIN w = 1..n /\ DOMAIN t = 1..(n + 1) /\ Len(t) = n + 1
      /\ \A i \in 1..n : t[i] = w[i]
      /\ t[n + 1] = cmd
  BY <1>1, <1>2, Appended
<1>4. cmd.cmd # "PART" /\ (cmd.cmd \in {"JOIN", "PART"} => cmd.channel = Home)
  BY DEF InChannel
<1>5. AtHome(a)' = AtHome(a)
  BY DEF AtHome, vars, state
<1>6. ASSUME NEW k \in 1..n, HomeUntil(a, k)
      PROVE  HomeUntil(a, k)'
  <2>1. \A j \in 1..(n + 1) : j <= k => j \in 1..n
    BY <1>3
  <2> QED
    BY <1>1, <1>3, <1>6, <2>1 DEF HomeUntil
<1>7. ASSUME HomeUntil(a, n)
      PROVE  HomeUntil(a, n + 1)'
  <2>1. \A j \in 1..(n + 1) : (j \in 1..n /\ j <= n) \/ j = n + 1
    BY <1>3
  <2> QED
    BY <1>1, <1>3, <1>4, <1>7, <2>1 DEF HomeUntil
<1>8. ASSUME ~switched[a]
      PROVE  /\ room'[a] = Home /\ AtHome(a)' /\ HomeUntil(a, n + 1)'
             /\ \A i \in 1..(n + 1) : t[i].cmd # "PART"
  <2>1. /\ room[a] = Home /\ AtHome(a) /\ HomeUntil(a, n)
        /\ \A i \in 1..n : w[i].cmd # "PART"
    BY <1>1, <1>3, <1>8 DEF Routed
  <2>2. \A i \in 1..(n + 1) : i \in 1..n \/ i = n + 1
    BY <1>3
  <2> QED
    BY <1>3, <1>4, <1>5, <1>7, <2>1, <2>2
<1>9. ASSUME NEW i \in 1..(n + 1), t[i].cmd = "PART"
      PROVE  AtHome(a)' /\ HomeUntil(a, i)'
  <2>1. i \in 1..n /\ w[i].cmd = "PART"
    BY <1>3, <1>4, <1>9
  <2>2. AtHome(a) /\ HomeUntil(a, i)
    BY <1>1, <1>3, <2>1 DEF Routed
  <2> QED
    BY <1>5, <1>6, <2>1, <2>2
<1> QED
  BY <1>1, <1>3, <1>8, <1>9 DEF Routed

LEMMA RoutedSwitches ==
    ASSUME Sound, NEW a \in Addrs, Routed(a), NEW ch \in Channels, SwitchChannel(a, ch)
    PROVE  Routed(a)'
<1>1. PICK n, t, w, p, q : /\ n = Len(wire[a]) /\ t = wire'[a] /\ w = wire[a]
                           /\ p = InChannel("PART", room[a]) /\ q = InChannel("JOIN", ch)
  OBVIOUS
<1>2. room[a] \in Channels /\ phase[a] # "off" /\ ~switched[a] /\ switched'[a]
  BY DEF SwitchChannel, Sound, ClientTyped
<1>3. p \in Commands /\ q \in Commands
  BY <1>1, <1>2, CommandTyped
<1>4. t = w \o <<p, q>> /\ w \in Seq(Commands)
  BY <1>1, Wires DEF SwitchChannel, Sends, Sound, ClientTyped
<1>5. /\ n \in Nat /\ DOMAIN w = 1..n /\ DOMAIN t = 1..(n + 2)
      /\ \A i \in 1..n : t[i] = w[i]
      /\ t[n + 1] = p /\ t[n + 2] = q
  BY <1>1, <1>3, <1>4
<1>6. /\ room[a] = Home /\ AtHome(a) /\ HomeUntil(a, n)
      /\ \A i \in 1..n : w[i].cmd # "PART"
  BY <1>1, <1>2, <1>5 DEF Routed
<1>7. p.cmd = "PART" /\ p.channel = Home /\ q.cmd = "JOIN"
  BY <1>1, <1>6 DEF InChannel
<1>8. AtHome(a)' = AtHome(a)
  BY DEF AtHome, vars, state, SwitchChannel
<1>9. HomeUntil(a, n + 1)'
  BY <1>1, <1>5, <1>6, <1>7 DEF HomeUntil
<1>10. \A i \in 1..(n + 2) : t[i].cmd = "PART" => i = n + 1
  <2>1. \A i \in 1..(n + 2) : i \in 1..n \/ i = n + 1 \/ i = n + 2
    BY <1>5
  <2> QED
    BY <1>5, <1>6, <1>7, <2>1
<1> QED
  BY <1>1, <1>2, <1>5, <1>6, <1>8, <1>9, <1>10 DEF Routed

(* A step leaves the fields of other connections, and of their clients, alone. *)
Untouched(a) ==
    /\ phase'[a] = phase[a] /\ wire'[a] = wire[a] /\ room'[a] = room[a]
    /\ switched'[a] = switched[a] /\ task'[a] = task[a] /\ known'[a] = known[a]
    /\ left'[a] = left[a] /\ wiped'[a] = wiped[a]
    /\ \A c \in Channels : a \in channels'[c] <=> a \in channels[c]
    /\ pubkey'[a] = pubkey[a]

LEMMA OthersServed ==
    ASSUME Sound, NEW x \in Addrs, ServerStep(x), NEW a \in Addrs, a # x
    PROVE  Untouched(a)
<1> USE SoundParts DEF Untouched, Rest, user
<1>1. CASE ServerRegisters(x)
  BY <1>1 DEF ServerRegisters, Register, client
<1>2. CASE ServerReads(x)
  <2>1. /\ UNCHANGED Rest /\ wire' = [wire EXCEPT ![x] = Tail(@)]
        /\ Unheard(x) \/ \E c \in Channels : Part(x, c)
    BY <1>2, ServerReadsWhat DEF Unheard
  <2>2. wire'[a] = wire[a]
    BY <2>1 DEF Sound, ClientTyped
  <2>3. CASE Unheard(x)
    <3>1. UNCHANGED <<pubkey, channels>>
      BY <1>2, <2>3, ServerReadsWhat, UnheardMail
    <3>2. task'[a] = task[a]
      BY <2>3 DEF Unheard, Nick, User, HelloCheckNick, HelloCheckPow, JoinRead, Reading
    <3> QED
      BY <2>1, <2>2, <3>1, <3>2
  <2>4. CASE \E c \in Channels : Part(x, c)
    BY <2>1, <2>2, <2>4 DEF Part, Reading
  <2> QED
    BY <2>1, <2>3, <2>4
<1>3. CASE ServerContinues(x)
  <2>1. /\ UNCHANGED Rest /\ UNCHANGED wire /\ Deliver
        /\ JoinInsert(x) \/ HelloCheckPow(x) \/ HelloBind(x)
    BY <1>3, ServerContinuesWhat
  <2>2. CASE JoinInsert(x)
    BY <2>1, <2>2, Locals DEF JoinInsert
  <2>3. CASE HelloCheckPow(x)
    <3>1. UNCHANGED <<pubkey, channels>>
      BY <2>1, <2>3, UnheardMail DEF Unheard
    <3>2. task'[a] = task[a]
      BY <2>3 DEF HelloCheckPow
    <3> QED
      BY <2>1, <3>1, <3>2
  <2>4. CASE HelloBind(x)
    <3>1. pubkey' = [pubkey EXCEPT ![x] = KeyOf[x]] /\ UNCHANGED channels
      BY <2>1, <2>4, BindMail
    <3>2. task'[a] = task[a]
      BY <2>4 DEF HelloBind
    <3> QED
      BY <2>1, <3>1, <3>2
  <2> QED
    BY <2>1, <2>2, <2>3, <2>4
<1>4. CASE ServerCleansUp(x)
  <2>1. UNCHANGED Rest /\ UNCHANGED wire /\ Deliver /\ Disconnect(x)
    BY <1>4 DEF ServerCleansUp
  <2>2. channels' = [c \in Channels |-> channels[c] \ {x}]
    BY <2>1, QuitMail
  <2> QED
    BY <2>1, <2>2 DEF Disconnect
<1>5. CASE ServerReadFails(x)
  BY <1>5, ReadFails
<1> QED
  BY <1>1, <1>2, <1>3, <1>4, <1>5 DEF ServerStep

LEMMA OthersOwn ==
    ASSUME Sound, NEW x \in Addrs, ClientStep(x) \/ UserStep(x), NEW a \in Addrs, a # x
    PROVE  Untouched(a) /\ inbox'[a] = inbox[a]
<1> USE SoundParts DEF Untouched, user, vars, state, Sound, ClientTyped
<1>1. CASE HelloTimer(x)
  BY <1>1 DEF HelloTimer, Sends
<1>2. CASE JoinTimer(x)
  BY <1>2 DEF JoinTimer, Sends
<1>3. CASE ClientReads(x)
  BY <1>3 DEF ClientReads, Greet, Sends
<1>4. CASE LoopForgets(x)
  BY <1>4 DEF LoopForgets
<1>5. CASE ServerAccepts(x)
  BY <1>5 DEF ServerAccepts, Accept
<1>6. CASE Leave(x)
  BY <1>6 DEF Leave
<1>7. CASE \E ch \in Channels : SwitchChannel(x, ch)
  BY <1>7 DEF SwitchChannel, Sends
<1> QED
  BY <1>1, <1>2, <1>3, <1>4, <1>5, <1>6, <1>7 DEF ClientStep, UserStep

LEMMA RoutedByOthers ==
    ASSUME NEW a \in Addrs, Untouched(a), Routed(a)
    PROVE  Routed(a)'
  BY RoutedStays DEF Untouched

LEMMA RoutedServed ==
    ASSUME Sound, NEW a \in Addrs, Routed(a), ServerStep(a)
    PROVE  Routed(a)'
<1>1. CASE ServerRegisters(a)
  BY <1>1, SoundParts, RoutedStays DEF ServerRegisters, Register, client, user, At
<1>2. CASE ServerReads(a)
  <2>1. /\ UNCHANGED Rest /\ wire[a] # <<>> /\ wire'[a] = Tail(wire[a])
        /\ phase'[a] = phase[a] /\ room'[a] = room[a] /\ switched'[a] = switched[a]
    BY <1>2, ServerReadsWhat DEF Rest, user, Sound, ClientTyped
  <2>2. SUFFICES ASSUME AtHome(a), HomeUntil(a, 1)
                 PROVE  AtHome(a)'
    BY <2>1, RoutedTail
  <2>3. Head(wire[a]) = wire[a][1] /\ 1 \in DOMAIN wire[a] /\ 1 <= 1
    BY <2>1, Wires
  <2>4. ASSUME NEW c \in Channels, Head(wire[a]) = InChannel("JOIN", c), JoinRead(a, c)
        PROVE  AtHome(a)'
    <3>1. c = Home
      BY <2>2, <2>3, <2>4 DEF HomeUntil, InChannel
    <3>2. task'[a] = [at |-> "join", nick |-> nick[a], channel |-> c] /\ UNCHANGED channels
      BY <2>4, SoundParts DEF JoinRead, state
    <3> QED
      BY <2>2, <3>1, <3>2 DEF AtHome
  <2>5. ASSUME NEW c \in Channels, Part(a, c)
        PROVE  AtHome(a)'
    BY <2>2, <2>5, SoundParts DEF AtHome, Part, Reading
  <2>6. ASSUME Nick(a, NickOf[a]) \/ User(a) \/ HelloCheckNick(a, NickOf[a])
        PROVE  AtHome(a)'
    <3>1. UNCHANGED channels
      BY <1>2, <2>6, ServerReadsWhat, UnheardMail DEF Unheard
    <3>2. task'[a].at # "join"
      BY <2>6, SoundParts DEF Nick, User, HelloCheckNick, Reading
    <3> QED
      BY <2>2, <3>1, <3>2 DEF AtHome
  <2> QED
    BY <1>2, <2>4, <2>5, <2>6, ServerReadsWhat
<1>3. CASE ServerContinues(a)
  <2>1. /\ UNCHANGED Rest /\ UNCHANGED wire /\ Deliver
        /\ JoinInsert(a) \/ HelloCheckPow(a) \/ HelloBind(a)
    BY <1>3, ServerContinuesWhat
  <2>2. task'[a].at # "join"
    BY <2>1, SoundParts DEF JoinInsert, HelloCheckPow, HelloBind, At
  <2>3. CASE JoinInsert(a)
    <3>1. task[a].at = "join" /\ channels' = [channels EXCEPT ![task[a].channel] = @ \cup {a}]
      BY <2>3 DEF JoinInsert
    <3>2. AtHome(a) => AtHome(a)'
      BY <2>2, <3>1, Locals, SoundParts DEF AtHome
    <3>3. \A k : HomeUntil(a, k) => HomeUntil(a, k)'
      BY <2>1 DEF HomeUntil
    <3> QED
      BY <2>1, <3>2, <3>3 DEF Routed, Rest, user
  <2>4. CASE HelloCheckPow(a) \/ HelloBind(a)
    <3>1. UNCHANGED channels
      BY <2>1, <2>4, UnheardMail, BindMail DEF Unheard
    <3> QED
      BY <2>1, <2>2, <3>1, RoutedStays DEF Rest, user
  <2> QED
    BY <2>1, <2>3, <2>4
<1>4. CASE ServerCleansUp(a)
  BY <1>4 DEF ServerCleansUp, Routed
<1>5. CASE ServerReadFails(a)
  BY <1>5, ReadFails DEF Rest, Routed
<1> QED
  BY <1>1, <1>2, <1>3, <1>4, <1>5 DEF ServerStep

LEMMA RoutedOwn ==
    ASSUME Sound, NEW a \in Addrs, Routed(a), ClientStep(a) \/ UserStep(a)
    PROVE  Routed(a)'
<1>1. Cmd("HELLO") \in Commands /\ Cmd("HELLO").cmd = "HELLO"
  BY CommandTyped DEF Cmd
<1>2. InChannel("JOIN", Home) \in Commands
  BY CommandTyped, ClientAssumption
<1>3. CASE HelloTimer(a)
  <2>1. ~(phase[a] = "off") /\ phase' = [phase EXCEPT ![a] = "join"]
        /\ Sends(a, <<Cmd("HELLO")>>) /\ UNCHANGED vars /\ room' = room /\ switched' = switched
    BY <1>3 DEF HelloTimer, user
  <2> QED
    BY <1>1, <2>1, RoutedSends
<1>4. CASE JoinTimer(a)
  <2>1. ~(phase[a] = "off") /\ phase' = [phase EXCEPT ![a] = "on"]
        /\ Sends(a, <<InChannel("JOIN", Home)>>) /\ UNCHANGED vars /\ room' = room /\ switched' = switched
    BY <1>4 DEF JoinTimer, user
  <2> QED
    BY <1>2, <2>1, RoutedSends
<1>5. CASE ClientReads(a)
  <2>1. /\ phase[a] # "off" /\ phase' = phase /\ UNCHANGED vars /\ room' = room /\ switched' = switched
        /\ wire' = wire \/ Sends(a, <<Cmd("HELLO")>>)
    BY <1>5 DEF ClientReads, user, Greet
  <2>2. CASE wire' = wire
    BY <2>1, <2>2, RoutedStays DEF vars, state
  <2>3. CASE Sends(a, <<Cmd("HELLO")>>)
    BY <1>1, <2>1, <2>3, RoutedSends
  <2> QED
    BY <2>1, <2>2, <2>3
<1>6. CASE LoopForgets(a)
  BY <1>6, RoutedStays DEF LoopForgets, vars, state, user
<1>7. CASE ServerAccepts(a)
  <2>1. /\ wire'[a] = <<Cmd("NICK"), Cmd("USER")>> /\ room'[a] = Home /\ ~switched'[a]
        /\ task'[a].at = "handshake" /\ task[a].at = "none" /\ UNCHANGED channels
    BY <1>7, SoundParts DEF ServerAccepts, Accept, state, At, Sound, ClientTyped
  <2>2. \A c \in Channels : a \notin channels[c]
    BY <2>1, Members
  <2>3. AtHome(a)'
    BY <2>1, <2>2 DEF AtHome
  <2>4. \A i \in DOMAIN wire'[a] : wire'[a][i].cmd \in {"NICK", "USER"}
    BY <2>1 DEF Cmd
  <2>5. \A k : HomeUntil(a, k)'
    BY <2>4 DEF HomeUntil
  <2> QED
    BY <2>1, <2>3, <2>4, <2>5 DEF Routed
<1>8. CASE Leave(a)
  BY <1>8 DEF Leave, Routed, Sound, ClientTyped
<1>9. CASE \E ch \in Channels : SwitchChannel(a, ch)
  BY <1>9, RoutedSwitches
<1> QED
  BY <1>3, <1>4, <1>5, <1>6, <1>7, <1>8, <1>9 DEF ClientStep, UserStep

LEMMA StepRouted == Sound /\ AllRouted /\ [NextExchange]_allVars => AllRouted'
<1> SUFFICES ASSUME Sound, AllRouted, [NextExchange]_allVars, NEW a \in Addrs
             PROVE  Routed(a)'
  BY DEF AllRouted
<1>1. Routed(a)
  BY DEF AllRouted
<1>2. ASSUME NEW x \in Addrs, ServerStep(x) \/ ClientStep(x) \/ UserStep(x)
      PROVE  Routed(a)'
  BY <1>1, <1>2, OthersServed, OthersOwn, RoutedByOthers, RoutedServed, RoutedOwn
<1>3. CASE UNCHANGED allVars
  BY <1>1, <1>3, RoutedStays DEF allVars, client, user, vars, state
<1> QED
  BY <1>2, <1>3 DEF NextExchange

LEMMA InitRouted == InitExchange => AllRouted
  BY DEF InitExchange, AllRouted, Routed

-----------------------------------------------------------------------------
(* The inductive invariant, third part: why a client that has stayed in its *)
(* room knows nobody who has left.  Of a peer that is not there any more    *)
(* (or has not announced its key) no announcement in the inbox is without a *)
(* departure behind it, and a key still known has one ahead of it: in the   *)
(* inbox, or among the events the loop has yet to handle.                   *)

Departures(b) == {line \in Presences : line.cmd \in {"PART", "QUIT"} /\ line.nick = NickOf[b]}

Due(a, b) == \E i \in DOMAIN left[a] : left[a][i] = NickOf[b]

GivenUp(a, b) ==
    /\ ~Ends(inbox[a], Says(b), Departures(b))
    /\ known[a][NickOf[b]] # NoKey /\ Clear(inbox[a], Departures(b)) => Due(a, b)

Backed(a, b) == ~switched[a] => (InRoom(a, b) /\ pubkey[b] # NoKey) \/ GivenUp(a, b)

AllBacked == \A a, b \in Addrs : Backed(a, b)

LEMMA DepartureOf ==
    ASSUME NEW a \in Addrs, NEW b \in Addrs
    PROVE  /\ \A c \in Channels : Parting(a, c) \in Departures(b) <=> a = b
           /\ Quitting(a) \in Departures(b) <=> a = b
           /\ \A c \in Channels : Joining(a, c) \notin Departures(b)
           /\ Says(a) \notin Departures(b)
           /\ \A c \in Channels : Parting(a, c) # Says(b) /\ Joining(a, c) # Says(b)
           /\ Quitting(a) # Says(b)
           /\ a # b => Says(a) # Says(b)
<1>1. NickOf[a] = NickOf[b] <=> a = b
  BY OneNickEach
<1>2. \A c \in Channels : Parting(a, c) \in Presences /\ Joining(a, c) \in Presences
  BY ClientAssumption DEF Parting, Joining, Presences
<1>3. Quitting(a) \in Presences
  BY ClientAssumption DEF Quitting, Presences
<1> QED
  BY <1>1, <1>2, <1>3 DEF Departures, Parting, Joining, Quitting, Says

LEMMA InRoomKept ==
    ASSUME NEW a, NEW b, InRoom(a, b),
           \A c \in Channels : a \in channels[c] => a \in channels'[c],
           \A c \in Channels : b \in channels[c] => b \in channels'[c]
    PROVE  InRoom(a, b)'
  BY DEF InRoom

(* Nothing comes in for a. *)
LEMMA BackedKept ==
    ASSUME NEW a, NEW b, Backed(a, b), inbox'[a] = inbox[a],
           known'[a] = known[a], left'[a] = left[a], switched'[a] = switched[a],
           ~switched[a] /\ InRoom(a, b) /\ pubkey[b] # NoKey =>
               InRoom(a, b)' /\ pubkey'[b] # NoKey
    PROVE  Backed(a, b)'
  BY DEF Backed, GivenUp, Due

(* A line comes in for a that is not b's announcement. *)
LEMMA BackedSent ==
    ASSUME Sound, NEW a \in Addrs, NEW b \in Addrs, Backed(a, b),
           NEW y \in HeededLines, y # Says(b), inbox'[a] = Append(inbox[a], y),
           known'[a] = known[a], left'[a] = left[a], switched'[a] = switched[a],
           ~switched[a] /\ InRoom(a, b) /\ pubkey[b] # NoKey =>
               (InRoom(a, b)' /\ pubkey'[b] # NoKey) \/ y \in Departures(b)
    PROVE  Backed(a, b)'
<1> DEFINE S == Departures(b)
<1>1. Says(b) \notin S /\ inbox[a] \in Seq(HeededLines)
  BY DepartureOf, Inboxes
<1>2. Ends(inbox'[a], Says(b), S) => y \notin S /\ Ends(inbox[a], Says(b), S)
  BY <1>1, EndsAppend
<1>3. Clear(inbox'[a], S) <=> Clear(inbox[a], S) /\ y \notin S
  BY <1>1, ClearAppend
<1>4. GivenUp(a, b) \/ y \in S => GivenUp(a, b)'
  BY <1>2, <1>3 DEF GivenUp, Due
<1> QED
  BY <1>4 DEF Backed

LEMMA BackedMail ==
    ASSUME Sound, NEW a \in Addrs, NEW b \in Addrs, Backed(a, b), UNCHANGED Rest,
           phase[a] # "off", NEW to, NEW y \in HeededLines, Mail(to, y),
           y = Says(b) => a \notin to,
           ~switched[a] /\ InRoom(a, b) /\ pubkey[b] # NoKey =>
               (InRoom(a, b)' /\ pubkey'[b] # NoKey) \/ (a \in to /\ y \in Departures(b))
    PROVE  Backed(a, b)'
<1>1. known'[a] = known[a] /\ left'[a] = left[a] /\ switched'[a] = switched[a]
  BY DEF Rest, user
<1>2. inbox'[a] = IF a \in to THEN Append(inbox[a], y) ELSE inbox[a]
  BY DEF Mail
<1>3. CASE a \in to
  BY <1>1, <1>2, <1>3, BackedSent
<1>4. CASE a \notin to
  BY <1>1, <1>2, <1>4, BackedKept
<1> QED
  BY <1>3, <1>4

(* A client that has gone has forgotten everything. *)
LEMMA EmptyBacked ==
    ASSUME NEW a, NEW b \in Addrs, inbox'[a] = <<>>, known'[a] = NothingKnown
    PROVE  Backed(a, b)'
<1>1. NickOf[b] \in Nicks
  BY ClientAssumption
<1>2. NothingKnown[NickOf[b]] = NoKey
  BY <1>1 DEF NothingKnown
<1>3. ~Ends(inbox'[a], Says(b), Departures(b))
  BY EmptyQueue
<1> QED
  BY <1>2, <1>3 DEF Backed, GivenUp

LEMMA BackedServed ==
    ASSUME Sound, Sound', NEW x \in Addrs, ServerStep(x), NEW a \in Addrs, NEW b \in Addrs,
           Routed(a), Backed(a, b)
    PROVE  Backed(a, b)'
<1>1. CASE phase'[a] = "off"
  BY <1>1, EmptyBacked DEF Sound, Identified, KnowsTheirs
<1>2. CASE ServerRegisters(x)
  <2>1. Register(x) /\ UNCHANGED client /\ UNCHANGED channels /\ pubkey' = pubkey
    BY <1>2, RegisterSound DEF ServerRegisters, Register
  <2> QED
    BY <2>1, BackedKept DEF client, user, InRoom
<1>3. ASSUME ServerReads(x), phase'[a] # "off"
      PROVE  Backed(a, b)'
  <2>1. /\ Deliver /\ UNCHANGED Rest /\ wire[x] # <<>> /\ phase[a] # "off"
        /\ Unheard(x) \/ \E c \in Channels : Head(wire[x]) = InChannel("PART", c) /\ Part(x, c)
    BY <1>3, ServerReadsWhat DEF Unheard, Rest
  <2>2. CASE Unheard(x)
    <3>1. inbox' = inbox /\ UNCHANGED <<pubkey, channels>>
      BY <2>1, <2>2, UnheardMail
    <3> QED
      BY <2>1, <3>1, BackedKept DEF Rest, user, InRoom
  <2>3. ASSUME NEW c \in Channels, Head(wire[x]) = InChannel("PART", c), Part(x, c)
        PROVE  Backed(a, b)'
    <3>1. Mail(channels[c] \ {x}, Parting(x, c)) /\ Parting(x, c) \in HeededLines
      BY <2>1, <2>3, PartMail, LineTyped
    <3>2. channels' = [channels EXCEPT ![c] = @ \ {x}] /\ pubkey' = pubkey
      BY <2>3 DEF Part
    <3>3. ~switched[a] => x # a
      <4>1. SUFFICES ASSUME ~switched[a], x = a
                     PROVE  FALSE
        OBVIOUS
      <4>2. \A i \in DOMAIN wire[a] : wire[a][i].cmd # "PART"
        BY <2>1, <4>1 DEF Routed
      <4>3. Head(wire[a]) = wire[a][1] /\ 1 \in DOMAIN wire[a]
        BY <2>1, <4>1, Wires
      <4> QED
        BY <2>3, <4>1, <4>2, <4>3 DEF InChannel
    <3>4. ~switched[a] /\ InRoom(a, b) =>
             InRoom(a, b)' \/ (a \in channels[c] \ {x} /\ Parting(x, c) \in Departures(b))
      <4>1. SUFFICES ASSUME ~switched[a], InRoom(a, b), ~(x = b /\ a \in channels[c])
                     PROVE  InRoom(a, b)'
        BY <3>3, DepartureOf
      <4>2. PICK d \in Channels : a # b /\ a \in channels[d] /\ b \in channels[d]
        BY <4>1 DEF InRoom
      <4>3. a \in channels'[d] /\ b \in channels'[d]
        BY <3>2, <3>3, <4>1, <4>2, SoundParts
      <4> QED
        BY <4>2, <4>3 DEF InRoom
    <3>5. Parting(x, c) # Says(b)
      BY DepartureOf
    <3> HIDE DEF Parting
    <3> QED
      BY <2>1, <3>1, <3>2, <3>4, <3>5, BackedMail
  <2> QED
    BY <2>1, <2>2, <2>3
<1>4. ASSUME ServerContinues(x), phase'[a] # "off"
      PROVE  Backed(a, b)'
  <2>1. /\ Deliver /\ UNCHANGED Rest /\ phase[a] # "off"
        /\ JoinInsert(x) \/ HelloCheckPow(x) \/ HelloBind(x)
    BY <1>4, ServerContinuesWhat DEF Rest
  <2>2. CASE JoinInsert(x)
    <3>1. PICK c \in Channels : /\ channels' = [channels EXCEPT ![c] = @ \cup {x}]
                                /\ Mail(channels[c] \cup {x}, Joining(x, c))
      BY <2>1, <2>2, JoinMail
    <3>2. pubkey' = pubkey
      BY <2>2 DEF JoinInsert
    <3>3. Joining(x, c) # Says(b) /\ Joining(x, c) \in HeededLines
      BY DepartureOf, LineTyped
    <3>4. InRoom(a, b) => InRoom(a, b)'
      BY <3>1, InRoomKept, SoundParts
    <3> QED
      BY <2>1, <3>1, <3>2, <3>3, <3>4, BackedMail
  <2>3. CASE HelloCheckPow(x)
    <3>1. inbox' = inbox /\ UNCHANGED <<pubkey, channels>>
      BY <2>1, <2>3, UnheardMail DEF Unheard
    <3> QED
      BY <2>1, <3>1, BackedKept DEF Rest, user, InRoom
  <2>4. CASE HelloBind(x)
    <3>1. /\ Mail(CoMembers(x), Says(x)) /\ Says(x) \in HeededLines /\ UNCHANGED channels
          /\ pubkey' = [pubkey EXCEPT ![x] = KeyOf[x]] /\ KeyOf[x] # NoKey
      BY <2>1, <2>4, BindMail, LineTyped, Members
    <3>2. InRoom(a, b)' <=> InRoom(a, b)
      BY <3>1 DEF InRoom
    <3>3. CASE x = b /\ a \in CoMembers(b)
      <4>1. InRoom(a, b)
        BY <3>3 DEF InRoom, CoMembers
      <4>2. pubkey'[b] # NoKey
        BY <3>1, <3>3, SoundParts
      <4> QED
        BY <3>2, <4>1, <4>2 DEF Backed
    <3>4. CASE ~(x = b /\ a \in CoMembers(b))
      <4>1. Says(x) = Says(b) => a \notin CoMembers(x)
        BY <3>4, DepartureOf
      <4>2. pubkey[b] # NoKey => pubkey'[b] # NoKey
        BY <3>1, SoundParts
      <4> QED
        BY <2>1, <3>1, <3>2, <4>1, <4>2, BackedMail
    <3> QED
      BY <3>3, <3>4
  <2> QED
    BY <2>1, <2>2, <2>3, <2>4
<1>5. ASSUME ServerCleansUp(x), phase'[a] # "off"
      PROVE  Backed(a, b)'
  <2>1. /\ Deliver /\ UNCHANGED Rest /\ Disconnect(x) /\ phase[x] = "off" /\ phase[a] # "off"
    BY <1>5 DEF ServerCleansUp, Rest
  <2>2. /\ channels' = [c \in Channels |-> channels[c] \ {x}] /\ x # a
        /\ Mail(CoMembers(x), Quitting(x)) /\ Quitting(x) \in HeededLines
        /\ pubkey' = [pubkey EXCEPT ![x] = NoKey]
    BY <2>1, QuitMail, LineTyped DEF Disconnect
  <2>3. Quitting(x) # Says(b) /\ Quitting(b) \in Departures(b)
    BY DepartureOf
  <2>4. CASE x = b
    <3>1. InRoom(a, b) => a \in CoMembers(x)
      BY <2>4 DEF InRoom, CoMembers
    <3> QED
      BY <2>1, <2>2, <2>3, <2>4, <3>1, BackedMail
  <2>5. CASE x # b
    <3>1. InRoom(a, b) => InRoom(a, b)'
      BY <2>2, <2>5, InRoomKept
    <3>2. pubkey'[b] = pubkey[b]
      BY <2>2, <2>5, SoundParts
    <3> QED
      BY <2>1, <2>2, <2>3, <3>1, <3>2, BackedMail
  <2> QED
    BY <2>4, <2>5
<1>6. CASE ServerReadFails(x)
  BY <1>6, ReadFails, BackedKept DEF Rest, user, InRoom
<1> QED
  BY <1>1, <1>2, <1>3, <1>4, <1>5, <1>6 DEF ServerStep

LEMMA DepartureFields ==
    ASSUME NEW line \in HeededLines, NEW b \in Addrs
    PROVE  line \in Departures(b) <=> line.cmd \in {"PART", "QUIT"} /\ line.nick = NickOf[b]
<1>1. line \in Presences \/ \E x \in Addrs : line = Says(x)
  BY DEF HeededLines, Announcements
<1> QED
  BY <1>1 DEF Departures, Says

LEMMA BackedReads ==
    ASSUME Sound, NEW a \in Addrs, ClientReads(a), NEW b \in Addrs, Backed(a, b)
    PROVE  Backed(a, b)'
<1> DEFINE line == Head(inbox[a])
           n == NickOf[b]
           S == Departures(b)
<1>1. /\ UNCHANGED vars /\ UNCHANGED user /\ inbox[a] # <<>>
      /\ inbox'[a] = Tail(inbox[a]) /\ inbox[a] \in Seq(HeededLines)
  BY Inboxes DEF ClientReads, Sound, ClientTyped
<1>2. line \in HeededLines
  BY <1>1, Heads
<1>3. InRoom(a, b)' = InRoom(a, b) /\ pubkey'[b] = pubkey[b] /\ switched'[a] = switched[a]
  BY <1>1 DEF InRoom, vars, state, user
<1>4. SUFFICES ASSUME GivenUp(a, b)
               PROVE  GivenUp(a, b)'
  BY <1>3 DEF Backed
<1>5. ~Ends(inbox'[a], Says(b), S) /\ ~(line = Says(b) /\ Clear(inbox'[a], S))
  BY <1>1, <1>4, EndsTail DEF GivenUp
<1>6. Clear(inbox[a], S) <=> line \notin S /\ Clear(inbox'[a], S)
  BY <1>1, ClearTail
<1>7. /\ n \in Nicks /\ known[a] \in [Nicks -> Keys \cup {NoKey}]
      /\ left[a] \in Seq(Nicks)
  BY ClientAssumption DEF Sound, ClientTyped
<1>8. SUFFICES ASSUME known'[a][n] # NoKey, Clear(inbox'[a], S)
               PROVE  Due(a, b)'
  BY <1>5 DEF GivenUp
<1>9. CASE line.cmd = "JOIN"
  <2>1. UNCHANGED <<known, left>> /\ line \notin S
    BY <1>2, <1>9, DepartureFields DEF ClientReads
  <2> QED
    BY <1>4, <1>6, <1>8, <2>1 DEF GivenUp, Due
<1>10. CASE line.cmd \in {"PART", "QUIT"}
  <2>1. /\ known'[a] = Forget(known[a], line.nick)
        /\ left'[a] = Append(left[a], line.nick) /\ line.nick \in Nicks
    BY <1>2, <1>10, LineFields DEF ClientReads, Sound, ClientTyped
  <2>2. line.nick # n /\ known[a][n] # NoKey
    BY <1>7, <1>8, <2>1 DEF Forget
  <2>3. line \notin S
    BY <1>2, <2>2, DepartureFields
  <2>4. PICK i \in DOMAIN left[a] : left[a][i] = n
    BY <1>4, <1>6, <1>8, <2>2, <2>3 DEF GivenUp, Due
  <2>5. i \in DOMAIN left'[a] /\ left'[a][i] = n
    BY <1>7, <2>1, <2>4, Appended
  <2> QED
    BY <2>5 DEF Due
<1>11. CASE line.cmd = "PUBKEY"
  <2>1. PICK x \in Addrs : line = Says(x)
    BY <1>2, <1>11, LineFields
  <2>2. known'[a] = Learn(known[a], line) /\ left' = left
    BY <1>11 DEF ClientReads, Sound, ClientTyped
  <2>3. line \notin S /\ line # Says(b)
    BY <1>5, <1>8, <2>1, DepartureOf
  <2>4. n # NickOf[x]
    BY <2>1, <2>3, OneNickEach
  <2>5. known'[a][n] = known[a][n]
    BY <1>7, <2>1, <2>2, <2>4, Learnt
  <2> QED
    BY <1>4, <1>6, <1>8, <2>2, <2>3, <2>5 DEF GivenUp, Due
<1> QED
  BY <1>2, <1>9, <1>10, <1>11, LineFields

LEMMA BackedLoop ==
    ASSUME Sound, NEW a \in Addrs, LoopForgets(a), NEW b \in Addrs, Backed(a, b)
    PROVE  Backed(a, b)'
<1> DEFINE n == NickOf[b]
<1>1. PICK m, q : m = Head(left[a]) /\ q = left[a]
  OBVIOUS
<1>2. /\ UNCHANGED vars /\ UNCHANGED user /\ inbox'[a] = inbox[a]
      /\ q \in Seq(Nicks) /\ q # <<>> /\ left'[a] = Tail(q)
      /\ known'[a] = Forget(known[a], m)
  BY <1>1 DEF LoopForgets, Sound, ClientTyped
<1>3. InRoom(a, b)' = InRoom(a, b) /\ pubkey'[b] = pubkey[b] /\ switched'[a] = switched[a]
  BY <1>2 DEF InRoom, vars, state, user
<1>4. SUFFICES ASSUME GivenUp(a, b), known'[a][n] # NoKey, Clear(inbox[a], Departures(b))
               PROVE  Due(a, b)'
  BY <1>2, <1>3 DEF Backed, GivenUp
<1>5. n \in Nicks /\ known[a] \in [Nicks -> Keys \cup {NoKey}]
  BY ClientAssumption DEF Sound, ClientTyped
<1>6. n # m /\ known[a][n] # NoKey
  BY <1>2, <1>4, <1>5 DEF Forget
<1>7. PICK i \in DOMAIN q : q[i] = n
  BY <1>1, <1>4, <1>6 DEF GivenUp, Due
<1>8. i # 1 /\ i - 1 \in DOMAIN Tail(q) /\ Tail(q)[i - 1] = n
  BY <1>1, <1>2, <1>6, <1>7, Tailed
<1> QED
  BY <1>2, <1>8 DEF Due

LEMMA BackedOwn ==
    ASSUME Sound, Sound', NEW a \in Addrs, ClientStep(a) \/ UserStep(a), NEW b \in Addrs,
           Backed(a, b)
    PROVE  Backed(a, b)'
<1> USE DEF user, vars, state, InRoom
<1>1. CASE HelloTimer(a) \/ JoinTimer(a)
  BY <1>1, BackedKept DEF HelloTimer, JoinTimer
<1>2. CASE ClientReads(a) \/ LoopForgets(a)
  BY <1>2, BackedReads, BackedLoop
<1>3. CASE ServerAccepts(a)
  <2>1. inbox'[a] = <<>> /\ known'[a] = NothingKnown
    BY <1>3, Inboxes DEF ServerAccepts, Sound, ClientTyped
  <2> QED
    BY <2>1, EmptyBacked
<1>4. CASE Leave(a)
  BY <1>4, EmptyBacked DEF Leave, Sound, ClientTyped
<1>5. CASE \E ch \in Channels : SwitchChannel(a, ch)
  BY <1>5 DEF SwitchChannel, Backed, Sound, ClientTyped
<1> QED
  BY <1>1, <1>2, <1>3, <1>4, <1>5 DEF ClientStep, UserStep

LEMMA StepBacked == Sound /\ AllRouted /\ AllBacked /\ [NextExchange]_allVars => AllBacked'
<1> SUFFICES ASSUME Sound, AllRouted, AllBacked, [NextExchange]_allVars,
                    NEW a \in Addrs, NEW b \in Addrs
             PROVE  Backed(a, b)'
  BY DEF AllBacked
<1>1. Sound' /\ Routed(a) /\ Backed(a, b)
  BY StepSound DEF AllRouted, AllBacked
<1>2. ASSUME NEW x \in Addrs, ServerStep(x)
      PROVE  Backed(a, b)'
  BY <1>1, <1>2, BackedServed
<1>3. ASSUME NEW x \in Addrs, ClientStep(x) \/ UserStep(x)
      PROVE  Backed(a, b)'
  <2>1. CASE x = a
    BY <1>1, <1>3, <2>1, BackedOwn
  <2>2. CASE x # a
    <3>1. Untouched(a) /\ inbox'[a] = inbox[a]
      BY <1>3, <2>2, OthersOwn
    <3>2. channels' = channels /\ pubkey' = pubkey
      BY <1>3 DEF ClientStep, UserStep, HelloTimer, JoinTimer, ClientReads, LoopForgets,
                  ServerAccepts, Accept, Leave, SwitchChannel, vars, state
    <3> QED
      BY <1>1, <3>1, <3>2, BackedKept DEF Untouched, InRoom
  <2> QED
    BY <2>1, <2>2
<1>4. CASE UNCHANGED allVars
  BY <1>1, <1>4, BackedKept DEF allVars, client, user, vars, state, InRoom
<1> QED
  BY <1>2, <1>3, <1>4 DEF NextExchange

LEMMA InitBacked == InitExchange => AllBacked
<1> SUFFICES ASSUME InitExchange, NEW a \in Addrs, NEW b \in Addrs
             PROVE  GivenUp(a, b)
  BY DEF AllBacked, Backed
<1>1. known[a][NickOf[b]] = NoKey /\ inbox[a] = <<>>
  BY ClientAssumption DEF InitExchange, NothingKnown
<1> QED
  BY <1>1, EmptyQueue DEF GivenUp

LEMMA Present ==
    ASSUME Sound, NEW a \in Addrs, NEW c \in Channels, a \in channels[c]
    PROVE  /\ a \in clients /\ nick[a] = NickOf[a]
           /\ task[a].at \notin {"none", "handshake"}
  BY Members

LEMMA InRoomTwo ==
    ASSUME NEW a, NEW b, InRoom(a, b)
    PROVE  a # b /\ InRoom(b, a) /\ \E c \in Channels : a \in channels[c] /\ b \in channels[c]
  BY DEF InRoom

(* A key outlives the peer in a client that has stayed in its room only     *)
(* where the server has not noticed that he has gone: once everything has   *)
(* been read and handled, it knows keys of members of its room, those the   *)
(* server has for them, and each of them is there or left by a read error.  *)
THEOREM NoKeyOutlives == SpecExchange => []NoKeyOutlivesItsPeer
<1>1. Sound /\ AllBacked => NoKeyOutlivesItsPeer
  <2> SUFFICES ASSUME Sound, AllBacked, Settled, NEW a \in Addrs, ~switched[a],
                      NEW n \in Nicks, known[a][n] # NoKey
               PROVE  \E b \in Addrs : NickOf[b] = n /\ KnowsRightly(a, b)
    BY DEF NoKeyOutlivesItsPeer
  <2>1. PICK b \in Addrs : n = NickOf[b] /\ known[a][n] = KeyOf[b]
    BY SoundParts DEF KnowsTheirs
  <2>2. inbox[a] = <<>> /\ left[a] = <<>>
    BY DEF Settled
  <2>3. Clear(inbox[a], Departures(b)) /\ ~Due(a, b)
    BY <2>2 DEF Clear, Due
  <2>4. InRoom(a, b) /\ pubkey[b] # NoKey
    BY <2>1, <2>3 DEF AllBacked, Backed, GivenUp
  <2>5. pubkey[b] = KeyOf[b]
    BY <2>4, SoundParts DEF Served
  <2>6. task[b].at # "none"
    BY <2>4, InRoomTwo, Present
  <2>7. phase[b] = "on" \/ Ghost(b)
    BY <2>6 DEF Settled, Ghost
  <2> QED
    BY <2>1, <2>4, <2>5, <2>7 DEF Knows, KnowsRightly
<1>2. InitExchange => Sound /\ AllRouted /\ AllBacked
  BY InitSound, InitRouted, InitBacked
<1>3. Sound /\ AllRouted /\ AllBacked /\ [NextExchange]_allVars => (Sound /\ AllRouted /\ AllBacked)'
  BY StepSound, StepRouted, StepBacked
<1> QED
  BY <1>1, <1>2, <1>3, PTL DEF SpecExchange

-----------------------------------------------------------------------------
(* The inductive invariant, fourth part: of two people who are in a room    *)
(* and stay there, one is about to tell the other his key, or has told it.  *)

Queued(a, c) == \E i \in DOMAIN wire[a] : wire[a][i].cmd = c

Greets(a, b) == \E i \in DOMAIN inbox[a] : inbox[a][i].cmd = "JOIN" /\ inbox[a][i].nick = NickOf[b]

Staying(a) == phase[a] # "off" /\ ~Queued(a, "PART")

AboutToTell(a, b) ==
    Greets(a, b) \/ Queued(a, "HELLO") \/ task[a].at \in {"helloPow", "helloBind"}

Told(a, b) ==
    /\ pubkey[a] = KeyOf[a]
    /\ \/ Ends(inbox[b], Says(a), Departures(a))
       \/ known[b][NickOf[a]] # NoKey /\ Clear(inbox[b], Departures(a))

Tells(a, b) == Strong(a) => AboutToTell(a, b) \/ Told(a, b)

OneTells ==
    \A a, b \in Addrs :
        InRoom(a, b) /\ Staying(a) /\ Staying(b) =>
            Tells(a, b) \/ Tells(b, a) \/ LateWipe(a, b)

LEMMA QueuedTail ==
    ASSUME Sound, NEW a \in Addrs, wire[a] # <<>>, wire'[a] = Tail(wire[a]), NEW c
    PROVE  Queued(a, c) <=> Head(wire[a]).cmd = c \/ Queued(a, c)'
<1>1. PICK q, t, n : q = wire[a] /\ t = wire'[a] /\ n = Len(q)
  OBVIOUS
<1>2. /\ n \in Nat /\ n > 0 /\ DOMAIN q = 1..n /\ DOMAIN t = 1..(n - 1)
      /\ \A i \in 1..(n - 1) : t[i] = q[i + 1]
      /\ Head(wire[a]) = q[1]
  BY <1>1, Wires, Tailed
<1>3. ASSUME NEW i \in 1..n, q[i].cmd = c
      PROVE  q[1].cmd = c \/ \E j \in 1..(n - 1) : t[j].cmd = c
  <2>1. CASE i = 1
    BY <1>3, <2>1
  <2>2. CASE i # 1
    <3>1. i - 1 \in 1..(n - 1) /\ (i - 1) + 1 = i
      BY <1>2, <2>2
    <3> QED
      BY <1>2, <1>3, <3>1
  <2> QED
    BY <2>1, <2>2
<1>4. ASSUME NEW j \in 1..(n - 1), t[j].cmd = c
      PROVE  \E i \in 1..n : q[i].cmd = c
  <2>1. j + 1 \in 1..n /\ q[j + 1].cmd = c
    BY <1>2, <1>4
  <2> QED
    BY <2>1
<1>5. q[1].cmd = c => \E i \in 1..n : q[i].cmd = c
  BY <1>2
<1> QED
  BY <1>1, <1>2, <1>3, <1>4, <1>5 DEF Queued

LEMMA QueuedSends ==
    ASSUME Sound, NEW a \in Addrs, NEW commands \in Seq(Commands), Sends(a, commands), NEW c
    PROVE  /\ Queued(a, c) => Queued(a, c)'
           /\ \A i \in DOMAIN commands : commands[i].cmd = c => Queued(a, c)'
<1>1. PICK q, t, n, m : q = wire[a] /\ t = wire'[a] /\ n = Len(q) /\ m = Len(commands)
  OBVIOUS
<1>2. q \in Seq(Commands) /\ t = q \o commands
  BY <1>1, Wires DEF Sends, Sound, ClientTyped
<1>3. /\ n \in Nat /\ m \in Nat /\ DOMAIN q = 1..n /\ DOMAIN commands = 1..m
      /\ DOMAIN t = 1..(n + m)
      /\ \A i \in 1..n : t[i] = q[i]
      /\ \A i \in 1..m : t[n + i] = commands[i]
  BY <1>1, <1>2
<1>4. \A i \in 1..n : i \in 1..(n + m)
  BY <1>3
<1>5. \A i \in 1..m : n + i \in 1..(n + m)
  BY <1>3
<1>6. Queued(a, c) => Queued(a, c)'
  BY <1>1, <1>3, <1>4 DEF Queued
<1>7. ASSUME NEW i \in 1..m, commands[i].cmd = c
      PROVE  Queued(a, c)'
  BY <1>1, <1>3, <1>5, <1>7 DEF Queued
<1> QED
  BY <1>3, <1>6, <1>7

LEMMA GreetsAppend ==
    ASSUME Sound, NEW a \in Addrs, NEW b, NEW y \in HeededLines, inbox'[a] = Append(inbox[a], y)
    PROVE  /\ Greets(a, b) => Greets(a, b)'
           /\ y.cmd = "JOIN" /\ y.nick = NickOf[b] => Greets(a, b)'
<1>1. PICK q, t, n : q = inbox[a] /\ t = inbox'[a] /\ n = Len(q)
  OBVIOUS
<1>2. /\ n \in Nat /\ DOMAIN q = 1..n /\ DOMAIN t = 1..(n + 1)
      /\ \A i \in 1..n : t[i] = q[i]
      /\ t[n + 1] = y
  BY <1>1, Inboxes, Appended
<1>3. n + 1 \in 1..(n + 1) /\ \A i \in 1..n : i \in 1..(n + 1)
  BY <1>2
<1> QED
  BY <1>1, <1>2, <1>3 DEF Greets

LEMMA GreetsTail ==
    ASSUME Sound, NEW a \in Addrs, NEW b, inbox[a] # <<>>, inbox'[a] = Tail(inbox[a]),
           Greets(a, b)
    PROVE  Greets(a, b)' \/ (Head(inbox[a]).cmd = "JOIN" /\ Head(inbox[a]).nick = NickOf[b])
<1>1. PICK q, t, n : q = inbox[a] /\ t = inbox'[a] /\ n = Len(q)
  OBVIOUS
<1>2. /\ n \in Nat /\ n > 0 /\ DOMAIN q = 1..n /\ DOMAIN t = 1..(n - 1)
      /\ \A i \in 1..(n - 1) : t[i] = q[i + 1]
      /\ Head(inbox[a]) = q[1]
  BY <1>1, Inboxes, Tailed
<1>3. PICK i \in 1..n : q[i].cmd = "JOIN" /\ q[i].nick = NickOf[b]
  BY <1>1, <1>2 DEF Greets
<1>4. CASE i = 1
  BY <1>2, <1>3, <1>4
<1>5. CASE i # 1
  <2>1. i - 1 \in 1..(n - 1) /\ (i - 1) + 1 = i
    BY <1>2, <1>5
  <2>2. t[i - 1] = q[(i - 1) + 1]
    BY <1>2, <2>1
  <2>3. t[i - 1] = q[i]
    BY <2>1, <2>2
  <2> QED
    BY <1>1, <1>2, <1>3, <2>1, <2>3 DEF Greets
<1> QED
  BY <1>4, <1>5

(* A user in a room is registered and has his nick. *)
OfNoStaying(line) == \A a \in Addrs : line \in Departures(a) => ~Staying(a)

(* The server adds one line at most to an inbox; a departure only of a user *)
(* who has sent PART or has gone.                                           *)
LEMMA ServerMails ==
    ASSUME Sound, NEW x \in Addrs, ServerStep(x), NEW z \in Addrs, phase[z] # "off"
    PROVE  \/ inbox'[z] = inbox[z]
           \/ \E y \in HeededLines :
                 inbox'[z] = Append(inbox[z], y) /\ OfNoStaying(y)
<1>1. ASSUME NEW to, NEW y \in HeededLines, Mail(to, y), OfNoStaying(y)
      PROVE  \/ inbox'[z] = inbox[z]
             \/ \E l \in HeededLines : inbox'[z] = Append(inbox[z], l) /\ OfNoStaying(l)
  BY <1>1 DEF Mail
<1>2. CASE ServerRegisters(x)
  BY <1>2 DEF ServerRegisters, client
<1>3. CASE ServerReads(x)
  <2>1. /\ Deliver /\ wire[x] # <<>>
        /\ Unheard(x) \/ \E c \in Channels : Head(wire[x]) = InChannel("PART", c) /\ Part(x, c)
    BY <1>3, ServerReadsWhat DEF Unheard
  <2>2. CASE Unheard(x)
    BY <2>1, <2>2, UnheardMail
  <2>3. ASSUME NEW c \in Channels, Head(wire[x]) = InChannel("PART", c), Part(x, c)
        PROVE  \/ inbox'[z] = inbox[z]
               \/ \E l \in HeededLines : inbox'[z] = Append(inbox[z], l) /\ OfNoStaying(l)
    <3>1. Mail(channels[c] \ {x}, Parting(x, c)) /\ Parting(x, c) \in HeededLines
      BY <2>1, <2>3, PartMail, LineTyped
    <3>2. Head(wire[x]) = wire[x][1] /\ 1 \in DOMAIN wire[x]
      BY <2>1, Wires
    <3>3. ~Staying(x)
      BY <2>3, <3>2 DEF Staying, Queued, InChannel
    <3>4. OfNoStaying(Parting(x, c))
      BY <3>3, DepartureOf DEF OfNoStaying
    <3> QED
      BY <1>1, <3>1, <3>4
  <2> QED
    BY <2>1, <2>2, <2>3
<1>4. CASE ServerContinues(x)
  <2>1. Deliver /\ (JoinInsert(x) \/ HelloCheckPow(x) \/ HelloBind(x))
    BY <1>4, ServerContinuesWhat
  <2>2. CASE JoinInsert(x)
    <3>1. PICK c \in Channels : Mail(channels[c] \cup {x}, Joining(x, c))
      BY <2>1, <2>2, JoinMail
    <3>2. Joining(x, c) \in HeededLines /\ OfNoStaying(Joining(x, c))
      BY DepartureOf, LineTyped DEF OfNoStaying
    <3> QED
      BY <1>1, <3>1, <3>2
  <2>3. CASE HelloCheckPow(x)
    BY <2>1, <2>3, UnheardMail DEF Unheard
  <2>4. CASE HelloBind(x)
    <3>1. Mail(CoMembers(x), Says(x)) /\ Says(x) \in HeededLines /\ OfNoStaying(Says(x))
      BY <2>1, <2>4, BindMail, LineTyped, DepartureOf DEF OfNoStaying
    <3> QED
      BY <1>1, <3>1
  <2> QED
    BY <2>1, <2>2, <2>3, <2>4
<1>5. CASE ServerCleansUp(x)
  <2>1. Deliver /\ Disconnect(x) /\ phase[x] = "off"
    BY <1>5 DEF ServerCleansUp
  <2>2. Mail(CoMembers(x), Quitting(x)) /\ Quitting(x) \in HeededLines
    BY <2>1, QuitMail, LineTyped
  <2>3. OfNoStaying(Quitting(x))
    BY <2>1, DepartureOf DEF Staying, OfNoStaying
  <2> QED
    BY <1>1, <2>2, <2>3
<1>6. CASE ServerReadFails(x)
  BY <1>6, ReadFails
<1> QED
  BY <1>2, <1>3, <1>4, <1>5, <1>6 DEF ServerStep

LEMMA ServerRest == ASSUME Sound, NEW x \in Addrs, ServerStep(x) PROVE UNCHANGED Rest
<1>1. CASE ServerRegisters(x)
  BY <1>1 DEF ServerRegisters, client, Rest
<1>2. CASE ServerReads(x) \/ ServerContinues(x)
  BY <1>2, ServerReadsWhat, ServerContinuesWhat
<1>3. CASE ServerCleansUp(x)
  BY <1>3 DEF ServerCleansUp, Rest
<1>4. CASE ServerReadFails(x)
  BY <1>4, ReadFails
<1> QED
  BY <1>1, <1>2, <1>3, <1>4 DEF ServerStep

(* The server makes nobody stay: whose PART it has read is in no room. *)
LEMMA StayedServed ==
    ASSUME Sound, NEW x \in Addrs, ServerStep(x), NEW a \in Addrs, Routed(a), Staying(a)',
           NEW c \in Channels, a \in channels'[c]
    PROVE  Staying(a)
<1>1. phase[a] # "off" /\ phase'[a] = phase[a]
  BY ServerRest DEF Staying, Rest
<1>2. CASE wire'[a] = wire[a]
  BY <1>1, <1>2 DEF Staying, Queued
<1>3. CASE x # a
  BY <1>2, <1>3, OthersServed DEF Untouched
<1>4. CASE x = a /\ ServerReads(a)
  <2>1. wire[a] # <<>> /\ wire'[a] = Tail(wire[a])
    BY <1>4, ServerReadsWhat DEF Sound, ClientTyped
  <2>2. CASE Head(wire[a]).cmd = "PART"
    <3>1. PICK d \in Channels : Head(wire[a]) = InChannel("PART", d) /\ Part(a, d)
      <4>1. /\ Head(wire[a]).cmd \notin {"NICK", "USER", "HELLO"}
            /\ \A d \in Channels : Head(wire[a]) # InChannel("JOIN", d)
        BY <2>2 DEF InChannel
      <4> QED
        BY <1>4, <4>1, ServerReadsWhat
    <3>2. Head(wire[a]) = wire[a][1] /\ 1 \in DOMAIN wire[a]
      BY <2>1, Wires
    <3>3. AtHome(a) /\ HomeUntil(a, 1)
      BY <1>1, <2>2, <3>2 DEF Routed
    <3>4. d = Home
      BY <3>1, <3>2, <3>3 DEF HomeUntil, InChannel
    <3>5. channels' = [channels EXCEPT ![Home] = @ \ {a}]
      BY <3>1, <3>4 DEF Part
    <3>6. a \notin channels'[c]
      BY <3>3, <3>5, SoundParts DEF AtHome
    <3> QED
      BY <3>6
  <2>3. CASE Head(wire[a]).cmd # "PART"
    BY <1>1, <2>1, <2>3, QueuedTail DEF Staying
  <2> QED
    BY <2>2, <2>3
<1>5. CASE x = a /\ ~ServerReads(a)
  <2>1. UNCHANGED wire
    BY <1>5, ServerContinuesWhat, ReadFails DEF ServerStep, ServerRegisters, client, ServerCleansUp
  <2> QED
    BY <1>2, <2>1
<1> QED
  BY <1>3, <1>4, <1>5

LEMMA BoundServed ==
    ASSUME Sound, NEW x \in Addrs, ServerStep(x), NEW a \in Addrs, phase[a] # "off",
           pubkey[a] = KeyOf[a]
    PROVE  pubkey'[a] = KeyOf[a]
<1>1. CASE x # a
  BY <1>1, OthersServed DEF Untouched
<1>2. CASE x = a /\ ServerRegisters(a)
  BY <1>2, RegisterSound DEF ServerRegisters
<1>3. CASE x = a /\ ServerReads(a)
  <2>1. Deliver /\ (Unheard(a) \/ \E c \in Channels : Part(a, c))
    BY <1>3, ServerReadsWhat DEF Unheard
  <2> QED
    BY <2>1, UnheardMail DEF Part
<1>4. CASE x = a /\ ServerContinues(a)
  <2>1. Deliver /\ (JoinInsert(a) \/ HelloCheckPow(a) \/ HelloBind(a))
    BY <1>4, ServerContinuesWhat
  <2>2. CASE JoinInsert(a)
    BY <2>2 DEF JoinInsert
  <2>3. CASE HelloCheckPow(a)
    BY <2>1, <2>3, UnheardMail DEF Unheard
  <2>4. CASE HelloBind(a)
    BY <2>1, <2>4, BindMail, SoundParts
  <2> QED
    BY <2>1, <2>2, <2>3, <2>4
<1>5. CASE x = a /\ ServerCleansUp(a)
  BY <1>5 DEF ServerCleansUp
<1>6. CASE ServerReadFails(x)
  BY <1>6, ReadFails
<1> QED
  BY <1>1, <1>2, <1>3, <1>4, <1>5, <1>6 DEF ServerStep

LEMMA ToldServed ==
    ASSUME Sound, NEW x \in Addrs, ServerStep(x), NEW a \in Addrs, NEW b \in Addrs,
           Staying(a), phase[b] # "off", Told(a, b)
    PROVE  Told(a, b)'
<1> DEFINE S == Departures(a)
<1>1. pubkey'[a] = KeyOf[a]
  BY BoundServed DEF Told, Staying
<1>2. known'[b] = known[b]
  BY ServerRest DEF Rest
<1>3. CASE inbox'[b] = inbox[b]
  BY <1>1, <1>2, <1>3 DEF Told
<1>4. ASSUME NEW y \in HeededLines, inbox'[b] = Append(inbox[b], y), OfNoStaying(y)
      PROVE  Told(a, b)'
  <2>1. y \notin S
    BY <1>4 DEF OfNoStaying
  <2>2. inbox[b] \in Seq(HeededLines) /\ Says(a) \notin S
    BY Inboxes, DepartureOf
  <2>3. Ends(inbox[b], Says(a), S) => Ends(inbox'[b], Says(a), S)
    BY <1>4, <2>1, <2>2, EndsAppend
  <2>4. Clear(inbox[b], S) => Clear(inbox'[b], S)
    BY <1>4, <2>1, <2>2, ClearAppend
  <2> QED
    BY <1>1, <1>2, <2>3, <2>4 DEF Told
<1> QED
  BY <1>3, <1>4, ServerMails

(* The server serves the HELLO of somebody who is in a room. *)
LEMMA HelloServed ==
    ASSUME Sound, NEW a \in Addrs, ServerStep(a), Strong(a), phase[a] # "off",
           NEW b \in Addrs, InRoom(a, b), phase[b] # "off",
           Queued(a, "HELLO") \/ task[a].at \in {"helloPow", "helloBind"}
    PROVE  Queued(a, "HELLO")' \/ task'[a].at \in {"helloPow", "helloBind"} \/ Told(a, b)'
<1>1. nick[a] = NickOf[a] /\ task[a].at # "handshake" /\ a # b
  BY Present DEF InRoom
<1>2. CASE ServerRegisters(a)
  BY <1>1, <1>2 DEF ServerRegisters, Register
<1>3. CASE ServerReads(a)
  <2>1. wire[a] # <<>> /\ wire'[a] = Tail(wire[a])
    BY <1>3, ServerReadsWhat DEF Sound, ClientTyped
  <2>2. task[a].at = "reading"
    BY <1>3 DEF ServerReads, Nick, User, HelloCheckNick, JoinRead, Part, Reading
  <2>3. Head(wire[a]).cmd = "HELLO" \/ Queued(a, "HELLO")'
    BY <2>1, <2>2, QueuedTail
  <2>4. ASSUME Head(wire[a]).cmd = "HELLO"
        PROVE  task'[a].at = "helloPow"
    <3>1. HelloCheckNick(a, NickOf[a])
      BY <1>3, <2>4 DEF ServerReads
    <3> QED
      BY <1>1, <3>1, SoundParts DEF HelloCheckNick
  <2> QED
    BY <2>3, <2>4
<1>4. CASE ServerContinues(a)
  <2>1. /\ Deliver /\ UNCHANGED wire /\ UNCHANGED Rest
        /\ JoinInsert(a) \/ HelloCheckPow(a) \/ HelloBind(a)
    BY <1>4, ServerContinuesWhat
  <2>2. Queued(a, "HELLO")' <=> Queued(a, "HELLO")
    BY <2>1 DEF Queued
  <2>3. CASE JoinInsert(a)
    BY <2>2, <2>3 DEF JoinInsert
  <2>4. CASE HelloCheckPow(a)
    <3>1. check_difficulty(task[a].nick, task[a].key, powRequired)
      <4>1. task[a].nick = NickOf[a] /\ task[a].key = KeyOf[a] /\ powRequired = InitialBits
        BY <2>4, Locals, SoundParts DEF HelloCheckPow, Served
      <4> QED
        BY <4>1 DEF Strong
    <3> QED
      BY <2>4, <3>1, SoundParts DEF HelloCheckPow
  <2>5. CASE HelloBind(a)
    <3>1. /\ Mail(CoMembers(a), Says(a)) /\ Says(a) \in HeededLines
          /\ pubkey' = [pubkey EXCEPT ![a] = KeyOf[a]]
      BY <2>1, <2>5, BindMail, LineTyped
    <3>2. b \in CoMembers(a)
      BY DEF InRoom, CoMembers
    <3>3. inbox'[b] = Append(inbox[b], Says(a))
      BY <3>1, <3>2 DEF Mail
    <3>4. Ends(inbox'[b], Says(a), Departures(a))
      BY <3>1, <3>3, Inboxes, EndsAppend, DepartureOf
    <3>5. pubkey'[a] = KeyOf[a]
      BY <3>1, SoundParts
    <3> QED
      BY <3>4, <3>5 DEF Told
  <2> QED
    BY <2>1, <2>3, <2>4, <2>5
<1>5. CASE ServerCleansUp(a)
  BY <1>5 DEF ServerCleansUp
<1>6. CASE ServerReadFails(a)
  BY <1>6, ReadFails
<1> QED
  BY <1>2, <1>3, <1>4, <1>5, <1>6 DEF ServerStep

LEMMA TellsServed ==
    ASSUME Sound, NEW x \in Addrs, ServerStep(x), NEW a \in Addrs, NEW b \in Addrs,
           Staying(a), Staying(b), InRoom(a, b), Tells(a, b)
    PROVE  Tells(a, b)'
<1>1. phase[a] # "off" /\ phase[b] # "off"
  BY DEF Staying
<1>2. Strong(a)' <=> Strong(a)
  BY DEF Strong, check_difficulty
<1>3. SUFFICES ASSUME Strong(a)
               PROVE  AboutToTell(a, b)' \/ Told(a, b)'
  BY <1>2 DEF Tells
<1>4. CASE Told(a, b)
  BY <1>1, <1>4, ToldServed
<1>5. CASE Greets(a, b)
  <2>1. Greets(a, b)'
    <3>1. CASE inbox'[a] = inbox[a]
      BY <1>5, <3>1 DEF Greets
    <3>2. CASE \E y \in HeededLines : inbox'[a] = Append(inbox[a], y)
      BY <1>5, <3>2, GreetsAppend
    <3> QED
      BY <1>1, <3>1, <3>2, ServerMails
  <2> QED
    BY <2>1 DEF AboutToTell
<1>6. CASE x # a /\ (Queued(a, "HELLO") \/ task[a].at \in {"helloPow", "helloBind"})
  <2>1. wire'[a] = wire[a] /\ task'[a] = task[a]
    BY <1>6, OthersServed DEF Untouched
  <2> QED
    BY <1>6, <2>1 DEF AboutToTell, Queued
<1>7. CASE x = a /\ (Queued(a, "HELLO") \/ task[a].at \in {"helloPow", "helloBind"})
  BY <1>1, <1>3, <1>7, HelloServed DEF AboutToTell
<1> QED
  BY <1>3, <1>4, <1>5, <1>6, <1>7 DEF Tells, AboutToTell

(* Two people come together by a JOIN, which the other one hears. *)
LEMMA Meeting ==
    ASSUME Sound, NEW x \in Addrs, ServerStep(x), NEW a \in Addrs, NEW b \in Addrs,
           phase[a] # "off", phase[b] # "off", ~InRoom(a, b), InRoom(a, b)'
    PROVE  Greets(a, b)' \/ Greets(b, a)'
<1>1. ASSUME \A c \in Channels : channels'[c] \subseteq channels[c]
      PROVE  FALSE
  BY <1>1 DEF InRoom
<1>2. CASE ServerRegisters(x)
  BY <1>1, <1>2 DEF ServerRegisters, Register
<1>3. CASE ServerReads(x)
  <2>1. Deliver /\ (Unheard(x) \/ \E c \in Channels : Part(x, c))
    BY <1>3, ServerReadsWhat DEF Unheard
  <2>2. CASE Unheard(x)
    BY <1>1, <2>1, <2>2, UnheardMail
  <2>3. CASE \E c \in Channels : Part(x, c)
    BY <1>1, <2>3, SoundParts DEF Part
  <2> QED
    BY <2>1, <2>2, <2>3
<1>4. CASE ServerContinues(x)
  <2>1. Deliver /\ (JoinInsert(x) \/ HelloCheckPow(x) \/ HelloBind(x))
    BY <1>4, ServerContinuesWhat
  <2>2. CASE HelloCheckPow(x) \/ HelloBind(x)
    BY <1>1, <2>1, <2>2, UnheardMail, BindMail DEF Unheard
  <2>3. CASE JoinInsert(x)
    <3>1. PICK c \in Channels : /\ channels' = [channels EXCEPT ![c] = @ \cup {x}]
                                /\ Mail(channels[c] \cup {x}, Joining(x, c))
      BY <2>1, <2>3, JoinMail
    <3>2. PICK d \in Channels : a # b /\ a \in channels'[d] /\ b \in channels'[d]
      BY DEF InRoom
    <3>3. ~(a \in channels[d] /\ b \in channels[d])
      BY <3>2 DEF InRoom
    <3>4. d = c /\ ((x = b /\ a \in channels[c]) \/ (x = a /\ b \in channels[c]))
      BY <3>1, <3>2, <3>3, SoundParts
    <3>5. Joining(x, c) \in HeededLines
      BY LineTyped
    <3>6. Joining(x, c).cmd = "JOIN" /\ Joining(x, c).nick = NickOf[x]
      BY DEF Joining
    <3>7. CASE x = b /\ a \in channels[c]
      <4>1. inbox'[a] = Append(inbox[a], Joining(b, c))
        BY <3>1, <3>7 DEF Mail
      <4> QED
        BY <3>5, <3>6, <3>7, <4>1, GreetsAppend
    <3>8. CASE x = a /\ b \in channels[c]
      <4>1. inbox'[b] = Append(inbox[b], Joining(a, c))
        BY <3>1, <3>8 DEF Mail
      <4> QED
        BY <3>5, <3>6, <3>8, <4>1, GreetsAppend
    <3> QED
      BY <3>4, <3>7, <3>8
  <2> QED
    BY <2>1, <2>2, <2>3
<1>5. CASE ServerCleansUp(x)
  <2>1. channels' = [c \in Channels |-> channels[c] \ {x}]
    BY <1>5, QuitMail DEF ServerCleansUp
  <2> QED
    BY <1>1, <2>1
<1>6. CASE ServerReadFails(x)
  BY <1>6, ReadFails DEF InRoom
<1> QED
  BY <1>2, <1>3, <1>4, <1>5, <1>6 DEF ServerStep

LEMMA OwnServer ==
    ASSUME NEW x \in Addrs, ClientStep(x) \/ UserStep(x)
    PROVE  channels' = channels /\ pubkey' = pubkey
  BY DEF ClientStep, UserStep, HelloTimer, JoinTimer, ClientReads, LoopForgets,
         ServerAccepts, Accept, Leave, SwitchChannel, vars, state

(* What a user who stays in a room does, and his client for him: he sends   *)
(* commands, reads lines and handles events.                                *)
LEMMA OwnSteps ==
    ASSUME Sound, NEW a \in Addrs, ClientStep(a) \/ UserStep(a), Staying(a)',
           NEW c \in Channels, a \in channels[c]
    PROVE  /\ Staying(a)
           /\ UNCHANGED vars
           /\ ClientReads(a) \/ (inbox' = inbox /\ (known'[a] = known[a] \/ LoopForgets(a)))
           /\ wire' = wire \/ \E commands \in Seq(Commands) : Sends(a, commands)
           /\ wiped[a] \subseteq wiped'[a]
<1>1. ASSUME phase[a] # "off", wire' = wire
      PROVE  Staying(a)
  BY <1>1 DEF Staying, Queued
<1>2. ASSUME phase[a] # "off", NEW commands \in Seq(Commands), Sends(a, commands)
      PROVE  Staying(a)
  BY <1>2, QueuedSends DEF Staying
<1>3. <<Cmd("HELLO")>> \in Seq(Commands) /\ <<InChannel("JOIN", Home)>> \in Seq(Commands)
  BY CommandTyped, ClientAssumption
<1>4. CASE HelloTimer(a)
  <2>1. phase[a] # "off" /\ Sends(a, <<Cmd("HELLO")>>)
    BY <1>4 DEF HelloTimer
  <2>2. UNCHANGED vars /\ inbox' = inbox /\ known' = known /\ wiped' = wiped
    BY <1>4 DEF HelloTimer
  <2> QED
    BY <1>2, <1>3, <2>1, <2>2
<1>5. CASE JoinTimer(a)
  <2>1. phase[a] # "off" /\ Sends(a, <<InChannel("JOIN", Home)>>)
    BY <1>5 DEF JoinTimer
  <2>2. UNCHANGED vars /\ inbox' = inbox /\ known' = known /\ wiped' = wiped
    BY <1>5 DEF JoinTimer
  <2> QED
    BY <1>2, <1>3, <2>1, <2>2
<1>6. CASE ClientReads(a)
  <2>1. /\ phase[a] # "off" /\ UNCHANGED vars /\ wiped' = wiped
        /\ wire' = wire \/ Sends(a, <<Cmd("HELLO")>>)
    BY <1>6 DEF ClientReads, Greet
  <2> QED
    BY <1>1, <1>2, <1>3, <1>6, <2>1
<1>7. CASE LoopForgets(a)
  <2>1. UNCHANGED vars /\ inbox' = inbox /\ wire' = wire /\ phase' = phase
    BY <1>7 DEF LoopForgets
  <2>2. wiped[a] \subseteq wiped'[a]
    BY <1>7 DEF LoopForgets, Sound, ClientTyped
  <2>3. phase[a] # "off"
    BY <2>1 DEF Staying
  <2> QED
    BY <1>1, <1>7, <2>1, <2>2, <2>3
<1>8. CASE ServerAccepts(a)
  BY <1>8, Present DEF ServerAccepts, Accept
<1>9. CASE Leave(a)
  BY <1>9 DEF Leave, Staying, Sound, ClientTyped
<1>10. CASE \E ch \in Channels : SwitchChannel(a, ch)
  <2>1. PICK ch \in Channels : SwitchChannel(a, ch)
    BY <1>10
  <2>2. PICK part, commands : /\ part = InChannel("PART", room[a])
                              /\ commands = <<part, InChannel("JOIN", ch)>>
    OBVIOUS
  <2>3. commands \in Seq(Commands) /\ Sends(a, commands)
    <3>1. room[a] \in Channels
      BY DEF Sound, ClientTyped
    <3> QED
      BY <2>1, <2>2, <3>1, CommandTyped DEF SwitchChannel
  <2>4. 1 \in DOMAIN commands /\ commands[1].cmd = "PART"
    BY <2>2 DEF InChannel
  <2>5. Queued(a, "PART")'
    BY <2>3, <2>4, QueuedSends
  <2> QED
    BY <2>5 DEF Staying
<1> QED
  BY <1>4, <1>5, <1>6, <1>7, <1>8, <1>9, <1>10 DEF ClientStep, UserStep

(* His own steps bring him closer to telling, ... *)
LEMMA AboutOwn ==
    ASSUME Sound, NEW a \in Addrs, ClientStep(a) \/ UserStep(a), Staying(a)',
           NEW c \in Channels, a \in channels[c], NEW b \in Addrs, a # b, AboutToTell(a, b)
    PROVE  AboutToTell(a, b)'
<1>1. /\ UNCHANGED vars
      /\ ClientReads(a) \/ inbox' = inbox
      /\ wire' = wire \/ \E commands \in Seq(Commands) : Sends(a, commands)
  BY OwnSteps
<1>2. Queued(a, "HELLO") => Queued(a, "HELLO")'
  <2>1. CASE wire' = wire
    BY <2>1 DEF Queued
  <2>2. CASE \E commands \in Seq(Commands) : Sends(a, commands)
    BY <2>2, QueuedSends
  <2> QED
    BY <1>1, <2>1, <2>2
<1>3. task'[a] = task[a]
  BY <1>1 DEF vars
<1>4. CASE inbox' = inbox
  BY <1>2, <1>3, <1>4 DEF AboutToTell, Greets
<1>5. CASE ClientReads(a) /\ Greets(a, b)
  <2>1. inbox[a] # <<>> /\ inbox'[a] = Tail(inbox[a])
    BY <1>5 DEF ClientReads, Sound, ClientTyped
  <2>2. CASE Greets(a, b)'
    BY <2>2 DEF AboutToTell
  <2>3. CASE Head(inbox[a]).cmd = "JOIN" /\ Head(inbox[a]).nick = NickOf[b]
    <3>1. NickOf[b] # NickOf[a]
      BY OneNickEach
    <3>2. Sends(a, <<Cmd("HELLO")>>)
      BY <1>5, <2>3, <3>1 DEF ClientReads, Greet
    <3>3. <<Cmd("HELLO")>> \in Seq(Commands) /\ <<Cmd("HELLO")>>[1].cmd = "HELLO"
          /\ 1 \in DOMAIN <<Cmd("HELLO")>>
      BY CommandTyped DEF Cmd
    <3>4. Queued(a, "HELLO")'
      BY <3>2, <3>3, QueuedSends
    <3> QED
      BY <3>4 DEF AboutToTell
  <2> QED
    BY <1>5, <2>1, <2>2, <2>3, GreetsTail
<1>6. CASE ~Greets(a, b)
  BY <1>2, <1>3, <1>6 DEF AboutToTell
<1> QED
  BY <1>1, <1>4, <1>5, <1>6

(* ... and the other's steps towards knowing, or else he loses the key to a *)
(* departure his event loop had still to handle.                            *)
LEMMA ToldOwn ==
    ASSUME Sound, NEW b \in Addrs, ClientStep(b) \/ UserStep(b), Staying(b)',
           NEW c \in Channels, b \in channels[c], NEW a \in Addrs, Told(a, b)
    PROVE  Told(a, b)' \/ LateWipe(a, b)'
<1> DEFINE n == NickOf[a]
           S == Departures(a)
<1>1. /\ UNCHANGED vars
      /\ ClientReads(b) \/ (inbox' = inbox /\ (known'[b] = known[b] \/ LoopForgets(b)))
  BY OwnSteps
<1>2. pubkey'[a] = KeyOf[a]
  BY <1>1 DEF Told, vars, state
<1>3. CASE inbox' = inbox /\ known'[b] = known[b]
  BY <1>2, <1>3 DEF Told
<1>4. n \in Nicks /\ known[b] \in [Nicks -> Keys \cup {NoKey}] /\ n = NickOf[a] /\ KeyOf[a] # NoKey
  BY ClientAssumption, Members DEF Sound, ClientTyped
<1>5. CASE LoopForgets(b)
  <2>1. inbox' = inbox /\ known'[b] = Forget(known[b], Head(left[b]))
    BY <1>5 DEF LoopForgets, Sound, ClientTyped
  <2>2. CASE known'[b][n] = known[b][n]
    BY <1>2, <2>1, <2>2 DEF Told
  <2>3. CASE known'[b][n] # known[b][n]
    <3>1. n = Head(left[b]) /\ known[b][n] # NoKey
      BY <1>4, <2>1, <2>3 DEF Forget
    <3>2. n \in wiped'[b]
      BY <1>5, <3>1 DEF LoopForgets, Sound, ClientTyped
    <3> QED
      BY <3>2 DEF LateWipe
  <2> QED
    BY <2>2, <2>3
<1>6. CASE ClientReads(b)
  <2>1. PICK line, q, t : line = Head(inbox[b]) /\ q = inbox[b] /\ t = inbox'[b]
    OBVIOUS
  <2>2. /\ q # <<>> /\ t = Tail(q) /\ q \in Seq(HeededLines) /\ line = Head(q)
        /\ line \in HeededLines
    BY <1>6, <2>1, Inboxes, Heads DEF ClientReads, Sound, ClientTyped
  <2>3. Ends(q, Says(a), S) => Ends(t, Says(a), S) \/ (line = Says(a) /\ Clear(t, S))
    BY <2>2, EndsTail
  <2>4. Clear(q, S) => line \notin S /\ Clear(t, S)
    BY <2>2, ClearTail
  <2>5. ASSUME line \notin S, known[b][n] # NoKey \/ line = Says(a)
        PROVE  known'[b][n] # NoKey
    <3>1. CASE line.cmd = "JOIN"
      <4>1. known' = known
        BY <1>6, <2>1, <3>1 DEF ClientReads
      <4>2. line # Says(a)
        BY <3>1 DEF Says
      <4> QED
        BY <2>5, <4>1, <4>2
    <3>2. CASE line.cmd \in {"PART", "QUIT"}
      <4>1. known'[b] = Forget(known[b], line.nick)
        BY <1>6, <2>1, <3>2 DEF ClientReads, Sound, ClientTyped
      <4>2. line.nick # n /\ line # Says(a)
        BY <2>2, <2>5, <3>2, DepartureFields DEF Says
      <4> QED
        BY <1>4, <2>5, <4>1, <4>2 DEF Forget
    <3>3. CASE line.cmd = "PUBKEY"
      <4>1. known'[b] = Learn(known[b], line)
        BY <1>6, <2>1, <3>3 DEF ClientReads, Sound, ClientTyped
      <4>2. PICK x \in Addrs : line = Says(x)
        BY <2>2, <3>3, LineFields
      <4>3. known'[b][n] = IF n = NickOf[x] THEN KeyOf[x] ELSE known[b][n]
        BY <1>4, <4>1, <4>2, Learnt
      <4>4. KeyOf[x] # NoKey
        BY Members
      <4>5. line = Says(a) => n = NickOf[x]
        BY <4>2 DEF Says
      <4> QED
        BY <2>5, <4>3, <4>4, <4>5
    <3> QED
      BY <2>2, <3>1, <3>2, <3>3, LineFields
  <2>6. Says(a) \notin S
    BY DepartureOf
  <2> QED
    BY <1>2, <2>1, <2>3, <2>4, <2>5, <2>6 DEF Told
<1> QED
  BY <1>1, <1>3, <1>5, <1>6

LEMMA TellsOwn ==
    ASSUME Sound, NEW x \in Addrs, ClientStep(x) \/ UserStep(x),
           NEW a \in Addrs, NEW b \in Addrs, InRoom(a, b), Staying(a)', Staying(b)',
           Tells(a, b)
    PROVE  Tells(a, b)' \/ LateWipe(a, b)'
<1>1. PICK c \in Channels : a # b /\ a \in channels[c] /\ b \in channels[c]
  BY InRoomTwo
<1>2. Strong(a)' <=> Strong(a)
  BY DEF Strong, check_difficulty
<1>3. SUFFICES ASSUME Strong(a)
               PROVE  AboutToTell(a, b)' \/ Told(a, b)' \/ LateWipe(a, b)'
  BY <1>2 DEF Tells
<1>4. ASSUME AboutToTell(a, b)
      PROVE  AboutToTell(a, b)'
  <2>1. CASE x = a
    BY <1>1, <1>4, <2>1, AboutOwn
  <2>2. CASE x # a
    <3>1. Untouched(a) /\ inbox'[a] = inbox[a]
      BY <2>2, OthersOwn
    <3> QED
      BY <1>4, <3>1 DEF Untouched, AboutToTell, Greets, Queued
  <2> QED
    BY <2>1, <2>2
<1>5. ASSUME Told(a, b)
      PROVE  Told(a, b)' \/ LateWipe(a, b)'
  <2>1. CASE x = b
    BY <1>1, <1>5, <2>1, ToldOwn
  <2>2. CASE x # b
    <3>1. Untouched(b) /\ inbox'[b] = inbox[b] /\ pubkey' = pubkey
      BY <2>2, OthersOwn, OwnServer
    <3> QED
      BY <1>5, <3>1 DEF Untouched, Told
  <2> QED
    BY <2>1, <2>2
<1> QED
  BY <1>3, <1>4, <1>5 DEF Tells

LEMMA OwnStays ==
    ASSUME Sound, NEW x \in Addrs, ClientStep(x) \/ UserStep(x), NEW a \in Addrs,
           NEW c \in Channels, a \in channels[c], Staying(a)'
    PROVE  Staying(a) /\ wiped[a] \subseteq wiped'[a]
<1>1. CASE x = a
  BY <1>1, OwnSteps
<1>2. CASE x # a
  BY <1>2, OthersOwn DEF Untouched, Staying, Queued
<1> QED
  BY <1>1, <1>2

LEMMA StepTells == Sound /\ AllRouted /\ OneTells /\ [NextExchange]_allVars => OneTells'
<1> SUFFICES ASSUME Sound, AllRouted, OneTells, [NextExchange]_allVars,
                    NEW a \in Addrs, NEW b \in Addrs,
                    InRoom(a, b)', Staying(a)', Staying(b)'
             PROVE  Tells(a, b)' \/ Tells(b, a)' \/ LateWipe(a, b)'
  BY DEF OneTells
<1>1. PICK c \in Channels : a # b /\ a \in channels'[c] /\ b \in channels'[c]
  BY DEF InRoom
<1>2. Routed(a) /\ Routed(b)
  BY DEF AllRouted
<1>3. InRoom(a, b) /\ Staying(a) /\ Staying(b) => Tells(a, b) \/ Tells(b, a) \/ LateWipe(a, b)
  BY DEF OneTells
<1>4. LateWipe(a, b)' <=> LateWipe(b, a)'
  BY DEF LateWipe
<1>5. ASSUME wiped[a] \subseteq wiped'[a], wiped[b] \subseteq wiped'[b]
      PROVE  LateWipe(a, b) => LateWipe(a, b)'
  BY <1>5 DEF LateWipe
<1>6. ASSUME NEW x \in Addrs, ServerStep(x)
      PROVE  Tells(a, b)' \/ Tells(b, a)' \/ LateWipe(a, b)'
  <2>1. Staying(a) /\ Staying(b)
    BY <1>1, <1>2, <1>6, StayedServed
  <2>2. CASE InRoom(a, b)
    <3>1. InRoom(b, a)
      BY <2>2, InRoomTwo
    <3>2. wiped' = wiped
      BY <1>6, ServerRest DEF Rest
    <3> QED
      BY <1>3, <1>5, <1>6, <2>1, <2>2, <3>1, <3>2, TellsServed
  <2>3. CASE ~InRoom(a, b)
    <3>1. Greets(a, b)' \/ Greets(b, a)'
      BY <1>6, <2>1, <2>3, Meeting DEF Staying
    <3> QED
      BY <3>1 DEF Tells, AboutToTell
  <2> QED
    BY <2>2, <2>3
<1>7. ASSUME NEW x \in Addrs, ClientStep(x) \/ UserStep(x)
      PROVE  Tells(a, b)' \/ Tells(b, a)' \/ LateWipe(a, b)'
  <2>1. channels' = channels
    BY <1>7, OwnServer
  <2>2. InRoom(a, b) /\ InRoom(b, a) /\ a \in channels[c] /\ b \in channels[c]
    BY <1>1, <2>1 DEF InRoom
  <2>3. /\ Staying(a) /\ wiped[a] \subseteq wiped'[a]
        /\ Staying(b) /\ wiped[b] \subseteq wiped'[b]
    BY <1>7, <2>2, OwnStays
  <2> QED
    BY <1>3, <1>4, <1>5, <1>7, <2>2, <2>3, TellsOwn
<1>8. CASE UNCHANGED allVars
  <2>1. Staying(a) /\ Staying(b) /\ InRoom(a, b)
    BY <1>8 DEF allVars, vars, state, client, user, Staying, Queued, InRoom
  <2>2. /\ Tells(a, b) => Tells(a, b)'
        /\ Tells(b, a) => Tells(b, a)'
        /\ LateWipe(a, b) => LateWipe(a, b)'
    BY <1>8 DEF allVars, vars, state, client, user, Tells, Told, AboutToTell, Greets, Queued,
                Strong, check_difficulty, LateWipe
  <2> QED
    BY <1>3, <2>1, <2>2
<1> QED
  BY <1>6, <1>7, <1>8 DEF NextExchange

(* When things have settled, of two people who are on and in a channel one   *)
(* knows the other's key, whatever the order in which joins, announcements  *)
(* and departures have crossed, except where an event loop, busy with an    *)
(* earlier departure of the other, has wiped a key learned since.           *)
THEOREM OneOfTwoKnows == SpecExchange => []OneKnowsTheOther
<1>1. ASSUME Sound, Settled, NEW a \in Addrs, NEW b \in Addrs, InRoom(a, b), Tells(a, b)
      PROVE  Knows(b, a)
  <2>1. /\ wire[a] = <<>> /\ inbox[a] = <<>> /\ inbox[b] = <<>>
        /\ task[a].at \in {"reading", "none", "dead"}
    BY <1>1 DEF Settled
  <2>2. ~AboutToTell(a, b)
    BY <2>1 DEF AboutToTell, Greets, Queued
  <2>3. ~Ends(inbox[b], Says(a), Departures(a))
    BY <2>1, EmptyQueue
  <2>4. known[b][NickOf[a]] \in {NoKey, KeyOf[a]}
        /\ (known[b][NickOf[a]] # NoKey => Strong(a))
    <3>1. SUFFICES ASSUME known[b][NickOf[a]] # NoKey
                   PROVE  known[b][NickOf[a]] = KeyOf[a] /\ Strong(a)
      OBVIOUS
    <3>2. PICK x \in Addrs : /\ NickOf[a] = NickOf[x] /\ Strong(x)
                             /\ known[b][NickOf[a]] = KeyOf[x]
      BY <1>1, <3>1, SoundParts, Members DEF KnowsTheirs
    <3>3. x = a
      BY <3>2, OneNickEach
    <3> QED
      BY <3>2, <3>3
  <2>5. CASE Strong(a)
    BY <1>1, <2>2, <2>3, <2>4, <2>5 DEF Tells, Told, Knows
  <2>6. CASE ~Strong(a)
    BY <1>1, <2>4, <2>6, SoundParts DEF Served, Knows
  <2> QED
    BY <2>5, <2>6
<1>2. Sound /\ OneTells => OneKnowsTheOther
  <2> SUFFICES ASSUME Sound, OneTells, Settled, NEW a \in Addrs, NEW b \in Addrs, InRoom(a, b),
                      phase[a] = "on", phase[b] = "on"
               PROVE  Knows(a, b) \/ Knows(b, a) \/ LateWipe(a, b)
    BY DEF OneKnowsTheOther
  <2>1. PICK c \in Channels : a \in channels[c] /\ b \in channels[c] /\ InRoom(b, a)
    BY InRoomTwo
  <2>2. Staying(a) /\ Staying(b)
    BY DEF Settled, Staying, Queued
  <2> QED
    BY <1>1, <2>1, <2>2 DEF OneTells
<1>3. InitExchange => Sound /\ AllRouted /\ OneTells
  <2>1. InitExchange => OneTells
    BY DEF InitExchange, Init, OneTells, InRoom
  <2> QED
    BY <2>1, InitSound, InitRouted
<1>4. Sound /\ AllRouted /\ OneTells /\ [NextExchange]_allVars => (Sound /\ AllRouted /\ OneTells)'
  BY StepSound, StepRouted, StepTells
<1> QED
  BY <1>2, <1>3, <1>4, PTL DEF SpecExchange

-----------------------------------------------------------------------------
(* Part three, the lock: what a task holds is what the operations left to    *)
(* it will drop.                                                           *)

(* The rest of a handler that holds no guard, one and two read guards. *)
Free == {<<>>, <<"read", "drop">>, <<"write", "drop">>,
         <<"read", "drop", "write", "drop">>,
         <<"read", "drop", "read", "drop", "write", "drop">>,
         <<"read", "read", "drop", "drop">>,
         <<"read", "drop", "read", "read", "drop", "drop">>}
Reads == {<<"drop">>, <<"drop", "write", "drop">>,
          <<"drop", "read", "drop", "write", "drop">>,
          <<"read", "drop", "drop">>, <<"drop", "read", "read", "drop", "drop">>}
ReadsTwice == {<<"drop", "drop">>}
Writes == {<<"drop">>}

-----------------------------------------------------------------------------
(* The handlers as tuples. *)

LEMMA Concatenation ==
    ASSUME NEW s \in Seq(Ops), NEW t \in Seq(Ops), NEW u \in Seq(Ops),
           Len(u) = Len(s) + Len(t),
           \A i \in 1..Len(s) : u[i] = s[i],
           \A i \in 1..Len(t) : u[Len(s) + i] = t[i]
    PROVE  s \o t = u
<1>1. s \o t \in Seq(Ops) /\ Len(s \o t) = Len(s) + Len(t)
  BY ConcatProperties
<1>2. \A i \in 1..Len(s) + Len(t) : (s \o t)[i] = IF i <= Len(s) THEN s[i] ELSE t[i - Len(s)]
  BY ConcatProperties
<1>3. ASSUME NEW i \in 1..Len(u) PROVE (s \o t)[i] = u[i]
  <2>1. CASE i <= Len(s)  BY <1>2, <2>1
  <2>2. CASE ~(i <= Len(s))
    <3>1. i - Len(s) \in 1..Len(t) /\ Len(s) + (i - Len(s)) = i  BY <2>2
    <3> QED  BY <1>2, <2>2, <3>1
  <2> QED  BY <2>1, <2>2
<1> QED  BY <1>1, <1>3, SeqEqual

LEMMA ReadDrop ==
    <<"read">> \o <<"drop">> = <<"read", "drop">>
<1> DEFINE s == <<"read">>
           t == <<"drop">>
           u == <<"read", "drop">>
<1>1. s \in Seq(Ops) /\ t \in Seq(Ops) /\ u \in Seq(Ops)
  BY DEF Ops
<1>2. /\ Len(u) = Len(s) + Len(t)
      /\ \A i \in 1..Len(s) : u[i] = s[i]
      /\ \A i \in 1..Len(t) : u[Len(s) + i] = t[i]
  OBVIOUS
<1> QED  BY <1>1, <1>2, Concatenation

LEMMA WriteDrop ==
    <<"write">> \o <<"drop">> = <<"write", "drop">>
<1> DEFINE s == <<"write">>
           t == <<"drop">>
           u == <<"write", "drop">>
<1>1. s \in Seq(Ops) /\ t \in Seq(Ops) /\ u \in Seq(Ops)
  BY DEF Ops
<1>2. /\ Len(u) = Len(s) + Len(t)
      /\ \A i \in 1..Len(s) : u[i] = s[i]
      /\ \A i \in 1..Len(t) : u[Len(s) + i] = t[i]
  OBVIOUS
<1> QED  BY <1>1, <1>2, Concatenation

LEMMA OpenNested ==
    <<"read">> \o <<"read", "drop">> = <<"read", "read", "drop">>
<1> DEFINE s == <<"read">>
           t == <<"read", "drop">>
           u == <<"read", "read", "drop">>
<1>1. s \in Seq(Ops) /\ t \in Seq(Ops) /\ u \in Seq(Ops)
  BY DEF Ops
<1>2. /\ Len(u) = Len(s) + Len(t)
      /\ \A i \in 1..Len(s) : u[i] = s[i]
      /\ \A i \in 1..Len(t) : u[Len(s) + i] = t[i]
  OBVIOUS
<1> QED  BY <1>1, <1>2, Concatenation

LEMMA CloseNested ==
    <<"read", "read", "drop">> \o <<"drop">> = <<"read", "read", "drop", "drop">>
<1> DEFINE s == <<"read", "read", "drop">>
           t == <<"drop">>
           u == <<"read", "read", "drop", "drop">>
<1>1. s \in Seq(Ops) /\ t \in Seq(Ops) /\ u \in Seq(Ops)
  BY DEF Ops
<1>2. /\ Len(u) = Len(s) + Len(t)
      /\ \A i \in 1..Len(s) : u[i] = s[i]
      /\ \A i \in 1..Len(t) : u[Len(s) + i] = t[i]
  OBVIOUS
<1> QED  BY <1>1, <1>2, Concatenation

LEMMA Sections ==
    /\ ReadSection = <<"read", "drop">>
    /\ WriteSection = <<"write", "drop">>
    /\ Guarded("read", ReadSection) = <<"read", "read", "drop", "drop">>
<1>1. <<"read">> \o <<>> = <<"read">> /\ <<"write">> \o <<>> = <<"write">>
  <2>1. <<"read">> \in Seq(Ops) /\ <<"write">> \in Seq(Ops)  BY DEF Ops
  <2> QED  BY <2>1, ConcatEmptySeq
<1>2. ReadSection = <<"read", "drop">>  BY <1>1, ReadDrop DEF ReadSection, Guarded
<1>3. WriteSection = <<"write", "drop">>  BY <1>1, WriteDrop DEF WriteSection, Guarded
<1>4. Guarded("read", ReadSection) = <<"read", "read", "drop", "drop">>
  BY <1>2, OpenNested, CloseNested, Zenon DEF Guarded
<1> QED  BY <1>2, <1>3, <1>4

LEMMA LookWrite ==
    <<"read", "drop">> \o <<"write", "drop">> = <<"read", "drop", "write", "drop">>
<1> DEFINE s == <<"read", "drop">>
           t == <<"write", "drop">>
           u == <<"read", "drop", "write", "drop">>
<1>1. s \in Seq(Ops) /\ t \in Seq(Ops) /\ u \in Seq(Ops)
  BY DEF Ops
<1>2. /\ Len(u) = Len(s) + Len(t)
      /\ \A i \in 1..Len(s) : u[i] = s[i]
      /\ \A i \in 1..Len(t) : u[Len(s) + i] = t[i]
  OBVIOUS
<1> QED  BY <1>1, <1>2, Concatenation

LEMMA LookLook ==
    <<"read", "drop">> \o <<"read", "drop">> = <<"read", "drop", "read", "drop">>
<1> DEFINE s == <<"read", "drop">>
           t == <<"read", "drop">>
           u == <<"read", "drop", "read", "drop">>
<1>1. s \in Seq(Ops) /\ t \in Seq(Ops) /\ u \in Seq(Ops)
  BY DEF Ops
<1>2. /\ Len(u) = Len(s) + Len(t)
      /\ \A i \in 1..Len(s) : u[i] = s[i]
      /\ \A i \in 1..Len(t) : u[Len(s) + i] = t[i]
  OBVIOUS
<1> QED  BY <1>1, <1>2, Concatenation

LEMMA LookLookWrite ==
    <<"read", "drop", "read", "drop">> \o <<"write", "drop">> = <<"read", "drop", "read", "drop", "write", "drop">>
<1> DEFINE s == <<"read", "drop", "read", "drop">>
           t == <<"write", "drop">>
           u == <<"read", "drop", "read", "drop", "write", "drop">>
<1>1. s \in Seq(Ops) /\ t \in Seq(Ops) /\ u \in Seq(Ops)
  BY DEF Ops
<1>2. /\ Len(u) = Len(s) + Len(t)
      /\ \A i \in 1..Len(s) : u[i] = s[i]
      /\ \A i \in 1..Len(t) : u[Len(s) + i] = t[i]
  OBVIOUS
<1> QED  BY <1>1, <1>2, Concatenation

LEMMA LookNested ==
    <<"read", "drop">> \o <<"read", "read", "drop", "drop">> = <<"read", "drop", "read", "read", "drop", "drop">>
<1> DEFINE s == <<"read", "drop">>
           t == <<"read", "read", "drop", "drop">>
           u == <<"read", "drop", "read", "read", "drop", "drop">>
<1>1. s \in Seq(Ops) /\ t \in Seq(Ops) /\ u \in Seq(Ops)
  BY DEF Ops
<1>2. /\ Len(u) = Len(s) + Len(t)
      /\ \A i \in 1..Len(s) : u[i] = s[i]
      /\ \A i \in 1..Len(t) : u[Len(s) + i] = t[i]
  OBVIOUS
<1> QED  BY <1>1, <1>2, Concatenation

(* A handler starts without a guard. *)
LEMMA HandlersFree == \A t \in Workers : Handlers(t) \subseteq Free
<1>1. LookThenChange = <<"read", "drop", "write", "drop">>
  BY Sections, LookWrite, Zenon DEF LookThenChange
<1>2. HelloWeak = <<"read", "drop", "read", "read", "drop", "drop">>
  BY Sections, LookNested, Zenon DEF HelloWeak, SendNotice
<1>3. HelloAccepted = <<"read", "drop", "read", "drop", "write", "drop">>
  BY Sections, LookLook, LookLookWrite, Zenon DEF HelloAccepted
<1>4. HelloMismatch = <<"read", "read", "drop", "drop">>
  BY Sections, Zenon DEF HelloMismatch, SendNotice
<1>5. {CapCheck, Query, Update, HelloUnsigned} \subseteq {<<"read", "drop">>, <<"write", "drop">>}
  BY Sections, Zenon DEF CapCheck, Query, Update, HelloUnsigned, SendNotice
<1> QED  BY <1>1, <1>2, <1>3, <1>4, <1>5, Zenon DEF Handlers, Hellos, Free

(* What one operation does to the guards the rest will drop. *)
LEMMA OneOperation ==
    /\ \A s \in Free : s # <<>> =>
          \/ Head(s) = "read" /\ Tail(s) \in Reads
          \/ Head(s) = "write" /\ Tail(s) \in Writes
    /\ \A s \in Reads : s # <<>> /\ (\/ Head(s) = "drop" /\ Tail(s) \in Free
                                     \/ Head(s) = "read" /\ Tail(s) \in ReadsTwice)
    /\ \A s \in ReadsTwice : s # <<>> /\ Head(s) = "drop" /\ Tail(s) \in Reads
    /\ \A s \in Writes : s # <<>> /\ Head(s) = "drop" /\ Tail(s) \in Free
<1>1. \A s \in Free : s # <<>> =>
          \/ Head(s) = "read" /\ Tail(s) \in Reads
          \/ Head(s) = "write" /\ Tail(s) \in Writes
  <2> SUFFICES ASSUME NEW s \in Free, s # <<>>
               PROVE  \/ Head(s) = "read" /\ Tail(s) \in Reads
                      \/ Head(s) = "write" /\ Tail(s) \in Writes
    OBVIOUS
  <2>1. CASE s = <<"read", "drop">>
    <3>1. Head(s) = "read" /\ Tail(s) = <<"drop">>  BY <2>1
    <3> QED  BY <3>1 DEF Reads
  <2>2. CASE s = <<"write", "drop">>
    <3>1. Head(s) = "write" /\ Tail(s) = <<"drop">>  BY <2>2
    <3> QED  BY <3>1 DEF Writes
  <2>3. CASE s = <<"read", "drop", "write", "drop">>
    <3>1. Head(s) = "read" /\ Tail(s) = <<"drop", "write", "drop">>  BY <2>3
    <3> QED  BY <3>1 DEF Reads
  <2>4. CASE s = <<"read", "drop", "read", "drop", "write", "drop">>
    <3>1. Head(s) = "read" /\ Tail(s) = <<"drop", "read", "drop", "write", "drop">>  BY <2>4
    <3> QED  BY <3>1 DEF Reads
  <2>5. CASE s = <<"read", "read", "drop", "drop">>
    <3>1. Head(s) = "read" /\ Tail(s) = <<"read", "drop", "drop">>  BY <2>5
    <3> QED  BY <3>1 DEF Reads
  <2>6. CASE s = <<"read", "drop", "read", "read", "drop", "drop">>
    <3>1. Head(s) = "read" /\ Tail(s) = <<"drop", "read", "read", "drop", "drop">>  BY <2>6
    <3> QED  BY <3>1 DEF Reads
  <2> QED  BY <2>1, <2>2, <2>3, <2>4, <2>5, <2>6 DEF Free
<1>2. \A s \in Reads : s # <<>> /\ (\/ Head(s) = "drop" /\ Tail(s) \in Free
                                    \/ Head(s) = "read" /\ Tail(s) \in ReadsTwice)
  <2> SUFFICES ASSUME NEW s \in Reads
               PROVE  s # <<>> /\ (\/ Head(s) = "drop" /\ Tail(s) \in Free
                                   \/ Head(s) = "read" /\ Tail(s) \in ReadsTwice)
    OBVIOUS
  <2>1. CASE s = <<"drop">>
    <3>1. s # <<>> /\ Head(s) = "drop" /\ Tail(s) = <<>>  BY <2>1
    <3> QED  BY <3>1 DEF Free
  <2>2. CASE s = <<"drop", "write", "drop">>
    <3>1. s # <<>> /\ Head(s) = "drop" /\ Tail(s) = <<"write", "drop">>  BY <2>2
    <3> QED  BY <3>1 DEF Free
  <2>3. CASE s = <<"drop", "read", "drop", "write", "drop">>
    <3>1. s # <<>> /\ Head(s) = "drop" /\ Tail(s) = <<"read", "drop", "write", "drop">>  BY <2>3
    <3> QED  BY <3>1 DEF Free
  <2>4. CASE s = <<"read", "drop", "drop">>
    <3>1. s # <<>> /\ Head(s) = "read" /\ Tail(s) = <<"drop", "drop">>  BY <2>4
    <3> QED  BY <3>1 DEF ReadsTwice
  <2>5. CASE s = <<"drop", "read", "read", "drop", "drop">>
    <3>1. s # <<>> /\ Head(s) = "drop" /\ Tail(s) = <<"read", "read", "drop", "drop">>  BY <2>5
    <3> QED  BY <3>1 DEF Free
  <2> QED  BY <2>1, <2>2, <2>3, <2>4, <2>5 DEF Reads
<1>3. \A s \in ReadsTwice : s # <<>> /\ Head(s) = "drop" /\ Tail(s) \in Reads
  <2>1. LET s == <<"drop", "drop">> IN s # <<>> /\ Head(s) = "drop" /\ Tail(s) = <<"drop">>
    OBVIOUS
  <2> QED  BY <2>1 DEF ReadsTwice, Reads
<1>4. \A s \in Writes : s # <<>> /\ Head(s) = "drop" /\ Tail(s) \in Free
  <2>1. LET s == <<"drop">> IN s # <<>> /\ Head(s) = "drop" /\ Tail(s) = <<>>
    OBVIOUS
  <2> QED  BY <2>1 DEF Writes, Free
<1> QED  BY <1>1, <1>2, <1>3, <1>4

LEMMA RestsTyped == Free \cup Reads \cup ReadsTwice \cup Writes \subseteq Seq(Ops)
  BY DEF Free, Reads, ReadsTwice, Writes, Ops

-----------------------------------------------------------------------------
(* The inductive invariant: the rest of a handler drops the guards it has.   *)

Holds(t) ==
    \/ readers[t] = 0 /\ writer # t /\ todo[t] \in Free
    \/ readers[t] = 1 /\ writer # t /\ todo[t] \in Reads
    \/ readers[t] = 2 /\ writer # t /\ todo[t] \in ReadsTwice
    \/ readers[t] = 0 /\ writer = t /\ todo[t] \in Writes

(* What a request in the queue is for. *)
Wanted(r) == todo[r.task] # <<>> /\ Head(todo[r.task]) = r.mode

Enqueued ==
    /\ queue \in Seq(Requests)
    /\ \A i \in DOMAIN queue : Wanted(queue[i])
    /\ \A i, j \in DOMAIN queue : queue[i].task = queue[j].task => i = j

IInv ==
    /\ todo \in [Workers -> Seq(Ops)]
    /\ readers \in [Workers -> 0..2]
    /\ writer \in Workers \cup {NoTask}
    /\ \A t \in Workers : Holds(t)
    /\ Enqueued

LEMMA InitHolds == InitLock => IInv
<1> SUFFICES ASSUME InitLock PROVE IInv
  OBVIOUS
<1>1. <<>> \in Free /\ <<>> \in Seq(Ops)  BY DEF Free
<1>2. \A t \in Workers : Holds(t)  BY <1>1, WorkerAssumption DEF InitLock, Holds
<1>3. Enqueued  BY DEF InitLock, Enqueued
<1> QED  BY <1>1, <1>2, <1>3 DEF InitLock, IInv

(* The queue while nobody joins or leaves it and no waiting task moves. *)
LEMMA QueueStays ==
    ASSUME Enqueued, UNCHANGED queue,
           \A i \in DOMAIN queue : todo'[queue[i].task] = todo[queue[i].task]
    PROVE  Enqueued'
  BY DEF Enqueued, Wanted

LEMMA BeginPreserves ==
    ASSUME IInv, NEW t \in Workers, Begin(t)
    PROVE  IInv'
<1>1. PICK h \in Handlers(t) : todo' = [todo EXCEPT ![t] = h]
  BY DEF Begin
<1>2. h \in Free /\ h \in Seq(Ops)  BY HandlersFree, RestsTyped
<1>3. todo[t] = <<>> /\ readers' = readers /\ writer' = writer /\ queue' = queue
  BY DEF Begin, Idle
<1>4. readers[t] = 0 /\ writer # t  BY <1>3, OneOperation DEF IInv, Holds
<1>5. \A u \in Workers : Holds(u)'
  <2> TAKE u \in Workers
  <2>1. CASE u = t  BY <1>1, <1>2, <1>3, <1>4, <2>1 DEF IInv, Holds
  <2>2. CASE u # t  BY <1>1, <1>3, <2>2 DEF IInv, Holds
  <2> QED  BY <2>1, <2>2
<1>6. Enqueued'
  <2>1. \A i \in DOMAIN queue : queue[i].task # t  BY <1>3 DEF IInv, Enqueued, Wanted
  <2> QED  BY <1>1, <1>3, <2>1, QueueStays DEF IInv
<1> QED  BY <1>1, <1>2, <1>3, <1>5, <1>6 DEF IInv

(* A task that gets its guard and stands in the queue no longer. *)
LEMMA AcquirePreserves ==
    ASSUME IInv, NEW t \in Workers, NEW mode \in {"read", "write"},
           todo[t] # <<>>, Head(todo[t]) = mode, Compatible(mode), Acquire(t, mode)
    PROVE  /\ todo' \in [Workers -> Seq(Ops)]
           /\ readers' \in [Workers -> 0..2]
           /\ writer' \in Workers \cup {NoTask}
           /\ \A u \in Workers : Holds(u)'
<1>1. todo' = [todo EXCEPT ![t] = Tail(@)]  BY DEF Acquire
<1>2. writer = NoTask /\ NoTask \notin Workers  BY WorkerAssumption DEF Compatible
<1>3. CASE mode = "read"
  <2>1. readers' = [readers EXCEPT ![t] = @ + 1] /\ writer' = writer
    BY <1>3 DEF Acquire
  <2>2. \/ readers[t] = 0 /\ Tail(todo[t]) \in Reads
        \/ readers[t] = 1 /\ Tail(todo[t]) \in ReadsTwice
    BY <1>2, <1>3, OneOperation DEF IInv, Holds
  <2>3. Holds(t)'  BY <1>1, <1>2, <2>1, <2>2 DEF IInv, Holds
  <2>4. \A u \in Workers \ {t} : Holds(u)'  BY <1>1, <2>1 DEF IInv, Holds
  <2>5. Tail(todo[t]) \in Seq(Ops)  BY <2>2, RestsTyped
  <2>6. readers' \in [Workers -> 0..2]  BY <2>1, <2>2 DEF IInv
  <2> QED  BY <1>1, <1>2, <2>1, <2>3, <2>4, <2>5, <2>6 DEF IInv
<1>4. CASE mode = "write"
  <2>1. readers' = readers /\ writer' = t  BY <1>4 DEF Acquire
  <2>2. \A u \in Workers : readers[u] = 0  BY <1>4 DEF Compatible
  <2>3. Tail(todo[t]) \in Writes
    BY <1>2, <1>4, <2>2, OneOperation DEF IInv, Holds
  <2>4. Holds(t)'  BY <1>1, <2>1, <2>2, <2>3 DEF IInv, Holds
  <2>5. \A u \in Workers \ {t} : Holds(u)'  BY <1>1, <1>2, <2>1 DEF IInv, Holds
  <2>6. Tail(todo[t]) \in Seq(Ops)  BY <2>3, RestsTyped
  <2> QED  BY <1>1, <2>1, <2>2, <2>4, <2>5, <2>6 DEF IInv
<1> QED  BY <1>3, <1>4

LEMMA RequestPreserves ==
    ASSUME IInv, NEW t \in Workers, Request(t)
    PROVE  IInv'
<1>1. PICK mode \in {"read", "write"} :
        /\ Wants(t, mode)
        /\ \/ queue = <<>> /\ Compatible(mode) /\ Acquire(t, mode) /\ UNCHANGED queue
           \/ /\ queue' = Append(queue, [task |-> t, mode |-> mode])
              /\ UNCHANGED <<todo, readers, writer>>
  BY DEF Request
<1>2. todo[t] # <<>> /\ Head(todo[t]) = mode  BY <1>1 DEF Wants, Idle
<1>3. \A i \in DOMAIN queue : queue[i].task # t  BY <1>1 DEF Wants, Waiting
<1>4. CASE queue = <<>> /\ Compatible(mode) /\ Acquire(t, mode) /\ UNCHANGED queue
  <2>1. Enqueued'  BY <1>4 DEF IInv, Enqueued
  <2> QED  BY <1>2, <1>4, <2>1, AcquirePreserves DEF IInv
<1>5. CASE /\ queue' = Append(queue, [task |-> t, mode |-> mode])
           /\ UNCHANGED <<todo, readers, writer>>
  <2> DEFINE r == [task |-> t, mode |-> mode]
  <2>1. queue \in Seq(Requests) /\ r \in Requests  BY DEF IInv, Enqueued, Requests
  <2>2. /\ queue' \in Seq(Requests)
        /\ Len(queue') = Len(queue) + 1
        /\ queue'[Len(queue) + 1] = r
        /\ \A i \in 1..Len(queue) : queue'[i] = queue[i]
    BY <1>5, <2>1, AppendProperties
  <2>3. DOMAIN queue = 1..Len(queue) /\ DOMAIN queue' = 1..Len(queue) + 1 /\ Len(queue) \in Nat
    BY <2>1, <2>2
  <2>4. \A i \in DOMAIN queue' : i \in DOMAIN queue \/ i = Len(queue) + 1  BY <2>3
  <2>5. \A i \in DOMAIN queue' : Wanted(queue[i])'
    <3> TAKE i \in DOMAIN queue'
    <3>1. CASE i \in DOMAIN queue
      BY <1>5, <2>2, <2>3, <3>1 DEF IInv, Enqueued, Wanted
    <3>2. CASE i = Len(queue) + 1
      <4>1. queue'[i].task = t /\ queue'[i].mode = mode  BY <2>2, <3>2
      <4> QED  BY <1>2, <1>5, <4>1 DEF Wanted
    <3> QED  BY <2>4, <3>1, <3>2
  <2>6. \A i, j \in DOMAIN queue' : queue'[i].task = queue'[j].task => i = j
    <3>1. \A i \in DOMAIN queue : queue'[i].task # t
      BY <1>3, <2>2, <2>3
    <3>2. queue'[Len(queue) + 1].task = t  BY <2>2
    <3>3. \A i, j \in DOMAIN queue : queue'[i].task = queue'[j].task => i = j
      BY <2>2, <2>3 DEF IInv, Enqueued
    <3> QED  BY <2>4, <3>1, <3>2, <3>3
  <2>7. Enqueued'  BY <2>2, <2>5, <2>6 DEF Enqueued
  <2> QED  BY <1>5, <2>7 DEF IInv, Holds
<1> QED  BY <1>1, <1>4, <1>5

LEMMA GrantPreserves ==
    ASSUME IInv, Grant
    PROVE  IInv'
<1> DEFINE r == Head(queue)
<1>1. /\ queue \in Seq(Requests) /\ queue # <<>>
      /\ Compatible(r.mode) /\ Acquire(r.task, r.mode) /\ queue' = Tail(queue)
  BY DEF IInv, Enqueued, Grant
<1>2. 1 \in DOMAIN queue /\ r = queue[1] /\ r \in Requests  BY <1>1
<1>3. r.task \in Workers /\ r.mode \in {"read", "write"}  BY <1>2 DEF Requests
<1>4. todo[r.task] # <<>> /\ Head(todo[r.task]) = r.mode
  BY <1>2 DEF IInv, Enqueued, Wanted
<1>5. /\ queue' \in Seq(Requests)
      /\ Len(queue') = Len(queue) - 1
      /\ \A i \in 1..Len(queue') : queue'[i] = queue[i + 1]
  BY <1>1, HeadTailProperties
<1>6. \A i \in DOMAIN queue' : i \in Nat /\ i + 1 \in DOMAIN queue /\ queue'[i] = queue[i + 1]
  BY <1>1, <1>5
<1>7. \A i \in DOMAIN queue' : queue'[i].task # r.task
  <2> SUFFICES ASSUME NEW i \in DOMAIN queue', queue'[i].task = r.task PROVE FALSE
    OBVIOUS
  <2>1. i \in Nat /\ i + 1 \in DOMAIN queue /\ queue[i + 1].task = queue[1].task
    BY <1>2, <1>6
  <2>2. i + 1 = 1  BY <1>2, <2>1 DEF IInv, Enqueued
  <2>3. i >= 1  BY <1>5
  <2> QED  BY <2>1, <2>2, <2>3
<1>8. todo' = [todo EXCEPT ![r.task] = Tail(@)]  BY <1>1 DEF Acquire
<1>9. Enqueued'
  <2>1. \A i \in DOMAIN queue' : Wanted(queue[i])'
    <3> TAKE i \in DOMAIN queue'
    <3>1. queue'[i] \in Requests /\ Wanted(queue[i + 1])  BY <1>5, <1>6 DEF IInv, Enqueued
    <3>2. queue'[i].task \in Workers  BY <3>1 DEF Requests
    <3>3. queue'[i].task # r.task /\ queue'[i] = queue[i + 1]  BY <1>6, <1>7
    <3>4. todo'[queue'[i].task] = todo[queue'[i].task]
      BY <1>8, <3>2, <3>3 DEF IInv
    <3> QED  BY <3>1, <3>3, <3>4 DEF Wanted
  <2>2. \A i, j \in DOMAIN queue' : queue'[i].task = queue'[j].task => i = j
    <3> SUFFICES ASSUME NEW i \in DOMAIN queue', NEW j \in DOMAIN queue',
                        queue'[i].task = queue'[j].task
                 PROVE  i = j
      OBVIOUS
    <3>1. queue[i + 1].task = queue[j + 1].task  BY <1>6
    <3>2. i + 1 = j + 1  BY <1>6, <3>1 DEF IInv, Enqueued
    <3> QED  BY <1>6, <3>2
  <2> QED  BY <1>5, <2>1, <2>2 DEF Enqueued
<1> QED  BY <1>1, <1>3, <1>4, <1>9, AcquirePreserves DEF IInv

LEMMA DropPreserves ==
    ASSUME IInv, NEW t \in Workers, Drop(t)
    PROVE  IInv'
<1>1. /\ todo[t] # <<>> /\ Head(todo[t]) = "drop"
      /\ todo' = [todo EXCEPT ![t] = Tail(@)]
      /\ queue' = queue
  BY DEF Drop, Wants, Idle
<1>2. Enqueued'
  <2>1. \A i \in DOMAIN queue : queue[i].mode \in {"read", "write"}
    <3>1. \A i \in DOMAIN queue : queue[i] \in Requests  BY DEF IInv, Enqueued
    <3> QED  BY <3>1 DEF Requests
  <2>2. \A i \in DOMAIN queue : queue[i].task # t
    BY <1>1, <2>1 DEF IInv, Enqueued, Wanted
  <2> QED  BY <1>1, <2>2, QueueStays DEF IInv
<1>3. CASE writer = t
  <2>1. readers' = readers /\ writer' = NoTask  BY <1>3 DEF Drop
  <2>2. readers[t] = 0 /\ Tail(todo[t]) \in Free
    BY <1>3, OneOperation DEF IInv, Holds
  <2>3. Holds(t)'  BY <1>1, <2>1, <2>2, WorkerAssumption DEF IInv, Holds
  <2>4. \A u \in Workers \ {t} : Holds(u)'
    BY <1>1, <1>3, <2>1, WorkerAssumption DEF IInv, Holds
  <2>5. Tail(todo[t]) \in Seq(Ops)  BY <2>2, RestsTyped
  <2> QED  BY <1>1, <1>2, <2>1, <2>3, <2>4, <2>5 DEF IInv
<1>4. CASE writer # t
  <2>1. readers' = [readers EXCEPT ![t] = @ - 1] /\ writer' = writer  BY <1>4 DEF Drop
  <2>2. \/ readers[t] = 1 /\ Tail(todo[t]) \in Free
        \/ readers[t] = 2 /\ Tail(todo[t]) \in Reads
    BY <1>1, <1>4, OneOperation DEF IInv, Holds
  <2>3. Holds(t)'  BY <1>1, <1>4, <2>1, <2>2 DEF IInv, Holds
  <2>4. \A u \in Workers \ {t} : Holds(u)'  BY <1>1, <2>1 DEF IInv, Holds
  <2>5. Tail(todo[t]) \in Seq(Ops)  BY <2>2, RestsTyped
  <2>6. readers' \in [Workers -> 0..2]  BY <2>1, <2>2 DEF IInv
  <2> QED  BY <1>1, <1>2, <2>1, <2>3, <2>4, <2>5, <2>6 DEF IInv
<1> QED  BY <1>3, <1>4

LEMMA StepPreserves == IInv /\ [NextLock]_lockVars => IInv'
<1> SUFFICES ASSUME IInv, [NextLock]_lockVars PROVE IInv'
  OBVIOUS
<1>1. CASE Grant  BY <1>1, GrantPreserves
<1>2. ASSUME NEW t \in Workers, Begin(t) PROVE IInv'  BY <1>2, BeginPreserves
<1>3. ASSUME NEW t \in Workers, Request(t) PROVE IInv'  BY <1>3, RequestPreserves
<1>4. ASSUME NEW t \in Workers, Drop(t) PROVE IInv'  BY <1>4, DropPreserves
<1>5. CASE UNCHANGED lockVars  BY <1>5 DEF lockVars, IInv, Holds, Enqueued, Wanted
<1> QED  BY <1>1, <1>2, <1>3, <1>4, <1>5 DEF NextLock

LEMMA Invariance == SpecLock => []IInv
  BY InitHolds, StepPreserves, PTL DEF SpecLock

-----------------------------------------------------------------------------
(* Every variable keeps its type, and no task stands twice in the queue. *)
THEOREM LockTypeCorrect == SpecLock => []LockTypeOK
<1>1. IInv => LockTypeOK  BY DEF IInv, Enqueued, LockTypeOK
<1> QED  BY <1>1, Invariance, PTL

(* On every path of every handler each guard that was taken is given back,  *)
(* and nobody waits to write while it holds a guard of its own.             *)
THEOREM AllGuardsReturned == SpecLock => []GuardsReturned
<1>1. IInv => GuardsReturned
  <2> SUFFICES ASSUME IInv, NEW t \in Workers,
                      Idle(t) \/ (Waiting(t) /\ Head(todo[t]) = "write")
               PROVE  readers[t] = 0 /\ writer # t
    BY DEF GuardsReturned
  <2>1. CASE Idle(t)  BY <2>1, OneOperation DEF IInv, Holds, Idle
  <2>2. CASE Waiting(t) /\ Head(todo[t]) = "write"
    BY <2>2, OneOperation DEF IInv, Holds
  <2> QED  BY <2>1, <2>2
<1> QED  BY <1>1, Invariance, PTL

(* The server cannot hang but by the nested read of handle_hello: if every  *)
(* handler waits, a reader waits behind a writer that waits for it.         *)
THEOREM OnlyNestedReadsHang == SpecLock => []StuckOnlyWhenNested
<1>1. IInv => StuckOnlyWhenNested
  <2> SUFFICES ASSUME IInv, NEW u \in Workers, ~Idle(u),
                      \A t \in Workers : ~Idle(t) => Waiting(t),
                      ~(queue # <<>> /\ Compatible(Head(queue).mode))
               PROVE  \E t \in Workers : NestedBehindWriter(t)
    BY DEF StuckOnlyWhenNested
  <2>1. \A i \in DOMAIN queue : queue[i] \in Requests  BY DEF IInv, Enqueued
  <2>2. \A t \in Workers : Waiting(t) => Head(todo[t]) # "drop"
    <3>1. \A i \in DOMAIN queue : queue[i].mode \in {"read", "write"}
      BY <2>1 DEF Requests
    <3>2. \A i \in DOMAIN queue : Head(todo[queue[i].task]) = queue[i].mode
      BY DEF IInv, Enqueued, Wanted
    <3> QED  BY <3>1, <3>2 DEF Waiting
  <2>3. writer = NoTask
    <3> SUFFICES ASSUME writer \in Workers PROVE FALSE
      BY DEF IInv
    <3>1. todo[writer] # <<>> /\ Head(todo[writer]) = "drop"
      BY OneOperation DEF IInv, Holds
    <3> QED  BY <2>2, <3>1 DEF Idle
  <2>4. queue \in Seq(Requests) /\ queue # <<>>  BY DEF IInv, Enqueued, Waiting
  <2>5. 1 \in DOMAIN queue /\ Head(queue) = queue[1]  BY <2>4
  <2>6. PICK t \in Workers : queue[1].mode = "write" /\ readers[t] # 0
    BY <2>3, <2>4, <2>5 DEF Compatible
  <2>7. todo[t] # <<>> /\ Head(todo[t]) # "write" /\ readers[t] > 0
    BY <2>6, OneOperation DEF IInv, Holds
  <2>8. PICK j \in DOMAIN queue : queue[j].task = t
    BY <2>7 DEF Idle, Waiting
  <2>9. queue[j].mode # "write"  BY <2>7, <2>8 DEF IInv, Enqueued, Wanted
  <2>10. j # 1 /\ 1 < j  BY <2>4, <2>6, <2>9
  <2> QED  BY <2>5, <2>6, <2>7, <2>8, <2>10 DEF NestedBehindWriter
<1> QED  BY <1>1, Invariance, PTL
=============================================================================
