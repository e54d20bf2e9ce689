----------------------------- MODULE CallsProofs -----------------------------
(***************************************************************************)
(* Theorems about Calls, for every number of connections and of mishaps.   *)
(***************************************************************************)
EXTENDS Calls, SequenceTheorems, FiniteSetTheorems, TLAPS

-----------------------------------------------------------------------------
(* The inductive invariant. *)

Lines == Signals \cup Presence
Reports == Signals \cup [cmd : {"JOINED", "LEFT"}]

Placing(n) == loop[n].at \in {"offer", "answer"}

Typed ==
    /\ inRoom \in [Nodes -> BOOLEAN] /\ member \in [Nodes -> BOOLEAN]
    /\ wire \in [Nodes -> Seq(Lines)] /\ events \in [Nodes -> Seq(Reports)]
    /\ known \in [Nodes -> BOOLEAN] /\ listed \in [Nodes -> BOOLEAN]
    /\ redials \in [Nodes -> Nat] /\ loop \in [Nodes -> Steps]
    /\ peer \in [Nodes -> Created \cup {NoConn}]
    /\ conn \in Seq(Connection) /\ Len(conn) <= MaxConns
    /\ mishaps \in 0..MaxMishaps /\ dropped \in BOOLEAN /\ moved \subseteq Nodes

(* A client keeps connections of its own.  One with an answer under way     *)
(* knows whom it answers, and who asks for a redial had a mishap.          *)
Backed ==
    /\ \A n \in Nodes : peer[n] # NoConn => conn[peer[n]].owner = n
    /\ \A n \in Nodes : Placing(n) =>
          /\ loop[n].conn \in Created /\ conn[loop[n].conn].owner = n
          /\ loop[n].at = "answer" => conn[loop[n].conn].remote # NoConn
    /\ redials[Caller] + redials[Callee] <= mishaps

(* The last JOIN or PART that a client has sent tells where it is.          *)
Moves(q) == {i \in DOMAIN q : q[i].cmd \in {"JOIN", "PART"}}

Ends(q, before, after) ==
    /\ Moves(q) = {} => before = after
    /\ \A i \in Moves(q) : (\A j \in Moves(q) : j <= i) => (q[i].cmd = "JOIN" <=> after)

None(q, cmd) == \A i \in DOMAIN q : q[i].cmd # cmd
Once(q, cmd) == \A i, j \in DOMAIN q : q[i].cmd = cmd /\ q[j].cmd = cmd => i = j

Present ==
    \A n \in Nodes :
        /\ Ends(wire[n], member[n], inRoom[n])
        /\ n \notin moved => None(wire[n], "PART")

(* Who never moved and is not in the room together with the other has no    *)
(* trace of it, or will have none when it comes to the last of its events, *)
(* unless a connection has gone astray.                                    *)
Clean(n) ==
    /\ events[n] = <<>> /\ loop[n] = Idle /\ peer[n] = NoConn /\ ~listed[n]
    /\ \A c \in Owned(n) : conn[c].state = "closed"

LeftLast(n) == events[n] # <<>> /\ events[n][Len(events[n])].cmd = "LEFT"

Together(n) == member[n] /\ member[Other(n)]

Quiet ==
    \A n \in Nodes \ moved :
        ~Together(n) => ~known[n] /\ (Orphan(n) \/ LeftLast(n) \/ Clean(n))

(* Before any mishap each client joins once, the caller creates one         *)
(* connection, makes one offer, and the callee one connection for it.      *)
Calm ==
    /\ moved = {} /\ \A n \in Nodes : redials[n] = 0 /\ loop[n].at # "backoff"
    /\ \A n \in Nodes : /\ Once(wire[n], "JOIN")
                        /\ ~inRoom[n] \/ member[n] => None(wire[n], "JOIN")
                        /\ member[n] => inRoom[n]

Silent == None(wire[Caller], "OFFER") /\ None(events[Callee], "OFFER") /\ Owned(Callee) = {}

OneWay ==
    /\ None(wire[Callee], "OFFER") /\ None(events[Caller], "OFFER")
    /\ loop[Callee].at # "offer" /\ loop[Caller].at # "answer"

OneCall ==
    /\ ~Together(Caller) => None(events[Caller], "JOINED") /\ Owned(Caller) = {}
    /\ Once(events[Caller], "JOINED")
    /\ None(events[Caller], "JOINED") \/ Owned(Caller) = {}
    /\ \A c, d \in Owned(Caller) : c = d
    /\ Owned(Caller) = {} \/ loop[Caller].at = "offer" => Silent

OneAnswer ==
    /\ Once(wire[Caller], "OFFER") /\ Once(events[Callee], "OFFER")
    /\ \/ None(wire[Caller], "OFFER")
       \/ None(events[Callee], "OFFER") /\ Owned(Callee) = {}
    /\ None(events[Callee], "OFFER") \/ Owned(Callee) = {}
    /\ \A c, d \in Owned(Callee) : c = d

Single == mishaps = 0 => Calm /\ OneWay /\ OneCall /\ OneAnswer

IInv == Typed /\ Backed /\ Present /\ Quiet /\ Single

-----------------------------------------------------------------------------
(* The pair, lines and queues. *)

LEMMA Pair ==
    /\ Caller \in Nodes /\ Callee \in Nodes /\ Caller # Callee
    /\ \A n \in Nodes : /\ Other(n) \in Nodes /\ Other(n) # n /\ Other(Other(n)) = n
                        /\ Nodes = {n, Other(n)}
    /\ Other(Caller) = Callee /\ Other(Callee) = Caller
  BY PairAssumption DEF Nodes, Other

LEMMA LineTypes ==
    /\ \A c \in {"JOIN", "PART", "HELLO"} : Line(c) \in Lines /\ Line(c).cmd = c
    /\ \A c \in {"JOINED", "LEFT"} : Line(c) \in Reports /\ Line(c).cmd = c
    /\ \A f \in Conns, c \in {"OFFER", "CANDIDATE"} :
          [cmd |-> c, from |-> f] \in Signals /\ [cmd |-> c, from |-> f].cmd = c
    /\ \A t, f \in Conns :
          /\ [cmd |-> "ANSWER", to |-> t, from |-> f] \in Signals
          /\ [cmd |-> "ANSWER", to |-> t, from |-> f].cmd = "ANSWER"
    /\ \A m \in Lines : m.cmd \in {"OFFER", "ANSWER", "CANDIDATE"} => m \in Signals
    /\ \A m \in Reports : m.cmd \in {"OFFER", "ANSWER", "CANDIDATE"} => m \in Signals
    /\ \A m \in Signals : /\ m \in Lines /\ m \in Reports /\ m.from \in Conns
                          /\ m.cmd \in {"OFFER", "ANSWER", "CANDIDATE"}
<1>1. \A m \in Signals : m.from \in Conns /\ m.cmd \in {"OFFER", "ANSWER", "CANDIDATE"}
  BY DEF Signals
<1>2. /\ \A f \in Conns, c \in {"OFFER", "CANDIDATE"} : [cmd |-> c, from |-> f] \in Signals
      /\ \A t, f \in Conns : [cmd |-> "ANSWER", to |-> t, from |-> f] \in Signals
  BY DEF Signals
<1>3. \A m \in Presence : m.cmd \notin {"OFFER", "ANSWER", "CANDIDATE"}
  BY DEF Presence
<1>4. \A m \in [cmd : {"JOINED", "LEFT"}] : m.cmd \notin {"OFFER", "ANSWER", "CANDIDATE"}
  OBVIOUS
<1>5. \A c \in {"JOIN", "PART", "HELLO"} : Line(c) \in Presence /\ Line(c).cmd = c
  BY DEF Presence, Line
<1>6. \A c \in {"JOINED", "LEFT"} : Line(c) \in [cmd : {"JOINED", "LEFT"}] /\ Line(c).cmd = c
  BY DEF Line
<1> QED
  BY <1>1, <1>2, <1>3, <1>4, <1>5, <1>6 DEF Lines, Reports

LEMMA OneMore ==
    ASSUME NEW S, NEW q \in Seq(S), NEW m \in S
    PROVE  q \o <<m>> = Append(q, m)
  OBVIOUS

(* A queue with one more at its end. *)
LEMMA Longer ==
    ASSUME NEW S, NEW q \in Seq(S), NEW m \in S, NEW c
    PROVE  /\ Append(q, m) \in Seq(S) /\ Append(q, m) # <<>>
           /\ Append(q, m)[Len(Append(q, m))] = m
           /\ m.cmd # c /\ None(q, c) => None(Append(q, m), c)
           /\ m.cmd # c /\ Once(q, c) => Once(Append(q, m), c)
           /\ None(q, c) => Once(Append(q, m), c)
<1> DEFINE a == Append(q, m)
<1>1. /\ a \in Seq(S) /\ Len(a) = Len(q) + 1 /\ Len(q) \in Nat
      /\ \A i \in 1..Len(q) : a[i] = q[i]
      /\ a[Len(q) + 1] = m
      /\ DOMAIN q = 1..Len(q) /\ DOMAIN a = 1..Len(q) + 1
  BY AppendProperties
<1>2. a # <<>>
  BY <1>1
<1> HIDE DEF a
<1>3. m.cmd # c /\ None(q, c) => None(a, c)
  BY <1>1 DEF None
<1>4. m.cmd # c /\ Once(q, c) => Once(a, c)
  BY <1>1 DEF Once
<1>5. None(q, c) => Once(a, c)
  BY <1>1 DEF None, Once
<1> QED
  BY <1>1, <1>2, <1>3, <1>4, <1>5 DEF a

(* A queue without its first. *)
LEMMA Shorter ==
    ASSUME NEW S, NEW q \in Seq(S), q # <<>>, NEW c
    PROVE  /\ Tail(q) \in Seq(S) /\ Head(q) \in S
           /\ None(q, c) => None(Tail(q), c) /\ Head(q).cmd # c
           /\ Once(q, c) => Once(Tail(q), c)
           /\ Once(q, c) /\ Head(q).cmd = c => None(Tail(q), c)
           /\ Tail(q) # <<>> => Tail(q)[Len(Tail(q))] = q[Len(q)]
           /\ Tail(q) = <<>> => Head(q) = q[Len(q)]
<1> DEFINE t == Tail(q)
<1>a. /\ Len(q) \in Nat \ {0} /\ DOMAIN q = 1..Len(q) /\ DOMAIN t = 1..Len(q) - 1
      /\ \A i \in 1..Len(q) - 1 : t[i] = q[i + 1]
      /\ Head(q) = q[1] /\ t \in Seq(S) /\ Len(t) = Len(q) - 1
  BY HeadTailProperties, EmptySeq
<1>b. Head(q) \in S
  BY <1>a
<1>c. t = <<>> <=> Len(t) = 0
  BY <1>a, EmptySeq
<1>1. /\ Len(q) \in Nat \ {0} /\ DOMAIN q = 1..Len(q) /\ DOMAIN t = 1..Len(q) - 1
      /\ \A i \in 1..Len(q) - 1 : t[i] = q[i + 1]
      /\ Head(q) = q[1] /\ t \in Seq(S) /\ Len(t) = Len(q) - 1 /\ Head(q) \in S
      /\ t = <<>> <=> Len(t) = 0
  BY <1>a, <1>b, <1>c
<1> HIDE DEF t
<1>2. None(q, c) => None(t, c) /\ Head(q).cmd # c
  BY <1>1 DEF None
<1>3. Once(q, c) => Once(t, c)
  <2> SUFFICES ASSUME Once(q, c), NEW i \in DOMAIN t, NEW j \in DOMAIN t, t[i].cmd = c, t[j].cmd = c
               PROVE  i = j
    BY DEF Once
  <2>1. i + 1 \in DOMAIN q /\ j + 1 \in DOMAIN q /\ q[i + 1] = t[i] /\ q[j + 1] = t[j]
    BY <1>1
  <2> QED
    BY <1>1, <2>1 DEF Once
<1>4. Once(q, c) /\ Head(q).cmd = c => None(t, c)
  <2> SUFFICES ASSUME Once(q, c), q[1].cmd = c, NEW i \in DOMAIN t, t[i].cmd = c
               PROVE  FALSE
    BY <1>1 DEF None
  <2>1. i + 1 \in DOMAIN q /\ q[i + 1] = t[i] /\ 1 \in DOMAIN q /\ i + 1 # 1
    BY <1>1
  <2> QED
    BY <2>1 DEF Once
<1>5. t # <<>> => t[Len(t)] = q[Len(q)]
  BY <1>1
<1>6. t = <<>> => Head(q) = q[Len(q)]
  BY <1>1
<1> QED
  BY <1>1, <1>2, <1>3, <1>4, <1>5, <1>6 DEF t

(* Where a client is, with one more line or one less on its wire. *)
LEMMA SendsMove ==
    ASSUME NEW q \in Seq(Lines), NEW m \in Lines, NEW b \in BOOLEAN, NEW a \in BOOLEAN, NEW r \in BOOLEAN,
           Ends(q, b, a), m.cmd \notin {"JOIN", "PART"} => r = a,
           m.cmd = "JOIN" => r = TRUE, m.cmd = "PART" => r = FALSE
    PROVE  Ends(Append(q, m), b, r)
<1> DEFINE p == Append(q, m)
<1>1. /\ Len(q) \in Nat /\ \A i \in 1..Len(q) : p[i] = q[i]
      /\ p[Len(q) + 1] = m
      /\ DOMAIN q = 1..Len(q) /\ DOMAIN p = 1..Len(q) + 1
  BY AppendProperties
<1> HIDE DEF p
<1>2. CASE m.cmd \in {"JOIN", "PART"}
  <2>1. Len(q) + 1 \in Moves(p) /\ \A i \in Moves(p) : i <= Len(q) + 1 /\ i \in Int
    BY <1>1, <1>2 DEF Moves
  <2>2. ASSUME NEW i \in Moves(p), \A j \in Moves(p) : j <= i
        PROVE  p[i].cmd = "JOIN" <=> r
    <3>1. i = Len(q) + 1
      BY <1>1, <2>1, <2>2
    <3> QED
      BY <1>1, <1>2, <3>1
  <2> QED
    BY <2>1, <2>2 DEF Ends, p
<1>3. CASE m.cmd \notin {"JOIN", "PART"}
  <2>1. Moves(p) = Moves(q) /\ \A i \in Moves(q) : p[i] = q[i]
    BY <1>1, <1>3 DEF Moves
  <2> QED
    BY <1>3, <2>1 DEF Ends, p
<1> QED
  BY <1>2, <1>3

LEMMA RelaysMove ==
    ASSUME NEW q \in Seq(Lines), q # <<>>, NEW b \in BOOLEAN, NEW a \in BOOLEAN, NEW r \in BOOLEAN,
           Ends(q, b, a), Head(q).cmd \notin {"JOIN", "PART"} => r = b,
           Head(q).cmd = "JOIN" => r = TRUE, Head(q).cmd = "PART" => r = FALSE
    PROVE  Ends(Tail(q), r, a)
<1> DEFINE t == Tail(q)
<1>1. /\ Len(q) \in Nat \ {0} /\ DOMAIN q = 1..Len(q) /\ DOMAIN t = 1..Len(q) - 1
      /\ \A i \in 1..Len(q) - 1 : t[i] = q[i + 1]
      /\ Head(q) = q[1]
  BY HeadTailProperties, EmptySeq
<1> HIDE DEF t
<1>2. /\ \A i \in Moves(t) : i \in Nat /\ i + 1 \in Moves(q) /\ q[i + 1] = t[i]
      /\ \A i \in Moves(q) : i \in Nat /\ (i # 1 => i - 1 \in Moves(t))
  BY <1>1 DEF Moves
<1>3. ASSUME Moves(t) = {}
      PROVE  r = a
  <2>1. \A i \in Moves(q) : i = 1
    BY <1>2, <1>3
  <2>2. CASE 1 \in Moves(q)
    <3>1. Head(q).cmd = "JOIN" <=> a
      BY <1>1, <2>1, <2>2 DEF Ends
    <3>2. Head(q).cmd \in {"JOIN", "PART"}
      BY <1>1, <2>2 DEF Moves
    <3> QED
      BY <3>1, <3>2
  <2>3. CASE 1 \notin Moves(q)
    <3>1. Moves(q) = {} /\ Head(q).cmd \notin {"JOIN", "PART"}
      BY <1>1, <2>1, <2>3 DEF Moves
    <3> QED
      BY <3>1 DEF Ends
  <2> QED
    BY <2>2, <2>3
<1>4. ASSUME NEW i \in Moves(t), \A j \in Moves(t) : j <= i
      PROVE  t[i].cmd = "JOIN" <=> a
  <2>1. \A j \in Moves(q) : j <= i + 1
    <3> SUFFICES ASSUME NEW j \in Moves(q), j # 1 PROVE j <= i + 1
      BY <1>2
    <3>1. j - 1 \in Moves(t) /\ j \in Nat
      BY <1>2
    <3> QED
      BY <1>2, <1>4, <3>1
  <2> QED
    BY <1>2, <2>1 DEF Ends
<1> QED
  BY <1>3, <1>4 DEF Ends, t
-----------------------------------------------------------------------------
(* Connections. *)

(* What a handler that creates no connection leaves of those there are. *)
Kept(q) ==
    /\ q \in Seq(Connection) /\ DOMAIN q = Created /\ Len(q) = Len(conn)
    /\ \A c \in Created : /\ q[c].owner = conn[c].owner
                          /\ conn[c].remote # NoConn => q[c].remote # NoConn

ClosedAsWell(q, p) ==
    \A c \in Created : q[c].state = "closed" <=> conn[c].state = "closed" \/ c = p

LEMMA FreshIs ==
    ASSUME NEW n \in Nodes, NEW r \in Conns \cup {NoConn}
    PROVE  Fresh(n, r) \in Connection /\ Fresh(n, r).owner = n /\ Fresh(n, r).remote = r
  BY DEF Fresh, Connection

LEMMA ConnIs ==
    ASSUME Typed
    PROVE  /\ Len(conn) \in Nat /\ Created = 1..Len(conn) /\ NoConn \notin Created
           /\ Created \subseteq Conns /\ NoConn \notin Conns
           /\ \A c \in Created : /\ conn[c] \in Connection /\ conn[c].owner \in Nodes
                                 /\ conn[c].remote \in Conns \cup {NoConn}
<1>1. Len(conn) \in Nat /\ Created = 1..Len(conn) /\ \A c \in Created : conn[c] \in Connection
  BY DEF Typed, Created
<1>2. MaxConns \in Nat /\ Len(conn) <= MaxConns
  BY BoundAssumption DEF Typed
<1>3. \A c \in Created : conn[c].owner \in Nodes /\ conn[c].remote \in Conns \cup {NoConn}
  BY <1>1 DEF Connection
<1> QED
  BY <1>1, <1>2, <1>3 DEF Conns, NoConn

LEMMA GrownIs ==
    ASSUME NEW q \in Seq(Connection), Len(q) < MaxConns, NEW f \in Connection
    PROVE  /\ Append(q, f) \in Seq(Connection) /\ Len(Append(q, f)) <= MaxConns
           /\ DOMAIN Append(q, f) = DOMAIN q \cup {Len(q) + 1} /\ Len(q) + 1 \notin DOMAIN q
           /\ Len(q) + 1 \in Conns
           /\ \A c \in DOMAIN q : Append(q, f)[c] = q[c]
           /\ Append(q, f)[Len(q) + 1] = f
<1>1. /\ Append(q, f) \in Seq(Connection) /\ Len(Append(q, f)) = Len(q) + 1 /\ Len(q) \in Nat
      /\ \A c \in 1..Len(q) : Append(q, f)[c] = q[c]
      /\ Append(q, f)[Len(q) + 1] = f
      /\ DOMAIN q = 1..Len(q) /\ DOMAIN Append(q, f) = 1..Len(q) + 1
  BY AppendProperties
<1>2. MaxConns \in Nat
  BY BoundAssumption
<1> QED
  BY <1>1, <1>2 DEF Conns

LEMMA SetIs ==
    ASSUME Typed, NEW c \in Created, NEW e \in Connection, e.owner = conn[c].owner,
           conn[c].remote # NoConn => e.remote # NoConn
    PROVE  Kept([conn EXCEPT ![c] = e])
<1> DEFINE q == [conn EXCEPT ![c] = e]
<1>1. conn \in Seq(Connection) /\ c \in DOMAIN conn
  BY DEF Typed, Created
<1>2. q \in Seq(Connection) /\ Len(q) = Len(conn) /\ DOMAIN q = DOMAIN conn
  BY <1>1, ExceptSeq
<1>3. \A d \in DOMAIN conn : q[d] = IF d = c THEN e ELSE conn[d]
  BY <1>1
<1> HIDE DEF q
<1>4. \A d \in Created : /\ q[d].owner = conn[d].owner
                         /\ conn[d].remote # NoConn => q[d].remote # NoConn
  BY <1>3 DEF Created
<1> QED
  BY <1>2, <1>4 DEF Kept, Created, q

LEMMA KeptSame ==
    ASSUME Typed
    PROVE  Kept(conn) /\ ClosedAsWell(conn, NoConn)
<1>1. conn \in Seq(Connection) /\ DOMAIN conn = Created
  BY DEF Typed, Created
<1>2. Kept(conn)
  BY <1>1 DEF Kept
<1>3. ClosedAsWell(conn, NoConn)
  BY ConnIs DEF ClosedAsWell
<1> QED
  BY <1>2, <1>3

(* The event loop closes the connection in its map. *)
LEMMA ClosedIs ==
    ASSUME Typed, NEW n \in Nodes
    PROVE  Kept(Closed(n)) /\ ClosedAsWell(Closed(n), peer[n])
<1>1. peer[n] \in Created \cup {NoConn}
  BY DEF Typed
<1>2. CASE peer[n] = NoConn
  BY <1>2, KeptSame DEF Closed
<1>3. CASE peer[n] # NoConn
  <2> DEFINE c == peer[n]
             e == [conn[c] EXCEPT !.state = "closed"]
  <2>1. c \in Created /\ conn[c] \in Connection
    BY <1>1, <1>3, ConnIs
  <2>2. e \in Connection /\ e.owner = conn[c].owner /\ e.remote = conn[c].remote
        /\ e.state = "closed"
    BY <2>1 DEF Connection
  <2>3. Closed(n) = [conn EXCEPT ![c] = e]
    BY <1>3 DEF Closed
  <2>4. \A d \in Created : Closed(n)[d] = IF d = c THEN e ELSE conn[d]
    BY <2>1, <2>3 DEF Created, Typed
  <2> HIDE DEF c, e
  <2>5. Kept(Closed(n))
    BY <2>1, <2>2, <2>3, SetIs
  <2>6. ClosedAsWell(Closed(n), c)
    BY <2>2, <2>4 DEF ClosedAsWell
  <2> QED
    BY <2>5, <2>6 DEF c
<1> QED
  BY <1>2, <1>3

LEMMA AnswerSets ==
    ASSUME Typed, NEW n \in Nodes, HandleAnswer(n)
    PROVE  Kept(conn') /\ ClosedAsWell(conn', NoConn)
<1> DEFINE p == peer[n]
           r == Head(events[n]).from
           e == [conn[p] EXCEPT !.state = "ready", !.remote = r]
<1>1. p \in Created \cup {NoConn}
  BY DEF Typed
<1>2. CASE conn' = conn
  BY <1>2, KeptSame
<1>3. CASE p # NoConn /\ conn[p].state = "new" /\ conn' = [conn EXCEPT ![p] = e]
  <2>1. p \in Created /\ conn[p] \in Connection
    BY <1>1, <1>3, ConnIs
  <2>2. r \in Conns /\ r # NoConn
    <3>1. events[n] \in Seq(Reports) /\ events[n] # <<>> /\ Head(events[n]).cmd = "ANSWER"
      BY DEF HandleAnswer, Handles, Typed
    <3>2. Head(events[n]) \in Reports
      BY <3>1, Shorter
    <3> QED
      BY <3>1, <3>2, LineTypes, ConnIs
  <2>3. e \in Connection /\ e.owner = conn[p].owner /\ e.remote # NoConn /\ e.state = "ready"
    BY <2>1, <2>2 DEF Connection
  <2>4. \A d \in Created : conn'[d] = IF d = p THEN e ELSE conn[d]
    BY <1>3, <2>1 DEF Created, Typed
  <2> HIDE DEF p, e
  <2>5. Kept(conn')
    BY <1>3, <2>1, <2>3, SetIs
  <2>6. ClosedAsWell(conn', NoConn)
    BY <1>3, <2>3, <2>4, ConnIs DEF ClosedAsWell
  <2> QED
    BY <2>5, <2>6
<1> QED
  BY <1>2, <1>3 DEF HandleAnswer

(* A connection whose flags or state change, and that is not closed by it.  *)
LEMMA Alters ==
    ASSUME Typed, NEW c \in Created, NEW e \in Connection, conn' = [conn EXCEPT ![c] = e],
           e.owner = conn[c].owner, e.remote = conn[c].remote,
           e.state = "closed" <=> conn[c].state = "closed"
    PROVE  Kept(conn') /\ ClosedAsWell(conn', NoConn)
<1>1. Kept(conn')
  BY SetIs
<1>2. \A d \in Created : conn'[d] = IF d = c THEN e ELSE conn[d]
  BY DEF Created, Typed
<1>3. ClosedAsWell(conn', NoConn)
  BY <1>2, ConnIs DEF ClosedAsWell
<1> QED
  BY <1>1, <1>3

LEMMA CandidateSets ==
    ASSUME Typed, NEW n \in Nodes, HandleCandidate(n)
    PROVE  Kept(conn') /\ ClosedAsWell(conn', NoConn)
<1> DEFINE p == peer[n]
           r == Head(events[n]).from
<1>1. p \in Created \cup {NoConn}
  BY DEF Typed
<1>2. CASE p # NoConn /\ conn' = [conn EXCEPT ![p].got = TRUE]
  <2> DEFINE e == [conn[p] EXCEPT !.got = TRUE]
  <2>1. p \in Created /\ conn[p] \in Connection
    BY <1>1, <1>2, ConnIs
  <2>2. e \in Connection /\ e.owner = conn[p].owner /\ e.remote = conn[p].remote
        /\ e.state = conn[p].state /\ conn' = [conn EXCEPT ![p] = e]
    BY <1>2, <2>1 DEF Connection
  <2> HIDE DEF p, e
  <2> QED
    BY <2>1, <2>2, Alters
<1>3. CASE r \in Created /\ conn' = [conn EXCEPT ![r].strayed = TRUE]
  <2> DEFINE e == [conn[r] EXCEPT !.strayed = TRUE]
  <2>1. conn[r] \in Connection
    BY <1>3, ConnIs
  <2>2. e \in Connection /\ e.owner = conn[r].owner /\ e.remote = conn[r].remote
        /\ e.state = conn[r].state /\ conn' = [conn EXCEPT ![r] = e]
    BY <1>3, <2>1 DEF Connection
  <2> HIDE DEF r, e
  <2> QED
    BY <1>3, <2>2, Alters
<1>4. CASE r \notin Created /\ conn' = [conn EXCEPT ![r].strayed = TRUE]
  <2>1. conn' = conn
    BY <1>4 DEF Created, Typed
  <2> QED
    BY <2>1, KeptSame
<1> QED
  BY <1>2, <1>3, <1>4 DEF HandleCandidate

LEMMA CallbackSets ==
    ASSUME Typed, NEW c \in Created, Gathers(c) \/ ConnUp(c) \/ ConnBreaks(c)
    PROVE  Kept(conn') /\ ClosedAsWell(conn', NoConn)
<1>1. conn[c] \in Connection
  BY ConnIs
<1>2. CASE Gathers(c)
  <2> DEFINE e == [conn[c] EXCEPT !.gathered = TRUE]
  <2>1. e \in Connection /\ e.owner = conn[c].owner /\ e.remote = conn[c].remote
        /\ e.state = conn[c].state /\ conn' = [conn EXCEPT ![c] = e]
    BY <1>1, <1>2 DEF Connection, Gathers
  <2> HIDE DEF e
  <2> QED
    BY <2>1, Alters
<1>3. CASE ConnUp(c) \/ ConnBreaks(c)
  <2>1. PICK s \in {"up", "down", "failed"} : conn' = [conn EXCEPT ![c].state = s]
    BY <1>3 DEF ConnUp, ConnBreaks
  <2> DEFINE e == [conn[c] EXCEPT !.state = s]
  <2>2. e \in Connection /\ e.owner = conn[c].owner /\ e.remote = conn[c].remote
        /\ e.state = s /\ conn' = [conn EXCEPT ![c] = e] /\ s # "closed"
    BY <1>1, <2>1 DEF Connection
  <2>3. conn[c].state # "closed"
    BY <1>3 DEF ConnUp, ConnBreaks
  <2> HIDE DEF e
  <2> QED
    BY <2>2, <2>3, Alters
<1> QED
  BY <1>2, <1>3

LEMMA CreatesConn ==
    ASSUME Typed, NEW n \in Nodes, NEW step \in {"offer", "answer"},
           NEW r \in Conns \cup {NoConn}, Creates(n, step, r), mishaps' = mishaps
    PROVE  /\ conn' = Append(conn, Fresh(n, r))
           /\ conn' \in Seq(Connection) /\ Len(conn') <= MaxConns
           /\ Created' = Created \cup {Len(conn) + 1} /\ Len(conn) + 1 \notin Created
           /\ Len(conn) + 1 \in Conns
           /\ \A c \in Created : conn'[c] = conn[c]
           /\ conn'[Len(conn) + 1] = Fresh(n, r)
           /\ loop' = [loop EXCEPT ![n] = [at |-> step, conn |-> Len(conn) + 1]]
<1>1. mishaps \in Nat
  BY DEF Typed
<1>2. /\ Len(conn) < MaxConns /\ conn' = Append(conn, Fresh(n, r))
      /\ loop' = [loop EXCEPT ![n] = [at |-> step, conn |-> Len(conn) + 1]]
  BY <1>1 DEF Creates, Mishap
<1>3. conn \in Seq(Connection) /\ Fresh(n, r) \in Connection
  BY FreshIs DEF Typed
<1> QED
  BY <1>2, <1>3, GrownIs DEF Created

-----------------------------------------------------------------------------
(* Types, and who keeps which connection. *)

LEMMA BackedKept ==
    ASSUME Typed, Backed, Kept(conn'),
           \A m \in Nodes : peer'[m] \in {peer[m], NoConn},
           \A m \in Nodes : Placing(m)' => loop'[m] = loop[m],
           redials'[Caller] + redials'[Callee] <= mishaps'
    PROVE  Backed'
<1>1. ASSUME NEW n \in Nodes, peer'[n] # NoConn
      PROVE  conn'[peer'[n]].owner = n
  <2>1. peer'[n] = peer[n] /\ peer[n] \in Created /\ conn[peer[n]].owner = n
    BY <1>1 DEF Typed, Backed
  <2> QED
    BY <2>1 DEF Kept
<1>2. ASSUME NEW n \in Nodes, Placing(n)'
      PROVE  /\ loop'[n].conn \in Created' /\ conn'[loop'[n].conn].owner = n
             /\ loop'[n].at = "answer" => conn'[loop'[n].conn].remote # NoConn
  <2>1. loop'[n] = loop[n] /\ Placing(n)
    BY <1>2 DEF Placing
  <2>2. /\ loop[n].conn \in Created /\ conn[loop[n].conn].owner = n
        /\ loop[n].at = "answer" => conn[loop[n].conn].remote # NoConn
    BY <2>1 DEF Backed
  <2> QED
    BY <2>1, <2>2 DEF Kept, Created
<1> QED
  BY <1>1, <1>2 DEF Backed

LEMMA BackedGrown ==
    ASSUME Typed, Backed, NEW n \in Nodes, NEW step \in {"offer", "answer"},
           NEW r \in Conns \cup {NoConn}, Creates(n, step, r), mishaps' = mishaps,
           step = "answer" => r # NoConn, UNCHANGED <<peer, redials>>
    PROVE  Backed'
<1>1. ASSUME NEW m \in Nodes, peer'[m] # NoConn
      PROVE  conn'[peer'[m]].owner = m
  <2>1. peer'[m] = peer[m] /\ peer[m] \in Created /\ conn[peer[m]].owner = m
    BY <1>1 DEF Typed, Backed
  <2>2. \A c \in Created : conn'[c] = conn[c]
    BY CreatesConn
  <2> QED
    BY <2>1, <2>2
<1>2. ASSUME NEW m \in Nodes, Placing(m)'
      PROVE  /\ loop'[m].conn \in Created' /\ conn'[loop'[m].conn].owner = m
             /\ loop'[m].at = "answer" => conn'[loop'[m].conn].remote # NoConn
  <2>1. CASE m = n
    <3>1. loop'[n] = [at |-> step, conn |-> Len(conn) + 1]
      BY CreatesConn DEF Typed
    <3> QED
      BY <2>1, <3>1, CreatesConn, FreshIs
  <2>2. CASE m # n
    <3>1. loop'[m] = loop[m] /\ Placing(m)
      BY <1>2, <2>2, CreatesConn DEF Placing, Typed
    <3>2. /\ loop[m].conn \in Created /\ conn[loop[m].conn].owner = m
          /\ loop[m].at = "answer" => conn[loop[m].conn].remote # NoConn
      BY <3>1 DEF Backed
    <3> QED
      BY <3>1, <3>2, CreatesConn
  <2> QED
    BY <2>1, <2>2
<1> QED
  BY <1>1, <1>2 DEF Backed

LEMMA StepTypes ==
    /\ Idle \in Steps /\ Idle.at = "idle"
    /\ [at |-> "backoff"] \in Steps /\ [at |-> "backoff"].at = "backoff"
    /\ \A s \in {"offer", "answer"}, c \in Conns : [at |-> s, conn |-> c] \in Steps
    /\ \A t \in Steps : t.at \in {"offer", "answer"} => t.conn \in Conns
    /\ \A t \in Steps : t.at \in {"idle", "backoff", "offer", "answer"} /\ (t.at = "idle" => t = Idle)
  BY DEF Steps, Idle

(* The queues, one at a time. *)
LEMMA Sending ==
    ASSUME Typed, NEW n \in Nodes, NEW m \in Lines, Sends(n, <<m>>)
    PROVE  wire' = [wire EXCEPT ![n] = Append(wire[n], m)] /\ wire' \in [Nodes -> Seq(Lines)]
<1>1. wire[n] \o <<m>> = Append(wire[n], m) /\ Append(wire[n], m) \in Seq(Lines)
  BY OneMore, Longer DEF Typed
<1> QED
  BY <1>1 DEF Sends, Typed

LEMMA Relaying ==
    ASSUME Typed, NEW n \in Nodes, wire[n] # <<>>
    PROVE  /\ Tail(wire[n]) \in Seq(Lines) /\ Head(wire[n]) \in Lines
           /\ [wire EXCEPT ![n] = Tail(@)] \in [Nodes -> Seq(Lines)]
<1>1. Tail(wire[n]) \in Seq(Lines) /\ Head(wire[n]) \in Lines
  BY Shorter DEF Typed
<1> QED
  BY <1>1 DEF Typed

LEMMA Reporting ==
    ASSUME Typed, NEW n \in Nodes, NEW e \in Reports
    PROVE  [events EXCEPT ![n] = Append(@, e)] \in [Nodes -> Seq(Reports)]
<1>1. Append(events[n], e) \in Seq(Reports)
  BY Longer DEF Typed
<1> QED
  BY <1>1 DEF Typed

LEMMA Handling ==
    ASSUME Typed, NEW n \in Nodes, events[n] # <<>>
    PROVE  /\ Tail(events[n]) \in Seq(Reports) /\ Head(events[n]) \in Reports
           /\ [events EXCEPT ![n] = Tail(@)] \in [Nodes -> Seq(Reports)]
<1>1. Tail(events[n]) \in Seq(Reports) /\ Head(events[n]) \in Reports
  BY Shorter DEF Typed
<1> QED
  BY <1>1 DEF Typed

LEMMA InitKeeps == Init => Typed /\ Backed
<1> SUFFICES ASSUME Init PROVE Typed /\ Backed
  OBVIOUS
<1>1. MaxConns \in Nat /\ MaxMishaps \in Nat
  BY BoundAssumption
<1>2. Typed
  <2>1. \A S : <<>> \in Seq(S) /\ Len(<<>>) = 0
    OBVIOUS
  <2>2. wire \in [Nodes -> Seq(Lines)] /\ events \in [Nodes -> Seq(Reports)]
    BY <2>1 DEF Init
  <2>3. conn \in Seq(Connection) /\ Len(conn) <= MaxConns
    BY <1>1, <2>1 DEF Init
  <2>4. loop \in [Nodes -> Steps] /\ redials \in [Nodes -> Nat] /\ mishaps \in 0..MaxMishaps
    BY <1>1, StepTypes DEF Init
  <2> QED
    BY <2>2, <2>3, <2>4 DEF Init, Typed
<1>3. Backed
  BY Pair, StepTypes DEF Init, Backed, Placing
<1> QED
  BY <1>2, <1>3

(* The server and the readers. *)
LEMMA RelayKeeps ==
    ASSUME Typed, Backed, NEW n \in Nodes, Relay(n) \/ Announce(n)
    PROVE  Typed' /\ Backed'
<1> DEFINE o == Other(n)
<1>1. o \in Nodes /\ o # n
  BY Pair
<1>2. CASE RelayJoin(n)
  <2> DEFINE rest == [wire EXCEPT ![n] = Tail(@)]
  <2>1. rest \in [Nodes -> Seq(Lines)]
    BY <1>2, Relaying DEF RelayJoin, Reads
  <2>2. Append(rest[o], Line("HELLO")) \in Seq(Lines)
    BY <1>1, <2>1, LineTypes, Longer
  <2>3. [rest EXCEPT ![o] = Append(@, Line("HELLO"))] \in [Nodes -> Seq(Lines)]
    BY <2>1, <2>2
  <2>4. wire' \in [Nodes -> Seq(Lines)]
    BY <1>2, <2>1, <2>3 DEF RelayJoin
  <2>5. events' \in [Nodes -> Seq(Reports)]
    <3>1. \A m \in Nodes : Append(events[m], Line("JOINED")) \in Seq(Reports)
      BY LineTypes, Longer DEF Typed
    <3>2. [m \in Nodes |-> Append(events[m], Line("JOINED"))] \in [Nodes -> Seq(Reports)]
      BY <3>1
    <3>3. \/ events' = events
          \/ events' = [m \in Nodes |-> Append(events[m], Line("JOINED"))]
      BY <1>2 DEF RelayJoin
    <3> QED
      BY <3>2, <3>3 DEF Typed
  <2>6. member' \in [Nodes -> BOOLEAN]
    BY <1>2 DEF RelayJoin, Typed
  <2>7. UNCHANGED <<inRoom, known, redials, loop, peer, listed, conn, mishaps, dropped, moved>>
    BY <1>2 DEF RelayJoin, bounds
  <2> QED
    BY <2>4, <2>5, <2>6, <2>7 DEF Typed, Backed, Placing, Created
<1>3. CASE RelayPart(n)
  <2>1. wire' \in [Nodes -> Seq(Lines)]
    BY <1>3, Relaying DEF RelayPart, Reads
  <2>2. events' \in [Nodes -> Seq(Reports)]
    <3>1. Told(o, "LEFT") \in [Nodes -> Seq(Reports)]
      BY <1>1, LineTypes, Reporting DEF Told
    <3> QED
      BY <1>3, <3>1 DEF RelayPart, Typed
  <2>3. member' \in [Nodes -> BOOLEAN] /\ known' \in [Nodes -> BOOLEAN]
        /\ listed' \in [Nodes -> BOOLEAN]
    BY <1>3 DEF RelayPart, Typed
  <2>4. UNCHANGED <<inRoom, redials, loop, peer, conn, mishaps, dropped, moved>>
    BY <1>3 DEF RelayPart, bounds
  <2> QED
    BY <2>1, <2>2, <2>3, <2>4 DEF Typed, Backed, Placing, Created
<1>4. CASE RelayHello(n)
  <2>1. wire' \in [Nodes -> Seq(Lines)]
    BY <1>4, Relaying DEF RelayHello, Reads
  <2>2. known' \in [Nodes -> BOOLEAN]
    BY <1>1, <1>4 DEF RelayHello, Typed
  <2>3. UNCHANGED <<inRoom, member, events, redials, loop, peer, listed, conn,
                    mishaps, dropped, moved>>
    BY <1>4 DEF RelayHello, rooms, tasks, bounds
  <2> QED
    BY <2>1, <2>2, <2>3 DEF Typed, Backed, Placing, Created
<1>5. CASE RelaySignal(n)
  <2>1. wire[n] # <<>> /\ Head(wire[n]).cmd \in {"OFFER", "ANSWER", "CANDIDATE"}
    BY <1>5 DEF RelaySignal, Reads
  <2>2. Head(wire[n]) \in Reports /\ wire' \in [Nodes -> Seq(Lines)]
    BY <1>5, <2>1, Relaying, LineTypes DEF RelaySignal
  <2>3. events' \in [Nodes -> Seq(Reports)]
    BY <1>1, <1>5, <2>2, Reporting DEF RelaySignal, Typed
  <2>4. dropped' \in BOOLEAN
    BY <1>5 DEF RelaySignal
  <2>5. UNCHANGED <<inRoom, member, known, redials, loop, peer, listed, conn, mishaps, moved>>
    BY <1>5 DEF RelaySignal, rooms
  <2> QED
    BY <2>2, <2>3, <2>4, <2>5 DEF Typed, Backed, Placing, Created
<1>6. CASE Announce(n)
  <2>1. wire' \in [Nodes -> Seq(Lines)]
    BY <1>6, LineTypes, Sending DEF Announce
  <2>2. UNCHANGED <<inRoom, member, known, events, redials, loop, peer, listed, conn,
                    mishaps, dropped, moved>>
    BY <1>6 DEF Announce, rooms, tasks, bounds
  <2> QED
    BY <2>1, <2>2 DEF Typed, Backed, Placing, Created
<1> QED
  BY <1>2, <1>3, <1>4, <1>5, <1>6 DEF Relay

(* The user moves. *)
LEMMA ForgetsKeeps ==
    ASSUME Typed, Backed, NEW n \in Nodes, loop[n] = Idle, Forgets(n)
    PROVE  /\ peer' \in [Nodes -> Created' \cup {NoConn}] /\ peer'[n] = NoConn
           /\ listed' \in [Nodes -> BOOLEAN] /\ known' \in [Nodes -> BOOLEAN]
           /\ conn' \in Seq(Connection) /\ Len(conn') = Len(conn)
           /\ Kept(conn') /\ ClosedAsWell(conn', peer[n])
           /\ \A m \in Nodes : peer'[m] \in {peer[m], NoConn}
<1>1. Kept(conn') /\ ClosedAsWell(conn', peer[n])
  BY ClosedIs DEF Forgets
<1>2. Created' = Created
  BY <1>1 DEF Kept, Created
<1>3. peer' \in [Nodes -> Created \cup {NoConn}]
  BY DEF Forgets, Typed
<1>4. listed' \in [Nodes -> BOOLEAN] /\ known' \in [Nodes -> BOOLEAN]
  BY DEF Forgets, Typed
<1>5. peer'[n] = NoConn /\ \A m \in Nodes : peer'[m] \in {peer[m], NoConn}
  BY DEF Forgets, Typed
<1> QED
  BY <1>1, <1>2, <1>3, <1>4, <1>5 DEF Kept

LEMMA UserKeeps ==
    ASSUME Typed, Backed, NEW n \in Nodes, Enter(n) \/ LeaveRoom(n)
    PROVE  Typed' /\ Backed'
<1>1. loop[n] = Idle /\ Forgets(n) /\ UNCHANGED <<member, events, redials, loop, dropped>>
  BY DEF Enter, LeaveRoom, tasks, bounds
<1>2. wire' \in [Nodes -> Seq(Lines)]
  BY LineTypes, Sending DEF Enter, LeaveRoom
<1>3. inRoom' \in [Nodes -> BOOLEAN] /\ moved' \subseteq Nodes
  BY DEF Enter, LeaveRoom, Typed, bounds
<1>4. mishaps' \in 0..MaxMishaps /\ mishaps <= mishaps'
  BY BoundAssumption DEF Enter, LeaveRoom, Mishap, Typed, bounds
<1>5. redials'[Caller] + redials'[Callee] <= mishaps'
  <2>1. /\ redials[Caller] \in Nat /\ redials[Callee] \in Nat
        /\ mishaps \in Nat /\ mishaps' \in Nat
    BY <1>4, Pair, BoundAssumption DEF Typed
  <2>2. redials[Caller] + redials[Callee] <= mishaps
    BY DEF Backed
  <2> QED
    BY <1>1, <1>4, <2>1, <2>2
<1>6. Backed'
  BY <1>1, <1>5, ForgetsKeeps, BackedKept DEF Placing
<1>7. Typed'
  BY <1>1, <1>2, <1>3, <1>4, ForgetsKeeps DEF Typed
<1> QED
  BY <1>6, <1>7

(* A connection is created, or cannot be. *)
LEMMA CreatesKeeps ==
    ASSUME Typed, Backed, NEW n \in Nodes, NEW step \in {"offer", "answer"},
           NEW r \in Conns \cup {NoConn}, Creates(n, step, r),
           step = "answer" => r # NoConn, UNCHANGED <<peer, redials>>
    PROVE  /\ conn' \in Seq(Connection) /\ Len(conn') <= MaxConns
           /\ loop' \in [Nodes -> Steps] /\ mishaps' \in 0..MaxMishaps
           /\ peer' \in [Nodes -> Created' \cup {NoConn}]
           /\ Backed'
<1>1. CASE mishaps' = mishaps
  <2>1. /\ conn' \in Seq(Connection) /\ Len(conn') <= MaxConns
        /\ Created' = Created \cup {Len(conn) + 1} /\ Len(conn) + 1 \in Conns
        /\ loop' = [loop EXCEPT ![n] = [at |-> step, conn |-> Len(conn) + 1]]
    BY <1>1, CreatesConn
  <2>2. [at |-> step, conn |-> Len(conn) + 1] \in Steps
    BY <2>1, StepTypes
  <2>3. loop' \in [Nodes -> Steps]
    BY <2>1, <2>2 DEF Typed
  <2>4. peer' \in [Nodes -> Created' \cup {NoConn}]
    BY <2>1 DEF Typed
  <2>5. Backed'
    BY <1>1, BackedGrown
  <2> QED
    BY <1>1, <2>1, <2>3, <2>4, <2>5 DEF Typed
<1>2. CASE mishaps' # mishaps
  <2>1. /\ mishaps < MaxMishaps /\ mishaps' = mishaps + 1
        /\ loop' = [loop EXCEPT ![n] = Idle] /\ conn' = conn
    BY <1>2 DEF Creates, Mishap
  <2>2. mishaps' \in 0..MaxMishaps /\ mishaps <= mishaps'
    BY <2>1, BoundAssumption DEF Typed
  <2>3. loop' \in [Nodes -> Steps] /\ \A m \in Nodes : Placing(m)' => loop'[m] = loop[m]
    BY <2>1, StepTypes DEF Typed, Placing
  <2>4. Kept(conn')
    BY <2>1, ConnIs DEF Kept, Typed
  <2>5. redials'[Caller] + redials'[Callee] <= mishaps'
    BY <2>2, Pair, BoundAssumption DEF Backed, Typed
  <2>6. Backed'
    BY <2>3, <2>4, <2>5, BackedKept
  <2> QED
    BY <2>1, <2>2, <2>3, <2>6 DEF Typed, Created
<1> QED
  BY <1>1, <1>2

LEMMA EventKeeps ==
    ASSUME Typed, Backed, NEW n \in Nodes, HandleEvent(n)
    PROVE  Typed' /\ Backed'
<1>1. /\ loop[n] = Idle /\ events[n] # <<>>
      /\ events' = [events EXCEPT ![n] = Tail(@)]
      /\ UNCHANGED <<inRoom, member, wire, redials, dropped, moved>>
  BY DEF HandleEvent, HandleJoined, HandleLeft, HandleOffer, HandleAnswer, HandleCandidate,
         Handles, Done, rooms, bounds
<1>2. events' \in [Nodes -> Seq(Reports)] /\ Head(events[n]) \in Reports
  BY <1>1, Handling
<1>3. CASE HandleJoined(n) /\ ~MayCall(n)
  <2>1. UNCHANGED <<known, loop, peer, conn, mishaps>> /\ listed' \in [Nodes -> BOOLEAN]
    BY <1>3 DEF HandleJoined, Typed
  <2> QED
    BY <1>1, <1>2, <2>1 DEF Typed, Backed, Placing, Created
<1>4. CASE HandleJoined(n) /\ MayCall(n)
  <2>1. /\ Creates(n, "offer", NoConn) /\ UNCHANGED <<peer, known, redials>>
        /\ listed' \in [Nodes -> BOOLEAN]
    BY <1>4 DEF HandleJoined, Typed
  <2>2. /\ conn' \in Seq(Connection) /\ Len(conn') <= MaxConns
        /\ loop' \in [Nodes -> Steps] /\ mishaps' \in 0..MaxMishaps
        /\ peer' \in [Nodes -> Created' \cup {NoConn}] /\ Backed'
    BY <2>1, CreatesKeeps
  <2> QED
    BY <1>1, <1>2, <2>1, <2>2 DEF Typed
<1>5. CASE HandleOffer(n)
  <2>1. /\ Creates(n, "answer", Head(events[n]).from) /\ UNCHANGED <<peer, known, redials>>
        /\ listed' \in [Nodes -> BOOLEAN] /\ Head(events[n]).cmd = "OFFER"
    BY <1>5 DEF HandleOffer, Handles, Typed
  <2>2. Head(events[n]).from \in Conns /\ Head(events[n]).from # NoConn
    BY <1>2, <2>1, LineTypes, ConnIs
  <2> DEFINE r == Head(events[n]).from
  <2> HIDE DEF r
  <2>3. /\ conn' \in Seq(Connection) /\ Len(conn') <= MaxConns
        /\ loop' \in [Nodes -> Steps] /\ mishaps' \in 0..MaxMishaps
        /\ peer' \in [Nodes -> Created' \cup {NoConn}] /\ Backed'
    BY <2>1, <2>2, CreatesKeeps
  <2> QED
    BY <1>1, <1>2, <2>1, <2>3 DEF Typed
<1>6. CASE HandleLeft(n)
  <2>1. Forgets(n) /\ UNCHANGED <<loop, mishaps>>
    BY <1>6 DEF HandleLeft, bounds
  <2>2. Backed'
    BY <1>1, <2>1, ForgetsKeeps, BackedKept DEF Backed
  <2> QED
    BY <1>1, <1>2, <2>1, <2>2, ForgetsKeeps DEF Typed
<1>7. CASE HandleAnswer(n) \/ HandleCandidate(n)
  <2>1. Kept(conn') /\ UNCHANGED <<known, loop, peer, listed, mishaps>>
    BY <1>7, AnswerSets, CandidateSets DEF HandleAnswer, HandleCandidate, bounds
  <2>2. Backed'
    BY <1>1, <2>1, BackedKept DEF Backed
  <2>3. conn' \in Seq(Connection) /\ Len(conn') <= MaxConns /\ Created' = Created
    BY <2>1 DEF Kept, Created, Typed
  <2> QED
    BY <1>1, <1>2, <2>1, <2>2, <2>3 DEF Typed
<1> QED
  BY <1>3, <1>4, <1>5, <1>6, <1>7 DEF HandleEvent

LEMMA PlacesIs ==
    ASSUME Typed, Backed, NEW n \in Nodes, Places(n)
    PROVE  /\ loop[n].conn \in Created /\ peer' = [peer EXCEPT ![n] = loop[n].conn]
           /\ loop' = [loop EXCEPT ![n] = Idle]
           /\ \E m \in Signals : /\ Sends(n, <<m>>)
                                 /\ loop[n].at = "offer" => m.cmd = "OFFER"
                                 /\ loop[n].at = "answer" => m.cmd = "ANSWER"
           /\ UNCHANGED <<inRoom, member, known, events, redials, listed, conn, mishaps,
                          dropped, moved>>
<1> DEFINE c == loop[n].conn
<1>1. /\ loop[n].at \in {"offer", "answer"} /\ peer' = [peer EXCEPT ![n] = c]
      /\ loop[n].at = "offer" => Sends(n, <<[cmd |-> "OFFER", from |-> c]>>)
      /\ loop[n].at = "answer" =>
            Sends(n, <<[cmd |-> "ANSWER", to |-> conn[c].remote, from |-> c]>>)
      /\ loop' = [loop EXCEPT ![n] = Idle]
      /\ UNCHANGED <<inRoom, member, known, events, redials, listed, conn, mishaps,
                     dropped, moved>>
  BY DEF Places, rooms, bounds
<1>2. c \in Created /\ (loop[n].at = "answer" => conn[c].remote # NoConn)
  BY <1>1 DEF Backed, Placing
<1>3. c \in Conns /\ (loop[n].at = "answer" => conn[c].remote \in Conns)
  BY <1>2, ConnIs
<1> HIDE DEF c
<1>4. CASE loop[n].at = "offer"
  <2>1. PICK m : m = [cmd |-> "OFFER", from |-> c]
    OBVIOUS
  <2>2. m \in Signals /\ m.cmd = "OFFER" /\ Sends(n, <<m>>)
    BY <1>1, <1>3, <1>4, <2>1, LineTypes
  <2> QED
    BY <1>1, <1>2, <1>4, <2>2 DEF c
<1>5. CASE loop[n].at = "answer"
  <2>1. PICK m : m = [cmd |-> "ANSWER", to |-> conn[c].remote, from |-> c]
    OBVIOUS
  <2>2. m \in Signals /\ m.cmd = "ANSWER" /\ Sends(n, <<m>>)
    BY <1>1, <1>3, <1>5, <2>1, LineTypes
  <2> QED
    BY <1>1, <1>2, <1>5, <2>2 DEF c
<1> QED
  BY <1>1, <1>4, <1>5

LEMMA LoopKeeps ==
    ASSUME Typed, Backed, NEW n \in Nodes, Places(n) \/ HandleReconnect(n) \/ EndBackoff(n)
    PROVE  Typed' /\ Backed'
<1>1. CASE Places(n)
  <2>1. /\ loop[n].conn \in Created /\ peer' = [peer EXCEPT ![n] = loop[n].conn]
        /\ loop' = [loop EXCEPT ![n] = Idle]
        /\ UNCHANGED <<inRoom, member, known, events, redials, listed, conn, mishaps,
                       dropped, moved>>
    BY <1>1, PlacesIs
  <2>2. wire' \in [Nodes -> Seq(Lines)]
    <3>1. PICK m \in Signals : Sends(n, <<m>>)
      BY <1>1, PlacesIs
    <3> QED
      BY <3>1, LineTypes, Sending
  <2>3. /\ peer' \in [Nodes -> Created \cup {NoConn}] /\ loop' \in [Nodes -> Steps]
        /\ Created' = Created
    BY <2>1, StepTypes DEF Typed, Created
  <2>4. Typed'
    BY <2>1, <2>2, <2>3 DEF Typed
  <2>5. conn[loop[n].conn].owner = n
    BY <1>1 DEF Places, Backed, Placing
  <2>6. \A m \in Nodes : peer'[m] # NoConn => conn[peer'[m]].owner = m
    BY <2>1, <2>5 DEF Typed, Backed
  <2>7. \A m \in Nodes : Placing(m)' => loop'[m] = loop[m] /\ Placing(m)
    BY <2>1, StepTypes DEF Placing, Typed
  <2>8. Backed'
    BY <2>1, <2>3, <2>6, <2>7 DEF Backed
  <2> QED
    BY <2>4, <2>8
<1>2. CASE HandleReconnect(n)
  <2>1. /\ redials[n] > 0 /\ redials' = [redials EXCEPT ![n] = @ - 1]
        /\ peer' = [peer EXCEPT ![n] = NoConn]
        /\ loop' = [loop EXCEPT ![n] = IF listed[n] THEN [at |-> "backoff"] ELSE Idle]
        /\ UNCHANGED <<inRoom, member, wire, known, events, listed, conn, mishaps, dropped, moved>>
    BY <1>2 DEF HandleReconnect, rooms, bounds
  <2>2. redials' \in [Nodes -> Nat] /\ redials'[Caller] + redials'[Callee] <= mishaps'
    <3>1. /\ redials \in [Nodes -> Nat] /\ mishaps \in Nat
          /\ redials[Caller] \in Nat /\ redials[Callee] \in Nat
          /\ redials[Caller] + redials[Callee] <= mishaps
      BY Pair, BoundAssumption DEF Typed, Backed
    <3>2. redials' \in [Nodes -> Nat]
      BY <2>1, <3>1
    <3>3. redials'[Caller] <= redials[Caller] /\ redials'[Callee] <= redials[Callee]
      BY <2>1, <3>1, Pair
    <3>4. redials'[Caller] \in Nat /\ redials'[Callee] \in Nat /\ mishaps' = mishaps
      BY <2>1, <3>2, Pair
    <3> QED
      BY <3>1, <3>2, <3>3, <3>4
  <2>3. /\ peer' \in [Nodes -> Created \cup {NoConn}] /\ loop' \in [Nodes -> Steps]
        /\ Created' = Created
    BY <2>1, StepTypes DEF Typed, Created
  <2>4. Typed'
    BY <2>1, <2>2, <2>3 DEF Typed
  <2>5. \A m \in Nodes : Placing(m)' => loop'[m] = loop[m]
    BY <2>1, StepTypes DEF Placing, Typed
  <2>6. \A m \in Nodes : peer'[m] \in {peer[m], NoConn}
    BY <2>1 DEF Typed
  <2>7. Kept(conn')
    BY <2>1, ConnIs DEF Kept, Typed
  <2>8. Backed'
    BY <2>2, <2>5, <2>6, <2>7, BackedKept
  <2> QED
    BY <2>4, <2>8
<1>3. CASE EndBackoff(n)
  <2>1. UNCHANGED <<inRoom, member, wire, known, events, redials, peer, dropped, moved>>
        /\ listed' \in [Nodes -> BOOLEAN]
    BY <1>3 DEF EndBackoff, Typed, rooms
  <2>2. CASE MayCall(n)
    <3>1. Creates(n, "offer", NoConn)
      BY <1>3, <2>2 DEF EndBackoff
    <3>2. /\ conn' \in Seq(Connection) /\ Len(conn') <= MaxConns
          /\ loop' \in [Nodes -> Steps] /\ mishaps' \in 0..MaxMishaps
          /\ peer' \in [Nodes -> Created' \cup {NoConn}] /\ Backed'
      BY <2>1, <3>1, CreatesKeeps
    <3> QED
      BY <2>1, <3>2 DEF Typed
  <2>3. CASE ~MayCall(n)
    <3>1. loop' = [loop EXCEPT ![n] = Idle] /\ UNCHANGED <<listed, conn, mishaps>>
      BY <1>3, <2>3 DEF EndBackoff
    <3>2. /\ loop' \in [Nodes -> Steps]
          /\ \A m \in Nodes : Placing(m)' => loop'[m] = loop[m] /\ Placing(m)
      BY <3>1, StepTypes DEF Placing, Typed
    <3> QED
      BY <2>1, <3>1, <3>2 DEF Typed, Backed, Created
  <2> QED
    BY <2>2, <2>3
<1> QED
  BY <1>1, <1>2, <1>3

LEMMA CallbackKeeps ==
    ASSUME Typed, Backed, NEW c \in Created, Gathers(c) \/ ConnUp(c) \/ ConnBreaks(c)
    PROVE  Typed' /\ Backed'
<1>1. Kept(conn')
  BY CallbackSets
<1>2. conn' \in Seq(Connection) /\ Len(conn') <= MaxConns /\ Created' = Created
  BY <1>1 DEF Kept, Created, Typed
<1>3. conn[c].owner \in Nodes /\ c \in Conns
  BY ConnIs
<1>4. /\ wire' \in [Nodes -> Seq(Lines)] /\ listed' \in [Nodes -> BOOLEAN]
      /\ UNCHANGED <<inRoom, member, known, events, loop, peer, dropped, moved>>
  <2>1. CASE Gathers(c)
    <3>1. PICK m : m = [cmd |-> "CANDIDATE", from |-> c]
      OBVIOUS
    <3>2. m \in Lines /\ Sends(conn[c].owner, <<m>>)
      BY <1>3, <2>1, <3>1, LineTypes DEF Gathers
    <3>3. wire' \in [Nodes -> Seq(Lines)]
      BY <1>3, <3>2, Sending
    <3> QED
      BY <2>1, <3>3 DEF Gathers, rooms, tasks, bounds, Typed
  <2>2. CASE ConnUp(c) \/ ConnBreaks(c)
    BY <2>2 DEF ConnUp, ConnBreaks, rooms, tasks, bounds, Typed
  <2> QED
    BY <2>1, <2>2
<1>5. /\ redials' \in [Nodes -> Nat] /\ mishaps' \in 0..MaxMishaps
      /\ redials'[Caller] + redials'[Callee] <= mishaps'
  <2>1. CASE Gathers(c) \/ ConnUp(c)
    BY <2>1 DEF Gathers, ConnUp, tasks, bounds, Typed, Backed
  <2>2. CASE ConnBreaks(c)
    <3>1. /\ mishaps < MaxMishaps /\ mishaps' = mishaps + 1
          /\ redials' = [redials EXCEPT ![conn[c].owner] = @ + 1]
      BY <2>2 DEF ConnBreaks, Mishap
    <3>2. PICK o : o = conn[c].owner
      OBVIOUS
    <3>3. o \in Nodes /\ redials' = [redials EXCEPT ![o] = @ + 1] /\ redials \in [Nodes -> Nat]
      BY <1>3, <3>1, <3>2 DEF Typed
    <3>4. redials' \in [Nodes -> Nat]
      BY <3>3
    <3>5. redials'[Caller] + redials'[Callee] = redials[Caller] + redials[Callee] + 1
      BY <3>3, Pair
    <3>6. mishaps' \in 0..MaxMishaps /\ mishaps \in Nat
      BY <3>1, BoundAssumption DEF Typed
    <3> QED
      BY <3>1, <3>3, <3>4, <3>5, <3>6, Pair DEF Backed
  <2> QED
    BY <2>1, <2>2
<1>6. Backed'
  BY <1>1, <1>4, <1>5, BackedKept
<1> QED
  BY <1>2, <1>4, <1>5, <1>6 DEF Typed

-----------------------------------------------------------------------------
(* Where the clients are. *)

Stays(q, b, a, m) == Ends(q, b, a) /\ (m => None(q, "PART"))

LEMMA PresentIs ==
    Present <=> \A n \in Nodes : Stays(wire[n], member[n], inRoom[n], n \notin moved)
  BY DEF Present, Stays

LEMMA PresentUnchanged ==
    ASSUME Present, UNCHANGED <<wire, inRoom, member, moved>>
    PROVE  Present'
  BY DEF Present

(* The queue of n becomes q, that of the other r or r with another line.    *)
LEMMA PresentAt ==
    ASSUME Present, NEW n \in Nodes,
           \A m \in Nodes \ {n} : /\ wire'[m] = wire[m] /\ member'[m] = member[m]
                                  /\ inRoom'[m] = inRoom[m],
           moved \subseteq moved',
           Stays(wire'[n], member'[n], inRoom'[n], n \notin moved')
    PROVE  Present'
<1>1. ASSUME NEW m \in Nodes
      PROVE  Stays(wire'[m], member'[m], inRoom'[m], m \notin moved')
  <2>1. CASE m = n
    BY <2>1
  <2>2. CASE m # n
    <3>1. Stays(wire[m], member[m], inRoom[m], m \notin moved)
      BY PresentIs
    <3>2. /\ wire'[m] = wire[m] /\ member'[m] = member[m] /\ inRoom'[m] = inRoom[m]
          /\ m \notin moved' => m \notin moved
      BY <2>2
    <3> QED
      BY <3>1, <3>2 DEF Stays
  <2> QED
    BY <2>1, <2>2
<1> QED
  BY <1>1 DEF Present, Stays

LEMMA PresentSends ==
    ASSUME Typed, Present, NEW n \in Nodes, NEW m \in Lines, Sends(n, <<m>>),
           m.cmd \notin {"JOIN", "PART"}, UNCHANGED <<inRoom, member, moved>>
    PROVE  Present'
<1>1. /\ wire'[n] = Append(wire[n], m) /\ wire[n] \in Seq(Lines)
      /\ \A k \in Nodes \ {n} : wire'[k] = wire[k]
      /\ inRoom[n] \in BOOLEAN /\ member[n] \in BOOLEAN
  BY Sending DEF Typed
<1>2. Stays(wire[n], member[n], inRoom[n], n \notin moved)
  BY PresentIs
<1>3. Stays(Append(wire[n], m), member[n], inRoom[n], n \notin moved)
  <2>1. Ends(Append(wire[n], m), member[n], inRoom[n])
    BY <1>1, <1>2, SendsMove DEF Stays
  <2>2. None(wire[n], "PART") => None(Append(wire[n], m), "PART")
    BY <1>1, Longer
  <2> QED
    BY <1>2, <2>1, <2>2 DEF Stays
<1> QED
  BY <1>1, <1>3, PresentAt

LEMMA PresentRelays ==
    ASSUME Typed, Present, NEW n \in Nodes, wire[n] # <<>>,
           wire' = [wire EXCEPT ![n] = Tail(@)],
           \A k \in Nodes \ {n} : member'[k] = member[k], member'[n] \in BOOLEAN,
           Head(wire[n]).cmd \notin {"JOIN", "PART"} => member'[n] = member[n],
           Head(wire[n]).cmd = "JOIN" => member'[n] = TRUE,
           Head(wire[n]).cmd = "PART" => member'[n] = FALSE, UNCHANGED <<inRoom, moved>>
    PROVE  Present'
<1>1. /\ wire'[n] = Tail(wire[n]) /\ wire[n] \in Seq(Lines)
      /\ \A k \in Nodes \ {n} : wire'[k] = wire[k]
      /\ inRoom[n] \in BOOLEAN /\ member[n] \in BOOLEAN
  BY DEF Typed
<1>2. Stays(wire[n], member[n], inRoom[n], n \notin moved)
  BY PresentIs
<1>3. Stays(Tail(wire[n]), member'[n], inRoom[n], n \notin moved)
  <2>1. Ends(Tail(wire[n]), member'[n], inRoom[n])
    <3>1. PICK r \in BOOLEAN : r = member'[n]
      OBVIOUS
    <3>2. Ends(Tail(wire[n]), r, inRoom[n])
      BY <1>1, <1>2, <3>1, RelaysMove DEF Stays
    <3> QED
      BY <3>1, <3>2
  <2>2. None(wire[n], "PART") => None(Tail(wire[n]), "PART")
    BY <1>1, Shorter
  <2> QED
    BY <1>2, <2>1, <2>2 DEF Stays
<1> QED
  BY <1>1, <1>3, PresentAt

LEMMA PresentKept ==
    ASSUME Typed, Backed, Present, Next
    PROVE  Present'
<1>1. ASSUME NEW n \in Nodes, RelayJoin(n)
      PROVE  Present'
  <2> DEFINE o == Other(n)
             s == [wire EXCEPT ![n] = Tail(@)]
             hello == Line("HELLO")
  <2>1. /\ wire[n] # <<>> /\ Head(wire[n]).cmd = "JOIN"
        /\ member' = [member EXCEPT ![n] = TRUE] /\ UNCHANGED <<inRoom, moved>>
        /\ wire' = s \/ wire' = [s EXCEPT ![o] = Append(@, hello)]
    BY <1>1 DEF RelayJoin, Reads, bounds
  <2>2. /\ member'[n] = TRUE /\ \A k \in Nodes \ {n} : member'[k] = member[k]
        /\ o \in Nodes /\ o # n /\ Nodes = {n, o}
    BY <2>1, Pair DEF Typed
  <2>3. /\ wire'[n] = Tail(wire[n]) /\ wire[n] \in Seq(Lines) /\ wire[o] \in Seq(Lines)
        /\ wire'[o] = wire[o] \/ wire'[o] = Append(wire[o], hello)
        /\ hello \in Lines /\ hello.cmd = "HELLO"
    BY <2>1, <2>2, LineTypes DEF Typed
  <2>4. /\ inRoom[n] \in BOOLEAN /\ member[n] \in BOOLEAN
        /\ inRoom[o] \in BOOLEAN /\ member[o] \in BOOLEAN
    BY <2>2 DEF Typed
  <2> HIDE DEF o, hello
  <2>5. Stays(wire'[n], TRUE, inRoom[n], n \notin moved)
    <3>1. Stays(wire[n], member[n], inRoom[n], n \notin moved)
      BY PresentIs
    <3>2. Ends(Tail(wire[n]), TRUE, inRoom[n])
      BY <2>1, <2>3, <2>4, <3>1, RelaysMove DEF Stays
    <3>3. None(wire[n], "PART") => None(Tail(wire[n]), "PART")
      BY <2>1, <2>3, Shorter
    <3> QED
      BY <2>3, <3>1, <3>2, <3>3 DEF Stays
  <2>6. Stays(wire'[o], member[o], inRoom[o], o \notin moved)
    <3>1. Stays(wire[o], member[o], inRoom[o], o \notin moved)
      BY <2>2, PresentIs
    <3>2. Ends(Append(wire[o], hello), member[o], inRoom[o])
      BY <2>3, <2>4, <3>1, SendsMove DEF Stays
    <3>3. None(wire[o], "PART") => None(Append(wire[o], hello), "PART")
      BY <2>3, Longer
    <3> QED
      BY <2>3, <3>1, <3>2, <3>3 DEF Stays
  <2> QED
    BY <2>1, <2>2, <2>5, <2>6, PresentIs DEF Present, Stays
<1>2. ASSUME NEW n \in Nodes, RelayPart(n) \/ RelayHello(n) \/ RelaySignal(n)
      PROVE  Present'
  <2>1. /\ wire[n] # <<>> /\ wire' = [wire EXCEPT ![n] = Tail(@)] /\ UNCHANGED <<inRoom, moved>>
        /\ Head(wire[n]).cmd \in {"PART", "HELLO", "OFFER", "ANSWER", "CANDIDATE"}
    BY <1>2 DEF RelayPart, RelayHello, RelaySignal, Reads, rooms, bounds
  <2>2. /\ \A k \in Nodes \ {n} : member'[k] = member[k]
        /\ Head(wire[n]).cmd # "PART" => member'[n] = member[n]
        /\ Head(wire[n]).cmd = "PART" => member'[n] = FALSE
        /\ member'[n] \in BOOLEAN
    BY <1>2 DEF RelayPart, RelayHello, RelaySignal, Reads, rooms, Typed
  <2> QED
    BY <2>1, <2>2, PresentRelays
<1>3. ASSUME NEW n \in Nodes, Announce(n)
      PROVE  Present'
  BY <1>3, LineTypes, PresentSends DEF Announce, rooms, bounds
<1>4. ASSUME NEW n \in Nodes, Enter(n) \/ LeaveRoom(n)
      PROVE  Present'
  <2>1. PICK c \in {"JOIN", "PART"} :
           /\ Sends(n, <<Line(c)>>) /\ inRoom' = [inRoom EXCEPT ![n] = (c = "JOIN")]
           /\ member' = member /\ moved' = IF c = "JOIN" THEN moved ELSE moved \cup {n}
    BY <1>4 DEF Enter, LeaveRoom, bounds
  <2>2. PICK m : m = Line(c)
    OBVIOUS
  <2>3. m \in Lines /\ m.cmd = c
    BY <2>2, LineTypes
  <2>4. /\ wire'[n] = Append(wire[n], m) /\ wire[n] \in Seq(Lines)
        /\ \A k \in Nodes \ {n} : wire'[k] = wire[k]
    BY <2>1, <2>2, <2>3, Sending DEF Typed
  <2>5. /\ inRoom'[n] = (c = "JOIN") /\ inRoom[n] \in BOOLEAN /\ member[n] \in BOOLEAN
        /\ \A k \in Nodes \ {n} : inRoom'[k] = inRoom[k]
    BY <2>1 DEF Typed
  <2>6. Stays(wire[n], member[n], inRoom[n], n \notin moved)
    BY PresentIs
  <2>7. Ends(Append(wire[n], m), member[n], c = "JOIN")
    BY <2>3, <2>4, <2>5, <2>6, SendsMove DEF Stays
  <2>8. n \notin moved' => None(Append(wire[n], m), "PART")
    BY <2>1, <2>3, <2>4, <2>6, Longer DEF Stays
  <2>9. Stays(wire'[n], member'[n], inRoom'[n], n \notin moved')
    BY <2>1, <2>4, <2>5, <2>7, <2>8 DEF Stays
  <2> QED
    BY <2>1, <2>4, <2>5, <2>9, PresentAt
<1>5. ASSUME NEW n \in Nodes, HandleEvent(n) \/ HandleReconnect(n) \/ EndBackoff(n)
      PROVE  Present'
  <2>1. UNCHANGED <<wire, inRoom, member, moved>>
    BY <1>5 DEF HandleEvent, HandleJoined, HandleLeft, HandleOffer, HandleAnswer,
                HandleCandidate, HandleReconnect, EndBackoff, rooms, bounds
  <2> QED
    BY <2>1, PresentUnchanged
<1>6. ASSUME NEW n \in Nodes, Places(n)
      PROVE  Present'
  <2>1. UNCHANGED <<inRoom, member, moved>>
    BY <1>6, PlacesIs
  <2>2. PICK m \in Signals : Sends(n, <<m>>)
    BY <1>6, PlacesIs
  <2>3. m \in Lines /\ m.cmd \notin {"JOIN", "PART"}
    BY LineTypes
  <2> QED
    BY <2>1, <2>2, <2>3, PresentSends
<1>7. ASSUME NEW c \in Created, Gathers(c)
      PROVE  Present'
  <2>1. PICK m : m = [cmd |-> "CANDIDATE", from |-> c]
    OBVIOUS
  <2>2. m \in Lines /\ m.cmd = "CANDIDATE" /\ Sends(conn[c].owner, <<m>>)
        /\ conn[c].owner \in Nodes /\ UNCHANGED <<inRoom, member, moved>>
    BY <1>7, <2>1, LineTypes, ConnIs DEF Gathers, rooms, bounds
  <2> QED
    BY <2>2, PresentSends
<1>8. ASSUME NEW c \in Created, ConnUp(c) \/ ConnBreaks(c)
      PROVE  Present'
  <2>1. UNCHANGED <<wire, inRoom, member, moved>>
    BY <1>8 DEF ConnUp, ConnBreaks, rooms, bounds
  <2> QED
    BY <2>1, PresentUnchanged
<1> QED
  BY <1>1, <1>2, <1>3, <1>4, <1>5, <1>6, <1>7, <1>8 DEF Next, Relay, LoopStep

-----------------------------------------------------------------------------
(* What is left of the other. *)

(* What a step of x, or of a connection of x, does to connections: those of *)
(* the other are left alone, one of x may be closed, and is then in its map, *)
(* and one may be added.                                                   *)
Frame(x) ==
    /\ Created \subseteq Created'
    /\ \A c \in Created :
          /\ conn'[c].owner = conn[c].owner
          /\ conn[c].state = "closed" => conn'[c].state = "closed"
          /\ conn'[c].state = "closed" => conn[c].state = "closed" \/ c = peer[x]
    /\ \A c \in Created' \ Created : conn'[c].owner = x
    /\ \A m \in Nodes \ {x} : peer'[m] = peer[m] /\ loop'[m] = loop[m]
    /\ \/ peer'[x] \in {peer[x], NoConn}
       \/ Placing(x) /\ peer'[x] = loop[x].conn
    /\ Placing(x)' => loop'[x] = loop[x] \/ loop'[x].conn \notin Created

LEMMA FrameKept ==
    ASSUME Typed, NEW x \in Nodes, NEW p, Kept(conn'), ClosedAsWell(conn', p),
           p \in Created => p = peer[x],
           \A m \in Nodes \ {x} : peer'[m] = peer[m],
           peer'[x] \in {peer[x], NoConn}, loop' = loop
    PROVE  Frame(x)
  BY DEF Frame, Kept, ClosedAsWell, Created, Placing

LEMMA FrameSame ==
    ASSUME Typed, NEW x \in Nodes, UNCHANGED <<conn, peer, loop>>
    PROVE  Frame(x)
  BY DEF Frame, Created, Placing

LEMMA FrameCreates ==
    ASSUME Typed, NEW x \in Nodes, NEW step \in {"offer", "answer"},
           NEW r \in Conns \cup {NoConn}, Creates(x, step, r), peer' = peer
    PROVE  Frame(x)
<1>1. CASE mishaps' = mishaps
  <2>1. /\ Created' = Created \cup {Len(conn) + 1} /\ Len(conn) + 1 \notin Created
        /\ \A c \in Created : conn'[c] = conn[c]
        /\ conn'[Len(conn) + 1] = Fresh(x, r)
        /\ loop' = [loop EXCEPT ![x] = [at |-> step, conn |-> Len(conn) + 1]]
    BY <1>1, CreatesConn
  <2>2. conn'[Len(conn) + 1].owner = x
    BY <2>1, FreshIs
  <2>3. loop'[x].conn = Len(conn) + 1 /\ \A m \in Nodes \ {x} : loop'[m] = loop[m]
    BY <2>1 DEF Typed
  <2> QED
    BY <2>1, <2>2, <2>3 DEF Frame
<1>2. CASE mishaps' # mishaps
  <2>1. loop' = [loop EXCEPT ![x] = Idle] /\ conn' = conn
    BY <1>2 DEF Creates, Mishap
  <2>2. ~Placing(x)' /\ \A m \in Nodes \ {x} : loop'[m] = loop[m]
    BY <2>1, StepTypes DEF Typed, Placing
  <2> QED
    BY <2>1, <2>2 DEF Frame, Created
<1> QED
  BY <1>1, <1>2

LEMMA FrameNode ==
    ASSUME Typed, Backed, NEW x \in Nodes,
           Relay(x) \/ Announce(x) \/ Enter(x) \/ LeaveRoom(x) \/ LoopStep(x)
    PROVE  Frame(x)
<1>1. CASE Relay(x) \/ Announce(x)
  <2>1. UNCHANGED <<conn, peer, loop>>
    BY <1>1 DEF Relay, RelayJoin, RelayPart, RelayHello, RelaySignal, Announce, tasks
  <2> QED
    BY <2>1, FrameSame
<1>2. CASE Enter(x) \/ LeaveRoom(x) \/ HandleLeft(x)
  <2>1. loop[x] = Idle /\ Forgets(x) /\ loop' = loop
    BY <1>2 DEF Enter, LeaveRoom, HandleLeft, Handles, tasks
  <2>2. Kept(conn') /\ ClosedAsWell(conn', peer[x])
    BY <2>1, ClosedIs DEF Forgets
  <2>3. peer'[x] = NoConn /\ \A m \in Nodes \ {x} : peer'[m] = peer[m]
    BY <2>1 DEF Forgets, Typed
  <2> QED
    BY <2>1, <2>2, <2>3, FrameKept
<1>3. CASE HandleJoined(x) \/ EndBackoff(x)
  <2>1. peer' = peer
    BY <1>3 DEF HandleJoined, EndBackoff
  <2>2. CASE MayCall(x)
    BY <1>3, <2>1, <2>2, FrameCreates DEF HandleJoined, EndBackoff
  <2>3. CASE ~MayCall(x)
    <3>1. conn' = conn /\ (loop' = loop \/ loop' = [loop EXCEPT ![x] = Idle])
      BY <1>3, <2>3 DEF HandleJoined, EndBackoff
    <3>2. /\ \A m \in Nodes \ {x} : loop'[m] = loop[m]
          /\ Placing(x)' => loop'[x] = loop[x]
      BY <3>1, StepTypes DEF Typed, Placing
    <3> QED
      BY <2>1, <3>1, <3>2 DEF Frame, Created
  <2> QED
    BY <2>2, <2>3
<1>4. CASE HandleOffer(x)
  <2>1. Creates(x, "answer", Head(events[x]).from) /\ peer' = peer
        /\ events[x] # <<>> /\ Head(events[x]).cmd = "OFFER"
    BY <1>4 DEF HandleOffer, Handles
  <2>2. PICK r : r = Head(events[x]).from
    OBVIOUS
  <2>3. r \in Conns
    BY <2>1, <2>2, Handling, LineTypes
  <2> QED
    BY <2>1, <2>2, <2>3, FrameCreates
<1>5. CASE HandleAnswer(x) \/ HandleCandidate(x)
  <2>1. Kept(conn') /\ ClosedAsWell(conn', NoConn) /\ peer' = peer /\ loop' = loop
    BY <1>5, AnswerSets, CandidateSets DEF HandleAnswer, HandleCandidate
  <2> QED
    BY <2>1, ConnIs, FrameKept
<1>6. CASE Places(x)
  <2>1. /\ Placing(x) /\ peer' = [peer EXCEPT ![x] = loop[x].conn]
        /\ loop' = [loop EXCEPT ![x] = Idle] /\ conn' = conn
    BY <1>6, PlacesIs DEF Places, Placing
  <2>2. /\ peer'[x] = loop[x].conn /\ ~Placing(x)'
        /\ \A m \in Nodes \ {x} : peer'[m] = peer[m] /\ loop'[m] = loop[m]
    BY <2>1, StepTypes DEF Typed, Placing
  <2> QED
    BY <2>1, <2>2 DEF Frame, Created
<1>7. CASE HandleReconnect(x)
  <2>1. /\ peer' = [peer EXCEPT ![x] = NoConn] /\ conn' = conn
        /\ loop' = [loop EXCEPT ![x] = IF listed[x] THEN [at |-> "backoff"] ELSE Idle]
    BY <1>7 DEF HandleReconnect
  <2>2. /\ peer'[x] = NoConn /\ ~Placing(x)'
        /\ \A m \in Nodes \ {x} : peer'[m] = peer[m] /\ loop'[m] = loop[m]
    BY <2>1, StepTypes DEF Typed, Placing
  <2> QED
    BY <2>1, <2>2 DEF Frame, Created
<1> QED
  BY <1>1, <1>2, <1>3, <1>4, <1>5, <1>6, <1>7 DEF LoopStep, HandleEvent

LEMMA FrameConn ==
    ASSUME Typed, NEW c \in Created, Gathers(c) \/ ConnUp(c) \/ ConnBreaks(c)
    PROVE  Frame(conn[c].owner)
<1>1. Kept(conn') /\ ClosedAsWell(conn', NoConn) /\ conn[c].owner \in Nodes
  BY CallbackSets, ConnIs
<1>2. UNCHANGED <<peer, loop>>
  BY DEF Gathers, ConnUp, ConnBreaks, tasks
<1> QED
  BY <1>1, <1>2, ConnIs, FrameKept

LEMMA OrphanIs ==
    ASSUME Typed, NEW n \in Nodes
    PROVE  Orphan(n) <=> \E c \in Created : /\ conn[c].owner = n /\ conn[c].state # "closed"
                                            /\ c # peer[n]
                                            /\ Placing(n) => loop[n].conn # c
<1>1. ASSUME NEW c
      PROVE  loop[n] \in [at : {"offer", "answer"}, conn : {c}]
               <=> Placing(n) /\ loop[n].conn = c
  <2>1. loop[n] \in Steps
    BY DEF Typed
  <2> QED
    BY <2>1 DEF Steps, Idle, Placing
<1> QED
  BY <1>1 DEF Orphan, Owned

(* Once a connection has gone astray it stays so. *)
LEMMA OrphanStays ==
    ASSUME Typed, Backed, Typed', NEW x \in Nodes, NEW n \in Nodes, Frame(x), Orphan(n)
    PROVE  Orphan(n)'
<1>1. PICK c \in Created : /\ conn[c].owner = n /\ conn[c].state # "closed"
                           /\ c # peer[n]
                           /\ Placing(n) => loop[n].conn # c
  BY OrphanIs
<1>2. c \in Created' /\ conn'[c].owner = n /\ c # NoConn
  BY <1>1, ConnIs DEF Frame
<1>3. c # peer[x]
  BY <1>1, ConnIs DEF Backed
<1>4. conn'[c].state # "closed"
  BY <1>1, <1>3 DEF Frame
<1>5. c # peer'[n]
  BY <1>1, <1>2 DEF Frame
<1>6. Placing(n)' => loop'[n].conn # c
  BY <1>1 DEF Frame, Placing
<1>7. Orphan(n)' <=> \E d \in Created' : /\ conn'[d].owner = n /\ conn'[d].state # "closed"
                                         /\ d # peer'[n]
                                         /\ Placing(n)' => loop'[n].conn # d
  <2>1. ASSUME NEW d
        PROVE  loop'[n] \in [at : {"offer", "answer"}, conn : {d}]
                 <=> Placing(n)' /\ loop'[n].conn = d
    <3>1. loop'[n] \in Steps
      BY DEF Typed
    <3> QED
      BY <3>1 DEF Steps, Idle, Placing
  <2> QED
    BY <2>1 DEF Orphan, Owned
<1> QED
  BY <1>2, <1>4, <1>5, <1>6, <1>7

(* Nothing of the other, now or once the events are handled. *)
Trace(n) == Orphan(n) \/ LeftLast(n) \/ Clean(n)

Still(n) == ~Together(n) => ~known[n] /\ Trace(n)

LEMMA QuietIs == Quiet <=> \A n \in Nodes \ moved : Still(n)
  BY DEF Quiet, Still, Trace

(* What others do leaves a client as it is, but for its events. *)
LEMMA TraceAside ==
    ASSUME Typed, Backed, Typed', NEW x \in Nodes, NEW n \in Nodes, Frame(x), Trace(n),
           x # n \/ UNCHANGED <<conn, peer, loop>>,
           events'[n] = events[n], listed'[n] = listed[n]
    PROVE  Trace(n)'
<1>1. CASE Orphan(n)
  BY <1>1, OrphanStays DEF Trace
<1>2. CASE LeftLast(n)
  BY <1>2 DEF Trace, LeftLast
<1>3. CASE Clean(n)
  <2>1. loop'[n] = Idle /\ peer'[n] = NoConn
    BY <1>3 DEF Clean, Frame
  <2>2. ASSUME NEW c \in Created', conn'[c].owner = n
        PROVE  conn'[c].state = "closed"
    <3>1. c \in Created /\ conn[c].owner = n
      BY <2>2 DEF Frame, Created
    <3>2. conn[c].state = "closed"
      BY <1>3, <3>1 DEF Clean, Owned
    <3> QED
      BY <3>1, <3>2 DEF Frame
  <2>3. \A c \in Owned(n)' : conn'[c].state = "closed"
    BY <2>2 DEF Owned
  <2> QED
    BY <1>3, <2>1, <2>3 DEF Trace, Clean
<1> QED
  BY <1>1, <1>2, <1>3 DEF Trace

LEMMA QuietAside ==
    ASSUME Typed, Backed, Typed', NEW x \in Nodes, NEW n \in Nodes, Frame(x), Still(n),
           x # n \/ UNCHANGED <<conn, peer, loop>>,
           Together(n) => Together(n)', known'[n] => known[n],
           events'[n] = events[n], listed'[n] = listed[n]
    PROVE  Still(n)'
<1>1. ~Together(n)' => Trace(n)'
  BY TraceAside DEF Still
<1> QED
  BY <1>1 DEF Still

LEMMA QuietRelay ==
    ASSUME Typed, Backed, Present, Typed', NEW x \in Nodes, Relay(x),
           NEW n \in Nodes \ moved, Still(n)
    PROVE  Still(n)'
<1>1. UNCHANGED <<conn, peer, loop>>
  BY DEF Relay, RelayJoin, RelayPart, RelayHello, RelaySignal, tasks
<1>2. Frame(x)
  BY <1>1, FrameSame
<1>3. /\ Other(x) \in Nodes /\ Other(x) # x /\ Nodes = {x, Other(x)}
      /\ Other(n) \in Nodes /\ Other(n) # n /\ Nodes = {n, Other(n)}
      /\ x = n \/ Other(x) = n
      /\ n \in Nodes
  BY Pair
<1>4. CASE RelayJoin(x)
  <2>1. /\ member' = [member EXCEPT ![x] = TRUE] /\ UNCHANGED <<known, listed>>
        /\ ~member[Other(x)] => events' = events
    BY <1>4 DEF RelayJoin
  <2>2. CASE member[Other(x)]
    BY <1>3, <2>1, <2>2 DEF Still, Together, Typed
  <2>3. CASE ~member[Other(x)]
    <3>1. ~Together(n)
      BY <1>3, <2>3 DEF Together
    <3> QED
      BY <1>1, <1>2, <2>1, <2>3, <3>1, QuietAside
  <2> QED
    BY <2>2, <2>3
<1>5. CASE RelayPart(x)
  <2>1. x # n
    <3>1. wire[x] # <<>> /\ Head(wire[x]).cmd = "PART"
      BY <1>5 DEF RelayPart, Reads
    <3>2. x = n => None(wire[x], "PART")
      BY DEF Present
    <3>3. None(wire[x], "PART") => Head(wire[x]).cmd # "PART"
      <4>1. wire[x] \in Seq(Lines) /\ wire[x] # <<>>
        BY <3>1 DEF Typed
      <4> QED
        BY <4>1, Shorter
    <3> QED
      BY <3>1, <3>2, <3>3
  <2>2. Other(x) = n
    BY <1>3, <2>1
  <2>3. CASE member[n]
    <3>1. known' = [known EXCEPT ![n] = FALSE] /\ events' = Told(n, "LEFT")
      BY <1>5, <2>2, <2>3 DEF RelayPart
    <3>2. known'[n] = FALSE /\ events'[n] = Append(events[n], Line("LEFT"))
      BY <1>3, <3>1 DEF Told, Typed
    <3>3. Line("LEFT") \in Reports /\ Line("LEFT").cmd = "LEFT" /\ events[n] \in Seq(Reports)
      BY <1>3, LineTypes DEF Typed
    <3>4. PICK e : e = Line("LEFT")
      OBVIOUS
    <3>5. events'[n] # <<>> /\ events'[n][Len(events'[n])].cmd = "LEFT"
      BY <3>2, <3>3, <3>4, Longer
    <3> QED
      BY <3>2, <3>5 DEF Still, Trace, LeftLast
  <2>4. CASE ~member[n]
    <3>1. UNCHANGED <<known, listed, events>> /\ ~Together(n)
      BY <1>5, <2>2, <2>4 DEF RelayPart, Together
    <3> QED
      BY <1>1, <1>2, <3>1, QuietAside
  <2> QED
    BY <2>3, <2>4
<1>6. CASE RelayHello(x)
  <2>1. /\ known' = [known EXCEPT ![Other(x)] = @ \/ (member[x] /\ member[Other(x)])]
        /\ UNCHANGED <<member, events, listed>>
    BY <1>6 DEF RelayHello, rooms, tasks
  <2>2. known'[n] => known[n] \/ Together(n)
    BY <1>3, <2>1 DEF Together, Typed
  <2>3. Together(n)' <=> Together(n)
    BY <2>1 DEF Together
  <2>4. CASE Together(n)
    BY <2>3, <2>4 DEF Still
  <2>5. CASE ~Together(n)
    BY <1>1, <1>2, <2>1, <2>2, <2>5, QuietAside
  <2> QED
    BY <2>4, <2>5
<1>7. CASE RelaySignal(x)
  <2>1. /\ \/ known[Other(x)] /\ events' = [events EXCEPT ![Other(x)] = Append(@, Head(wire[x]))]
           \/ events' = events
        /\ UNCHANGED <<member, known, listed>>
    BY <1>7 DEF RelaySignal, rooms
  <2>2. Together(n)' <=> Together(n)
    BY <2>1 DEF Together
  <2>3. CASE Together(n)
    BY <2>2, <2>3 DEF Still
  <2>4. CASE ~Together(n)
    <3>1. events'[n] = events[n]
      <4>1. ~known[n]
        BY <2>4 DEF Still
      <4>2. CASE n = Other(x)
        BY <2>1, <4>1, <4>2
      <4>3. CASE n # Other(x)
        <5>1. events \in [Nodes -> Seq(Reports)]
          BY DEF Typed
        <5>2. PICK k, e : \/ events' = [events EXCEPT ![k] = e] /\ k = Other(x)
                         \/ events' = events
          BY <2>1
        <5> QED
          BY <1>3, <4>3, <5>1, <5>2
      <4> QED
        BY <4>2, <4>3
    <3> QED
      BY <1>1, <1>2, <2>1, <2>4, <3>1, QuietAside
  <2> QED
    BY <2>3, <2>4
<1> QED
  BY <1>4, <1>5, <1>6, <1>7 DEF Relay

(* The last event of the loop is that the other left. *)
LEMMA LeftStays ==
    ASSUME Typed, NEW n \in Nodes, LeftLast(n), events' = [events EXCEPT ![n] = Tail(@)],
           Tail(events[n]) # <<>>
    PROVE  LeftLast(n)'
<1>1. events'[n] = Tail(events[n]) /\ events[n] \in Seq(Reports) /\ events[n] # <<>>
  BY DEF Typed, LeftLast
<1>2. Tail(events[n])[Len(Tail(events[n]))] = events[n][Len(events[n])]
  BY <1>1, Shorter
<1> QED
  BY <1>1, <1>2 DEF LeftLast

LEMMA LeftIsLast ==
    ASSUME Typed, NEW n \in Nodes, LeftLast(n), Head(events[n]).cmd # "LEFT"
    PROVE  Tail(events[n]) # <<>>
<1>1. events[n] \in Seq(Reports) /\ events[n] # <<>>
  BY DEF Typed, LeftLast
<1>2. Tail(events[n]) = <<>> => Head(events[n]) = events[n][Len(events[n])]
  BY <1>1, Shorter
<1> QED
  BY <1>2 DEF LeftLast

LEMMA ForgetsClean ==
    ASSUME Typed, Backed, NEW n \in Nodes, loop[n] = Idle, loop' = loop, Forgets(n)
    PROVE  /\ peer'[n] = NoConn /\ listed'[n] = FALSE /\ known'[n] = FALSE /\ loop'[n] = Idle
           /\ Orphan(n) \/ \A c \in Owned(n)' : conn'[c].state = "closed"
<1>1. peer'[n] = NoConn /\ listed'[n] = FALSE /\ known'[n] = FALSE
  BY DEF Forgets, Typed
<1>2. Kept(conn') /\ ClosedAsWell(conn', peer[n])
  BY ClosedIs DEF Forgets
<1>3. ASSUME ~Orphan(n), NEW c \in Owned(n)'
      PROVE  conn'[c].state = "closed"
  <2>1. c \in Created /\ conn[c].owner = n
    BY <1>2, <1>3 DEF Kept, Owned, Created
  <2>2. ~Placing(n)
    BY StepTypes DEF Placing
  <2>3. conn[c].state = "closed" \/ c = peer[n]
    BY <1>3, <2>1, <2>2, OrphanIs
  <2> QED
    BY <1>2, <2>1, <2>3 DEF ClosedAsWell
<1> QED
  BY <1>1, <1>3

LEMMA QuietUser ==
    ASSUME Typed, Backed, Typed', NEW x \in Nodes, Announce(x) \/ Enter(x) \/ LeaveRoom(x),
           NEW n \in Nodes \ moved, n \notin moved', Still(n)
    PROVE  Still(n)'
<1>1. UNCHANGED <<member, events, loop>> /\ n \in Nodes
  BY DEF Announce, Enter, LeaveRoom, tasks, rooms
<1>2. Together(n)' <=> Together(n)
  BY <1>1 DEF Together
<1>3. Frame(x)
  BY FrameNode
<1>4. CASE Announce(x)
  <2>1. UNCHANGED <<conn, peer, loop, known, events, listed>>
    BY <1>4 DEF Announce, tasks
  <2> QED
    BY <1>1, <1>2, <1>3, <2>1, QuietAside
<1>5. CASE (Enter(x) \/ LeaveRoom(x)) /\ x # n
  <2>1. listed'[n] = listed[n] /\ known'[n] = known[n]
    BY <1>1, <1>5 DEF Enter, LeaveRoom, Forgets, Typed
  <2> QED
    BY <1>1, <1>2, <1>3, <1>5, <2>1, QuietAside
<1>6. CASE LeaveRoom(x) /\ x = n
  BY <1>6 DEF LeaveRoom
<1>7. CASE Enter(x) /\ x = n
  <2>1. loop[n] = Idle /\ Forgets(n)
    BY <1>7 DEF Enter
  <2>2. known'[n] = FALSE
    BY <1>1, <2>1, ForgetsClean
  <2>3. ASSUME Trace(n)
        PROVE  Trace(n)'
    <3>1. CASE Orphan(n)
      BY <1>1, <1>3, <3>1, OrphanStays DEF Trace
    <3>2. CASE LeftLast(n)
      BY <1>1, <3>2 DEF Trace, LeftLast
    <3>3. CASE Clean(n) /\ ~Orphan(n)
      BY <1>1, <2>1, <3>3, ForgetsClean DEF Trace, Clean
    <3> QED
      BY <2>3, <3>1, <3>2, <3>3 DEF Trace
  <2> QED
    BY <1>2, <2>2, <2>3 DEF Still
<1> QED
  BY <1>4, <1>5, <1>6, <1>7

LEMMA QuietLoop ==
    ASSUME Typed, Backed, Typed', NEW x \in Nodes, LoopStep(x),
           NEW n \in Nodes \ moved, Still(n)
    PROVE  Still(n)'
<1>1. UNCHANGED <<member, moved>> /\ n \in Nodes
  BY PlacesIs DEF LoopStep, HandleEvent, HandleJoined, HandleLeft, HandleOffer, HandleAnswer,
                  HandleCandidate, HandleReconnect, EndBackoff, rooms, bounds
<1>2. Together(n)' <=> Together(n)
  BY <1>1 DEF Together
<1>3. Frame(x)
  BY FrameNode
<1>4. known'[n] => known[n]
  <2>1. known' = known \/ known' = [known EXCEPT ![x] = FALSE]
    BY PlacesIs DEF LoopStep, HandleEvent, HandleJoined, HandleLeft, HandleOffer, HandleAnswer,
                    HandleCandidate, HandleReconnect, EndBackoff, Forgets
  <2> QED
    BY <1>1, <2>1 DEF Typed
<1>5. CASE x # n
  <2>1. listed' = listed \/ \E b \in BOOLEAN : listed' = [listed EXCEPT ![x] = b]
    BY PlacesIs DEF LoopStep, HandleEvent, HandleJoined, HandleLeft, HandleOffer, HandleAnswer,
                    HandleCandidate, HandleReconnect, EndBackoff, Forgets
  <2>2. events' = events \/ events' = [events EXCEPT ![x] = Tail(@)]
    BY PlacesIs DEF LoopStep, HandleEvent, HandleJoined, HandleLeft, HandleOffer, HandleAnswer,
                    HandleCandidate, HandleReconnect, EndBackoff, Done
  <2>3. listed'[n] = listed[n] /\ events'[n] = events[n]
    BY <1>1, <1>5, <2>1, <2>2 DEF Typed
  <2> QED
    BY <1>1, <1>2, <1>3, <1>4, <1>5, <2>3, QuietAside
<1>6. CASE x = n
  <2>1. ASSUME Trace(n)
        PROVE  Trace(n)'
    <3>1. CASE Orphan(n)
      BY <1>1, <1>3, <3>1, OrphanStays DEF Trace
    <3>2. CASE HandleEvent(n) /\ ~HandleLeft(n)
      <4>1. /\ events[n] # <<>> /\ events' = [events EXCEPT ![n] = Tail(@)]
            /\ Head(events[n]).cmd # "LEFT"
        BY <3>2 DEF HandleEvent, HandleJoined, HandleOffer, HandleAnswer, HandleCandidate,
                    Handles, Done
      <4>2. LeftLast(n) => LeftLast(n)'
        BY <1>1, <4>1, LeftIsLast, LeftStays
      <4> QED
        BY <2>1, <3>1, <4>1, <4>2 DEF Trace, Clean
    <3>3. CASE HandleLeft(n) /\ ~Orphan(n)
      <4>1. /\ events[n] # <<>> /\ events' = [events EXCEPT ![n] = Tail(@)]
            /\ loop[n] = Idle /\ loop' = loop /\ Forgets(n)
        BY <3>3 DEF HandleLeft, Handles, Done
      <4>2. LeftLast(n)
        BY <2>1, <3>3, <4>1 DEF Trace, Clean
      <4>3. CASE Tail(events[n]) # <<>>
        BY <1>1, <4>1, <4>2, <4>3, LeftStays DEF Trace
      <4>4. CASE Tail(events[n]) = <<>>
        <5>1. events'[n] = <<>>
          BY <1>1, <4>1, <4>4 DEF Typed
        <5> QED
          BY <1>1, <3>3, <4>1, <5>1, ForgetsClean DEF Trace, Clean
      <4> QED
        BY <4>3, <4>4
    <3>4. CASE Places(n) \/ EndBackoff(n)
      <4>1. events' = events
        BY <3>4 DEF Places, EndBackoff
      <4>2. ~Clean(n)
        BY <3>4, StepTypes DEF Places, EndBackoff, Clean
      <4> QED
        BY <2>1, <3>1, <4>1, <4>2 DEF Trace, LeftLast
    <3>5. CASE HandleReconnect(n)
      <4>1. /\ events' = events /\ conn' = conn /\ listed' = listed
            /\ peer' = [peer EXCEPT ![n] = NoConn]
            /\ loop' = [loop EXCEPT ![n] = IF listed[n] THEN [at |-> "backoff"] ELSE Idle]
        BY <3>5 DEF HandleReconnect
      <4>2. LeftLast(n) => LeftLast(n)'
        BY <4>1 DEF LeftLast
      <4>3. ASSUME Clean(n)
            PROVE  Clean(n)'
        <5>1. peer'[n] = NoConn /\ loop'[n] = Idle
          BY <1>1, <4>1, <4>3 DEF Clean, Typed
        <5>2. Owned(n)' = Owned(n)
          BY <4>1 DEF Owned, Created
        <5> QED
          BY <4>1, <4>3, <5>1, <5>2 DEF Clean
      <4> QED
        BY <2>1, <3>1, <4>2, <4>3 DEF Trace
    <3> QED
      BY <1>6, <3>1, <3>2, <3>3, <3>4, <3>5 DEF LoopStep, HandleEvent
  <2> QED
    BY <1>2, <1>4, <2>1 DEF Still
<1> QED
  BY <1>5, <1>6

LEMMA QuietConn ==
    ASSUME Typed, Backed, Typed', NEW c \in Created, Gathers(c) \/ ConnUp(c) \/ ConnBreaks(c),
           NEW n \in Nodes \ moved, Still(n)
    PROVE  Still(n)'
<1>1. /\ UNCHANGED <<member, known, events, loop, peer>> /\ n \in Nodes
      /\ conn[c].owner \in Nodes /\ Frame(conn[c].owner)
  BY FrameConn, ConnIs DEF Gathers, ConnUp, ConnBreaks, rooms, tasks
<1>2. Together(n)' <=> Together(n)
  BY <1>1 DEF Together
<1>3. CASE conn[c].owner # n
  <2>1. listed'[n] = listed[n]
    BY <1>1, <1>3 DEF Gathers, ConnUp, ConnBreaks, Typed
  <2>2. PICK x \in Nodes : x = conn[c].owner
    BY <1>1
  <2> QED
    BY <1>1, <1>2, <1>3, <2>1, <2>2, QuietAside
<1>4. CASE conn[c].owner = n
  <2>1. ~Clean(n)
    BY <1>4 DEF Clean, Owned, Gathers, ConnUp, ConnBreaks
  <2>2. LeftLast(n) => LeftLast(n)'
    BY <1>1 DEF LeftLast
  <2>3. Orphan(n) => Orphan(n)'
    BY <1>1, <1>4, OrphanStays
  <2> QED
    BY <1>1, <1>2, <2>1, <2>2, <2>3 DEF Still, Trace
<1> QED
  BY <1>3, <1>4

LEMMA QuietKept ==
    ASSUME Typed, Backed, Present, Quiet, Typed', Next
    PROVE  Quiet'
<1> SUFFICES ASSUME NEW n \in Nodes \ moved'
             PROVE  Still(n)'
  BY DEF Quiet, Still, Trace
<1>1. moved \subseteq moved'
  BY PlacesIs DEF Next, Relay, RelayJoin, RelayPart, RelayHello, RelaySignal, Announce, Enter,
                  LeaveRoom, LoopStep, HandleEvent, HandleJoined, HandleLeft, HandleOffer,
                  HandleAnswer, HandleCandidate, HandleReconnect, EndBackoff, Gathers, ConnUp,
                  ConnBreaks, bounds
<1>2. n \in Nodes \ moved /\ Still(n)
  BY <1>1, QuietIs
<1> QED
  BY <1>2, QuietRelay, QuietUser, QuietLoop, QuietConn DEF Next

LEMMA QuietInit == Init => Quiet
<1> SUFFICES ASSUME Init PROVE Quiet
  OBVIOUS
<1>1. Created = {}
  BY DEF Init, Created
<1>2. \A n \in Nodes : ~known[n] /\ Clean(n)
  BY <1>1 DEF Init, Clean, Owned
<1> QED
  BY <1>2 DEF Quiet

-----------------------------------------------------------------------------
(* One connection each. *)

(* A queue with no more lines of a kind than before. *)
Eases(q, r, c) == (None(q, c) => None(r, c)) /\ (Once(q, c) => Once(r, c))

LEMMA SentEases ==
    ASSUME Typed, NEW n \in Nodes, NEW m \in Lines, Sends(n, <<m>>), NEW c, m.cmd # c
    PROVE  \A k \in Nodes : Eases(wire[k], wire'[k], c)
<1>1. wire'[n] = Append(wire[n], m) /\ \A k \in Nodes \ {n} : wire'[k] = wire[k]
  BY Sending DEF Typed
<1>2. wire[n] \in Seq(Lines)
  BY DEF Typed
<1>3. Eases(wire[n], Append(wire[n], m), c)
  BY <1>2, Longer DEF Eases
<1>4. \A k \in Nodes \ {n} : Eases(wire[k], wire'[k], c)
  BY <1>1 DEF Eases
<1> QED
  BY <1>1, <1>3, <1>4

LEMMA RelayedEases ==
    ASSUME Typed, NEW n \in Nodes, wire[n] # <<>>, wire' = [wire EXCEPT ![n] = Tail(@)], NEW c
    PROVE  \A k \in Nodes : Eases(wire[k], wire'[k], c)
<1>1. /\ wire'[n] = Tail(wire[n]) /\ wire[n] \in Seq(Lines)
      /\ \A k \in Nodes \ {n} : wire'[k] = wire[k]
  BY DEF Typed
<1>2. Eases(wire[n], Tail(wire[n]), c)
  BY <1>1, Shorter DEF Eases
<1>3. \A k \in Nodes \ {n} : Eases(wire[k], wire'[k], c)
  BY <1>1 DEF Eases
<1> QED
  BY <1>1, <1>2, <1>3

LEMMA HandledEases ==
    ASSUME Typed, NEW n \in Nodes, events[n] # <<>>,
           events' = [events EXCEPT ![n] = Tail(@)], NEW c
    PROVE  \A k \in Nodes : Eases(events[k], events'[k], c)
<1>1. /\ events'[n] = Tail(events[n]) /\ events[n] \in Seq(Reports)
      /\ \A k \in Nodes \ {n} : events'[k] = events[k]
  BY DEF Typed
<1>2. Eases(events[n], Tail(events[n]), c)
  BY <1>1, Shorter DEF Eases
<1>3. \A k \in Nodes \ {n} : Eases(events[k], events'[k], c)
  BY <1>1 DEF Eases
<1> QED
  BY <1>1, <1>2, <1>3

LEMMA ReportedEases ==
    ASSUME Typed, NEW n \in Nodes, NEW e \in Reports,
           events'[n] = Append(events[n], e), NEW c, e.cmd # c
    PROVE  Eases(events[n], events'[n], c)
<1>1. events[n] \in Seq(Reports)
  BY DEF Typed
<1> QED
  BY <1>1, Longer DEF Eases

LEMMA SameEases == \A q, c : Eases(q, q, c)
  BY DEF Eases

LEMMA OwnedKept ==
    ASSUME Kept(conn')
    PROVE  \A n \in Nodes : Owned(n)' = Owned(n)
  BY DEF Kept, Owned, Created

LEMMA OwnedGrown ==
    ASSUME Typed, NEW n \in Nodes, NEW step \in {"offer", "answer"},
           NEW r \in Conns \cup {NoConn}, Creates(n, step, r), mishaps' = mishaps
    PROVE  /\ Owned(n)' = Owned(n) \cup {Len(conn) + 1}
           /\ \A m \in Nodes \ {n} : Owned(m)' = Owned(m) /\ loop'[m] = loop[m]
           /\ loop'[n].at = step
<1>1. /\ Created' = Created \cup {Len(conn) + 1} /\ Len(conn) + 1 \notin Created
      /\ \A c \in Created : conn'[c] = conn[c]
      /\ conn'[Len(conn) + 1] = Fresh(n, r)
      /\ loop' = [loop EXCEPT ![n] = [at |-> step, conn |-> Len(conn) + 1]]
  BY CreatesConn
<1>2. conn'[Len(conn) + 1].owner = n
  BY <1>1, FreshIs
<1>3. \A m \in Nodes \ {n} : Owned(m)' = Owned(m)
  BY <1>1, <1>2 DEF Owned
<1>4. Owned(n)' = Owned(n) \cup {Len(conn) + 1}
  BY <1>1, <1>2 DEF Owned
<1>5. loop'[n].at = step /\ \A m \in Nodes \ {n} : loop'[m] = loop[m]
  BY <1>1 DEF Typed
<1> QED
  BY <1>3, <1>4, <1>5

LEMMA CalmKept ==
    ASSUME Calm, UNCHANGED <<moved, redials, inRoom, member>>,
           \A n \in Nodes : loop'[n].at # "backoff" /\ Eases(wire[n], wire'[n], "JOIN")
    PROVE  Calm'
  BY DEF Calm, Eases

LEMMA OneWayKept ==
    ASSUME OneWay, Eases(wire[Callee], wire'[Callee], "OFFER"),
           Eases(events[Caller], events'[Caller], "OFFER"),
           loop'[Callee].at # "offer", loop'[Caller].at # "answer"
    PROVE  OneWay'
  BY DEF OneWay, Eases

LEMMA OneCallKept ==
    ASSUME OneCall, Together(Caller)' <=> Together(Caller),
           Eases(events[Caller], events'[Caller], "JOINED"),
           Owned(Caller)' = Owned(Caller), Owned(Callee)' = Owned(Callee),
           loop'[Caller].at = "offer" => loop[Caller].at = "offer",
           Eases(wire[Caller], wire'[Caller], "OFFER"),
           Eases(events[Callee], events'[Callee], "OFFER")
    PROVE  OneCall'
  BY DEF OneCall, Silent, Eases

LEMMA OneAnswerKept ==
    ASSUME OneAnswer, Owned(Callee)' = Owned(Callee),
           Eases(wire[Caller], wire'[Caller], "OFFER"),
           Eases(events[Callee], events'[Callee], "OFFER")
    PROVE  OneAnswer'
  BY DEF OneAnswer, Eases

(* A step that sends no JOIN or OFFER, reports none, and starts no call.    *)
Ordinary ==
    /\ UNCHANGED <<moved, redials, inRoom, member>>
    /\ \A n \in Nodes : /\ Eases(wire[n], wire'[n], "JOIN") /\ Eases(wire[n], wire'[n], "OFFER")
                        /\ Eases(events[n], events'[n], "JOINED")
                        /\ Eases(events[n], events'[n], "OFFER")
                        /\ Owned(n)' = Owned(n)
                        /\ loop'[n] \in {loop[n], Idle}

Ones == Calm /\ OneWay /\ OneCall /\ OneAnswer

LEMMA OrdinaryKeeps ==
    ASSUME Ones, Ordinary
    PROVE  Ones'
<1>1. \A n \in Nodes : loop'[n].at \in {loop[n].at, "idle"}
  BY StepTypes DEF Ordinary
<1>2. Calm'
  BY <1>1, CalmKept DEF Ordinary, Ones, Calm
<1>3. OneWay'
  BY <1>1, Pair, OneWayKept DEF Ordinary, Ones, OneWay
<1>4. Together(Caller)' <=> Together(Caller)
  BY DEF Ordinary, Together
<1>5. OneCall'
  BY <1>1, <1>4, Pair, OneCallKept DEF Ordinary, Ones
<1>6. OneAnswer'
  BY Pair, OneAnswerKept DEF Ordinary, Ones
<1> QED
  BY <1>2, <1>3, <1>5, <1>6 DEF Ones

LEMMA RelayOnes ==
    ASSUME Typed, Ones, NEW n \in Nodes, RelayHello(n) \/ RelaySignal(n)
    PROVE  Ones'
<1>1. /\ wire[n] # <<>> /\ wire' = [wire EXCEPT ![n] = Tail(@)]
      /\ UNCHANGED <<moved, redials, inRoom, member, loop, conn>>
  BY DEF RelayHello, RelaySignal, Reads, rooms, tasks, bounds
<1>2. Created' = Created /\ \A k \in Nodes : Owned(k)' = Owned(k)
  BY <1>1 DEF Created, Owned
<1>3. \A k \in Nodes : Eases(wire[k], wire'[k], "JOIN") /\ Eases(wire[k], wire'[k], "OFFER")
  BY <1>1, RelayedEases
<1>4. CASE RelayHello(n)
  <2>1. events' = events
    BY <1>4 DEF RelayHello, tasks
  <2> QED
    BY <1>1, <1>2, <1>3, <2>1, SameEases, OrdinaryKeeps DEF Ordinary
<1>5. CASE RelaySignal(n)
  <2> DEFINE o == Other(n)
  <2>1. /\ o \in Nodes /\ o # n /\ Nodes = {n, o}
    BY Pair
  <2>2. PICK e : e = Head(wire[n])
    OBVIOUS
  <2>3. /\ e \in Reports /\ e.cmd \in {"OFFER", "ANSWER", "CANDIDATE"}
        /\ wire[n] \in Seq(Lines)
    BY <1>1, <1>5, <2>2, Relaying, LineTypes DEF RelaySignal, Reads, Typed
  <2>4. events' = events \/ events' = [events EXCEPT ![o] = Append(@, e)]
    BY <1>5, <2>2 DEF RelaySignal
  <2>5. /\ events'[n] = events[n]
        /\ events'[o] = events[o] \/ events'[o] = Append(events[o], e)
    BY <2>1, <2>4 DEF Typed
  <2> HIDE DEF o
  <2>6. \A k \in Nodes : Eases(events[k], events'[k], "JOINED")
    BY <2>1, <2>3, <2>5, ReportedEases, SameEases
  <2>7. e.cmd # "OFFER" => \A k \in Nodes : Eases(events[k], events'[k], "OFFER")
    BY <2>1, <2>3, <2>5, ReportedEases, SameEases
  <2>8. CASE e.cmd # "OFFER"
    BY <1>1, <1>2, <1>3, <2>6, <2>7, <2>8, OrdinaryKeeps DEF Ordinary
  <2>9. CASE e.cmd = "OFFER"
    <3>1. ~None(wire[n], "OFFER")
      BY <1>1, <2>2, <2>3, <2>9, Shorter
    <3>2. n = Caller /\ o = Callee
      BY <2>1, <3>1, Pair DEF Ones, OneWay, Nodes
    <3>3. /\ None(events[Callee], "OFFER") /\ Owned(Callee) = {}
          /\ Owned(Caller) # {} /\ loop[Caller].at # "offer" /\ Once(wire[Caller], "OFFER")
      BY <3>1, <3>2 DEF Ones, OneAnswer, OneCall, Silent
    <3>4. /\ None(wire'[Caller], "OFFER") /\ Once(wire'[Caller], "OFFER")
      <4>1. None(Tail(wire[n]), "OFFER")
        BY <1>1, <2>2, <2>3, <2>9, <3>2, <3>3, Shorter
      <4>2. wire'[n] = Tail(wire[n])
        BY <1>1 DEF Typed
      <4> QED
        BY <3>2, <4>1, <4>2 DEF None, Once
    <3>5. Once(events'[Callee], "OFFER")
      <4>1. events[o] \in Seq(Reports)
        BY <2>1 DEF Typed
      <4>2. Once(Append(events[o], e), "OFFER")
        BY <2>3, <3>2, <3>3, <4>1, Longer
      <4> QED
        BY <2>5, <3>2, <4>2 DEF Ones, OneAnswer
    <3>6. OneAnswer'
      BY <1>2, <3>2, <3>3, <3>4, <3>5, Pair DEF OneAnswer
    <3>7. OneCall'
      <4>1. Together(Caller)' <=> Together(Caller)
        BY <1>1 DEF Together
      <4> QED
        BY <1>1, <1>2, <2>6, <3>3, <4>1, Pair DEF Ones, OneCall, Eases
    <3>8. Calm'
      BY <1>1, <1>3, CalmKept DEF Ones, Calm
    <3>9. OneWay'
      <4>1. Eases(events[Caller], events'[Caller], "OFFER")
        BY <2>5, <3>2, SameEases
      <4> QED
        BY <1>1, <1>3, <4>1, Pair, OneWayKept DEF Ones, OneWay
    <3> QED
      BY <3>6, <3>7, <3>8, <3>9 DEF Ones
  <2> QED
    BY <2>8, <2>9
<1> QED
  BY <1>4, <1>5

LEMMA JoinOnes ==
    ASSUME Typed, Present, Ones, NEW n \in Nodes, RelayJoin(n)
    PROVE  Ones'
<1> DEFINE o == Other(n)
           rest == [wire EXCEPT ![n] = Tail(@)]
           hello == Line("HELLO")
<1>1. /\ wire[n] # <<>> /\ Head(wire[n]).cmd = "JOIN" /\ wire[n] \in Seq(Lines)
      /\ member' = [member EXCEPT ![n] = TRUE]
      /\ UNCHANGED <<moved, redials, inRoom, loop, conn>>
  BY DEF RelayJoin, Reads, bounds, Typed
<1>2. /\ o \in Nodes /\ o # n /\ Nodes = {n, o} /\ Caller \in Nodes /\ Callee \in Nodes
  BY Pair
<1>3. Created' = Created /\ \A k \in Nodes : Owned(k)' = Owned(k)
  BY <1>1 DEF Created, Owned
<1>4. ~None(wire[n], "JOIN") /\ Once(wire[n], "JOIN")
  BY <1>1, Shorter DEF Ones, Calm
<1>5. inRoom[n] /\ ~member[n]
  BY <1>4 DEF Ones, Calm
<1>6. /\ wire'[n] = Tail(wire[n])
      /\ wire'[o] = wire[o] \/ wire'[o] = Append(wire[o], hello)
  BY <1>2 DEF RelayJoin, Typed
<1>7. /\ hello \in Lines /\ hello.cmd = "HELLO" /\ wire[o] \in Seq(Lines)
  BY <1>2, LineTypes DEF Typed
<1>8. /\ member'[n] = TRUE /\ member'[o] = member[o]
  BY <1>1, <1>2 DEF Typed
<1>9. ~Together(Caller)
  BY <1>2, <1>5, Pair DEF Together
<1>10. /\ None(events[Caller], "JOINED") /\ Owned(Caller) = {} /\ Silent
  BY <1>9 DEF Ones, OneCall
<1>11. \/ events' = events
       \/ /\ events' = [m \in Nodes |-> Append(events[m], Line("JOINED"))]
          /\ Together(Caller)'
  <2>1. CASE member[o]
    <3>1. member'[n] /\ member'[o] /\ Other(Caller) \in {n, o} /\ Caller \in {n, o}
      BY <1>2, <1>8, <2>1, Pair
    <3>2. Together(Caller)'
      BY <3>1 DEF Together
    <3> QED
      BY <2>1, <3>2 DEF RelayJoin
  <2>2. CASE ~member[o]
    BY <2>2 DEF RelayJoin
  <2> QED
    BY <2>1, <2>2
<1> HIDE DEF o, hello
<1>12. /\ Eases(wire[n], wire'[n], "OFFER") /\ Eases(wire[n], wire'[n], "JOIN")
       /\ Eases(wire[o], wire'[o], "OFFER") /\ Eases(wire[o], wire'[o], "JOIN")
       /\ None(wire'[n], "JOIN")
  <2>1. /\ Eases(wire[n], Tail(wire[n]), "OFFER") /\ Eases(wire[n], Tail(wire[n]), "JOIN")
        /\ None(Tail(wire[n]), "JOIN")
    BY <1>1, <1>4, Shorter DEF Eases
  <2>2. ASSUME NEW c \in {"OFFER", "JOIN"}
        PROVE  Eases(wire[o], Append(wire[o], hello), c)
    BY <1>7, Longer DEF Eases
  <2>3. \A c : Eases(wire[o], wire[o], c)
    BY SameEases
  <2> QED
    BY <1>6, <2>1, <2>2, <2>3
<1>13. Calm'
  <2>1. ASSUME NEW k \in Nodes
        PROVE  /\ Once(wire'[k], "JOIN")
               /\ ~inRoom[k] \/ member'[k] => None(wire'[k], "JOIN")
               /\ member'[k] => inRoom[k]
    <3>1. CASE k = n
      BY <1>4, <1>5, <1>12, <3>1 DEF Eases
    <3>2. CASE k # n
      BY <1>2, <1>8, <1>12, <3>2 DEF Eases, Ones, Calm
    <3> QED
      BY <3>1, <3>2
  <2> QED
    BY <1>1, <2>1 DEF Ones, Calm
<1>14. /\ Eases(events[Caller], events'[Caller], "OFFER")
       /\ Eases(events[Callee], events'[Callee], "OFFER")
       /\ None(events[Caller], "JOINED") => Once(events'[Caller], "JOINED")
  <2>1. CASE events' = events
    BY <2>1, SameEases DEF None, Once
  <2>2. CASE events' = [m \in Nodes |-> Append(events[m], Line("JOINED"))]
    <3>1. PICK e : e = Line("JOINED")
      OBVIOUS
    <3>2. e \in Reports /\ e.cmd = "JOINED"
      BY <3>1, LineTypes
    <3>3. /\ events'[Caller] = Append(events[Caller], e) /\ events[Caller] \in Seq(Reports)
          /\ events'[Callee] = Append(events[Callee], e)
      BY <1>2, <2>2, <3>1 DEF Typed
    <3>4. /\ Eases(events[Caller], events'[Caller], "OFFER")
          /\ Eases(events[Callee], events'[Callee], "OFFER")
      BY <1>2, <3>2, <3>3, ReportedEases
    <3>5. None(events[Caller], "JOINED") => Once(events'[Caller], "JOINED")
      BY <3>2, <3>3, Longer
    <3> QED
      BY <3>4, <3>5
  <2> QED
    BY <1>11, <2>1, <2>2
<1>15. \A k \in Nodes : Eases(wire[k], wire'[k], "OFFER")
  BY <1>2, <1>12
<1>16. OneWay'
  BY <1>1, <1>2, <1>14, <1>15, OneWayKept DEF Ones, OneWay
<1>17. OneAnswer'
  BY <1>2, <1>3, <1>14, <1>15, OneAnswerKept DEF Ones
<1>18. OneCall'
  <2>1. Silent'
    BY <1>2, <1>3, <1>10, <1>14, <1>15 DEF Silent, Eases
  <2>2. Owned(Caller)' = {} /\ Once(events'[Caller], "JOINED")
    BY <1>2, <1>3, <1>10, <1>14
  <2>3. ~Together(Caller)' => None(events'[Caller], "JOINED")
    BY <1>10, <1>11
  <2> QED
    BY <2>1, <2>2, <2>3 DEF OneCall
<1> QED
  BY <1>13, <1>16, <1>17, <1>18 DEF Ones

LEMMA EnterOnes ==
    ASSUME Typed, Ones, NEW n \in Nodes, Enter(n)
    PROVE  Ones'
<1>1. /\ ~inRoom[n] /\ loop[n] = Idle /\ Forgets(n) /\ Sends(n, <<Line("JOIN")>>)
      /\ inRoom' = [inRoom EXCEPT ![n] = TRUE]
      /\ UNCHANGED <<member, moved, events, redials, loop>>
  BY DEF Enter, tasks, bounds
<1>2. PICK m : m = Line("JOIN")
  OBVIOUS
<1>3. m \in Lines /\ m.cmd = "JOIN" /\ wire[n] \in Seq(Lines)
  BY <1>2, LineTypes DEF Typed
<1>4. wire'[n] = Append(wire[n], m) /\ \A k \in Nodes \ {n} : wire'[k] = wire[k]
  BY <1>1, <1>2, <1>3, Sending DEF Typed
<1>5. \A k \in Nodes : Eases(wire[k], wire'[k], "OFFER")
  BY <1>1, <1>2, <1>3, SentEases
<1>6. \A k \in Nodes : Owned(k)' = Owned(k)
  BY <1>1, ClosedIs, OwnedKept DEF Forgets
<1>7. Calm'
  <2>1. ASSUME NEW k \in Nodes
        PROVE  /\ Once(wire'[k], "JOIN")
               /\ ~inRoom'[k] \/ member[k] => None(wire'[k], "JOIN")
               /\ member[k] => inRoom'[k]
    <3>1. CASE k = n
      <4>1. None(wire[n], "JOIN") /\ ~member[n]
        BY <1>1 DEF Ones, Calm
      <4>2. Once(wire'[n], "JOIN")
        BY <1>3, <1>4, <4>1, Longer
      <4> QED
        BY <1>1, <3>1, <4>1, <4>2 DEF Typed
    <3>2. CASE k # n
      BY <1>1, <1>4, <3>2 DEF Ones, Calm, Typed
    <3> QED
      BY <3>1, <3>2
  <2> QED
    BY <1>1, <2>1 DEF Ones, Calm
<1>8. OneWay'
  BY <1>1, <1>5, Pair, SameEases, OneWayKept DEF Ones, OneWay
<1>9. Together(Caller)' <=> Together(Caller)
  BY <1>1 DEF Together
<1>10. OneCall'
  BY <1>1, <1>5, <1>6, <1>9, Pair, SameEases, OneCallKept DEF Ones
<1>11. OneAnswer'
  BY <1>1, <1>5, <1>6, Pair, SameEases, OneAnswerKept DEF Ones
<1> QED
  BY <1>7, <1>8, <1>10, <1>11 DEF Ones

LEMMA JoinedOnes ==
    ASSUME Typed, Ones, NEW n \in Nodes, HandleJoined(n), mishaps' = mishaps
    PROVE  Ones'
<1>1. /\ loop[n] = Idle /\ events[n] # <<>> /\ Head(events[n]).cmd = "JOINED"
      /\ events' = [events EXCEPT ![n] = Tail(@)] /\ events[n] \in Seq(Reports)
      /\ UNCHANGED <<inRoom, member, wire, moved, redials, peer>>
  BY DEF HandleJoined, Handles, Done, rooms, Typed
<1>2. \A k \in Nodes : Eases(events[k], events'[k], "JOINED") /\ Eases(events[k], events'[k], "OFFER")
  BY <1>1, HandledEases
<1>3. CASE n # Caller
  <2>1. UNCHANGED <<loop, conn>>
    BY <1>3 DEF HandleJoined, MayCall
  <2>2. \A k \in Nodes : Owned(k)' = Owned(k)
    BY <2>1 DEF Owned, Created
  <2> QED
    BY <1>1, <1>2, <2>1, <2>2, SameEases, OrdinaryKeeps DEF Ordinary
<1>4. CASE n = Caller
  <2>1. Creates(Caller, "offer", NoConn)
    BY <1>4 DEF HandleJoined, MayCall
  <2>2. /\ Owned(Caller)' = Owned(Caller) \cup {Len(conn) + 1}
        /\ Owned(Callee)' = Owned(Callee) /\ loop'[Callee] = loop[Callee]
        /\ loop'[Caller].at = "offer"
    BY <2>1, Pair, OwnedGrown
  <2>3. ~None(events[Caller], "JOINED") /\ Once(events[Caller], "JOINED")
    BY <1>1, <1>4, Shorter DEF Ones, OneCall
  <2>4. Owned(Caller) = {} /\ Together(Caller) /\ Silent
    BY <2>3 DEF Ones, OneCall
  <2>5. None(events'[Caller], "JOINED") /\ Once(events'[Caller], "JOINED")
    <3>1. events'[Caller] = Tail(events[Caller])
      BY <1>1, <1>4, Pair DEF Typed
    <3> QED
      BY <1>1, <1>4, <2>3, <3>1, Shorter
  <2>6. Silent'
    BY <1>1, <1>2, <2>2, <2>4, Pair DEF Silent, Eases
  <2>7. Together(Caller)'
    BY <1>1, <2>4 DEF Together
  <2>8. OneCall'
    BY <2>2, <2>4, <2>5, <2>6, <2>7 DEF OneCall
  <2>9. \A k \in Nodes : loop'[k].at # "backoff"
    BY <2>2, Pair DEF Ones, Calm, Nodes
  <2>10. Calm'
    BY <1>1, <2>9, SameEases, CalmKept DEF Ones
  <2>11. OneWay'
    BY <1>1, <1>2, <2>2, Pair, SameEases, OneWayKept DEF Ones, OneWay
  <2>12. OneAnswer'
    BY <1>1, <1>2, <2>2, Pair, SameEases, OneAnswerKept DEF Ones
  <2> QED
    BY <2>8, <2>10, <2>11, <2>12 DEF Ones
<1> QED
  BY <1>3, <1>4

LEMMA OfferOnes ==
    ASSUME Typed, Ones, NEW n \in Nodes, HandleOffer(n), mishaps' = mishaps
    PROVE  Ones'
<1>1. /\ loop[n] = Idle /\ events[n] # <<>> /\ Head(events[n]).cmd = "OFFER"
      /\ events' = [events EXCEPT ![n] = Tail(@)] /\ events[n] \in Seq(Reports)
      /\ Creates(n, "answer", Head(events[n]).from)
      /\ UNCHANGED <<inRoom, member, wire, moved, redials, peer>>
  BY DEF HandleOffer, Handles, Done, rooms, Typed
<1>2. \A k \in Nodes : Eases(events[k], events'[k], "JOINED") /\ Eases(events[k], events'[k], "OFFER")
  BY <1>1, HandledEases
<1>3. ~None(events[n], "OFFER")
  BY <1>1, Shorter
<1>4. n = Callee
  BY <1>3 DEF Ones, OneWay, Nodes
<1>5. PICK r : r = Head(events[n]).from
  OBVIOUS
<1>6. r \in Conns
  BY <1>1, <1>5, Handling, LineTypes
<1>7. /\ Owned(Callee)' = Owned(Callee) \cup {Len(conn) + 1}
      /\ Owned(Caller)' = Owned(Caller) /\ loop'[Caller] = loop[Caller]
      /\ loop'[Callee].at = "answer"
  BY <1>1, <1>4, <1>5, <1>6, Pair, OwnedGrown
<1>8. /\ Owned(Callee) = {} /\ None(wire[Caller], "OFFER") /\ Once(events[Callee], "OFFER")
      /\ Owned(Caller) # {} /\ loop[Caller].at # "offer"
  BY <1>3, <1>4 DEF Ones, OneAnswer, OneCall, Silent
<1>9. None(events'[Callee], "OFFER") /\ Once(events'[Callee], "OFFER")
  <2>1. events'[Callee] = Tail(events[Callee])
    BY <1>1, <1>4, Pair DEF Typed
  <2> QED
    BY <1>1, <1>4, <1>8, <2>1, Shorter
<1>10. OneAnswer'
  BY <1>1, <1>7, <1>8, <1>9 DEF OneAnswer, Ones
<1>11. Together(Caller)' <=> Together(Caller)
  BY <1>1 DEF Together
<1>12. OneCall'
  BY <1>1, <1>2, <1>7, <1>8, <1>11, Pair DEF OneCall, Ones, Eases
<1>13. \A k \in Nodes : loop'[k].at # "backoff"
  BY <1>7, Pair DEF Ones, Calm, Nodes
<1>14. Calm'
  BY <1>1, <1>13, SameEases, CalmKept DEF Ones
<1>15. OneWay'
  BY <1>1, <1>2, <1>7, Pair, SameEases, OneWayKept DEF Ones, OneWay
<1> QED
  BY <1>10, <1>12, <1>14, <1>15 DEF Ones

LEMMA PlacesOnes ==
    ASSUME Typed, Backed, Ones, NEW n \in Nodes, Places(n)
    PROVE  Ones'
<1>1. PICK m \in Signals : /\ Sends(n, <<m>>)
                           /\ loop[n].at = "offer" => m.cmd = "OFFER"
                           /\ loop[n].at = "answer" => m.cmd = "ANSWER"
  BY PlacesIs
<1>2. /\ loop[n].conn \in Created /\ loop' = [loop EXCEPT ![n] = Idle]
      /\ loop[n].at \in {"offer", "answer"} /\ conn[loop[n].conn].owner = n
      /\ UNCHANGED <<inRoom, member, events, redials, conn, moved>>
  BY PlacesIs DEF Places, Backed, Placing
<1>3. m \in Lines /\ m.cmd \notin {"JOIN"}
  BY <1>1, LineTypes
<1>4. /\ wire'[n] = Append(wire[n], m) /\ \A k \in Nodes \ {n} : wire'[k] = wire[k]
      /\ wire[n] \in Seq(Lines)
  BY <1>1, <1>3, Sending DEF Typed
<1>5. /\ \A k \in Nodes : Eases(wire[k], wire'[k], "JOIN")
      /\ m.cmd # "OFFER" => \A k \in Nodes : Eases(wire[k], wire'[k], "OFFER")
  BY <1>1, <1>3, SentEases
<1>6. \A k \in Nodes : Owned(k)' = Owned(k)
  BY <1>2 DEF Owned, Created
<1>7. \A k \in Nodes : loop'[k] \in {loop[k], Idle}
  BY <1>2 DEF Typed
<1>8. CASE m.cmd # "OFFER"
  BY <1>2, <1>5, <1>6, <1>7, <1>8, SameEases, OrdinaryKeeps DEF Ordinary
<1>9. CASE m.cmd = "OFFER"
  <2>1. loop[n].at = "offer"
    BY <1>1, <1>2, <1>9
  <2>2. n = Caller
    BY <2>1 DEF Ones, OneWay, Nodes
  <2>3. Silent
    BY <2>1, <2>2 DEF Ones, OneCall
  <2>4. Once(wire'[Caller], "OFFER")
    <3>1. None(wire[n], "OFFER")
      BY <2>2, <2>3 DEF Silent
    <3>2. Once(Append(wire[n], m), "OFFER")
      BY <1>3, <1>4, <3>1, Longer
    <3> QED
      BY <1>4, <2>2, <3>2
  <2>5. OneAnswer'
    BY <1>2, <1>6, <2>3, <2>4, Pair DEF Ones, OneAnswer, Silent
  <2>6. Owned(Caller) # {} /\ loop'[Caller].at # "offer"
    BY <1>2, <2>2, Pair, StepTypes DEF Owned, Typed
  <2>7. Together(Caller)' <=> Together(Caller)
    BY <1>2 DEF Together
  <2>8. OneCall'
    BY <1>2, <1>6, <2>6, <2>7, Pair DEF Ones, OneCall
  <2>9. \A k \in Nodes : loop'[k].at \in {loop[k].at, "idle"}
    BY <1>7, StepTypes
  <2>10. Calm'
    BY <1>2, <1>5, <2>9, CalmKept DEF Ones, Calm
  <2>11. OneWay'
    <3>1. Eases(wire[Callee], wire'[Callee], "OFFER")
      BY <1>4, <2>2, Pair, SameEases
    <3> QED
      BY <1>2, <2>9, <3>1, Pair, SameEases, OneWayKept DEF Ones, OneWay
  <2> QED
    BY <2>5, <2>8, <2>10, <2>11 DEF Ones
<1> QED
  BY <1>8, <1>9

LEMMA OtherOnes ==
    ASSUME Typed, Ones, NEW n \in Nodes,
           HandleLeft(n) \/ HandleAnswer(n) \/ HandleCandidate(n) \/ Announce(n)
    PROVE  Ones'
<1>1. UNCHANGED <<inRoom, member, moved, redials, loop>>
  BY DEF HandleLeft, HandleAnswer, HandleCandidate, Announce, rooms, tasks, bounds
<1>2. \A k \in Nodes : Owned(k)' = Owned(k)
  <2>1. CASE HandleLeft(n)
    BY <2>1, ClosedIs, OwnedKept DEF HandleLeft, Forgets
  <2>2. CASE HandleAnswer(n) \/ HandleCandidate(n)
    BY <2>2, AnswerSets, CandidateSets, OwnedKept
  <2>3. CASE Announce(n)
    BY <2>3 DEF Announce, Owned, Created
  <2> QED
    BY <2>1, <2>2, <2>3
<1>3. \A k \in Nodes : Eases(events[k], events'[k], "JOINED") /\ Eases(events[k], events'[k], "OFFER")
  <2>1. CASE Announce(n)
    BY <2>1, SameEases DEF Announce, tasks
  <2>2. CASE HandleLeft(n) \/ HandleAnswer(n) \/ HandleCandidate(n)
    <3>1. events[n] # <<>> /\ events' = [events EXCEPT ![n] = Tail(@)]
      BY <2>2 DEF HandleLeft, HandleAnswer, HandleCandidate, Handles, Done
    <3> QED
      BY <3>1, HandledEases
  <2> QED
    BY <2>1, <2>2
<1>4. \A k \in Nodes : Eases(wire[k], wire'[k], "JOIN") /\ Eases(wire[k], wire'[k], "OFFER")
  <2>1. CASE Announce(n)
    BY <2>1, LineTypes, SentEases DEF Announce
  <2>2. CASE HandleLeft(n) \/ HandleAnswer(n) \/ HandleCandidate(n)
    BY <2>2, SameEases DEF HandleLeft, HandleAnswer, HandleCandidate
  <2> QED
    BY <2>1, <2>2
<1> QED
  BY <1>1, <1>2, <1>3, <1>4, OrdinaryKeeps DEF Ordinary

LEMMA ConnOnes ==
    ASSUME Typed, Ones, NEW c \in Created, Gathers(c) \/ ConnUp(c)
    PROVE  Ones'
<1>1. UNCHANGED <<inRoom, member, events, moved, redials, loop>>
  BY DEF Gathers, ConnUp, rooms, tasks, bounds
<1>2. \A k \in Nodes : Owned(k)' = Owned(k)
  BY CallbackSets, OwnedKept
<1>3. \A k \in Nodes : Eases(wire[k], wire'[k], "JOIN") /\ Eases(wire[k], wire'[k], "OFFER")
  <2>1. CASE Gathers(c)
    <3>1. PICK m : m = [cmd |-> "CANDIDATE", from |-> c]
      OBVIOUS
    <3>2. m \in Lines /\ m.cmd = "CANDIDATE"
      BY <3>1, LineTypes, ConnIs
    <3>3. conn[c].owner \in Nodes /\ Sends(conn[c].owner, <<m>>)
      BY <2>1, <3>1, ConnIs DEF Gathers
    <3> QED
      BY <3>2, <3>3, SentEases
  <2>2. CASE ConnUp(c)
    BY <2>2, SameEases DEF ConnUp
  <2> QED
    BY <2>1, <2>2
<1> QED
  BY <1>1, <1>2, <1>3, SameEases, OrdinaryKeeps DEF Ordinary

LEMMA SingleKept ==
    ASSUME Typed, Backed, Present, Single, Typed', Next
    PROVE  Single'
<1> SUFFICES ASSUME mishaps' = 0 PROVE Ones'
  BY DEF Single, Ones
<1>1. mishaps = 0 /\ mishaps' = mishaps
  <2>1. mishaps' = mishaps \/ mishaps' = mishaps + 1
    BY PlacesIs DEF Next, Relay, RelayJoin, RelayPart, RelayHello, RelaySignal, Announce, Enter,
                    LeaveRoom, LoopStep, HandleEvent, HandleJoined, HandleLeft, HandleOffer,
                    HandleAnswer, HandleCandidate, HandleReconnect, EndBackoff, Creates, Mishap,
                    Gathers, ConnUp, ConnBreaks, bounds
  <2>2. mishaps \in Nat
    BY DEF Typed
  <2> QED
    BY <2>1, <2>2
<1>2. Ones
  BY <1>1 DEF Single, Ones
<1>3. \A n \in Nodes : ~LeaveRoom(n) /\ ~HandleReconnect(n) /\ ~EndBackoff(n)
  BY <1>1, <1>2 DEF LeaveRoom, Mishap, HandleReconnect, EndBackoff, Ones, Calm
<1>4. \A c \in Created : ~ConnBreaks(c)
  BY <1>1 DEF ConnBreaks, Mishap
<1>5. \A n \in Nodes : ~RelayPart(n)
  <2> SUFFICES ASSUME NEW n \in Nodes, RelayPart(n) PROVE FALSE
    OBVIOUS
  <2>1. wire[n] # <<>> /\ Head(wire[n]).cmd = "PART" /\ wire[n] \in Seq(Lines)
    BY DEF RelayPart, Reads, Typed
  <2>2. None(wire[n], "PART")
    BY <1>2 DEF Present, Ones, Calm
  <2> QED
    BY <2>1, <2>2, Shorter
<1>6. ASSUME NEW n \in Nodes, Relay(n) \/ LoopStep(n)
      PROVE  Ones'
  BY <1>1, <1>2, <1>3, <1>5, <1>6, JoinOnes, RelayOnes, JoinedOnes, OfferOnes, PlacesOnes, OtherOnes
     DEF Relay, LoopStep, HandleEvent
<1>7. ASSUME NEW n \in Nodes, Enter(n) \/ LeaveRoom(n) \/ Announce(n)
      PROVE  Ones'
  BY <1>2, <1>3, <1>7, EnterOnes, OtherOnes
<1>8. ASSUME NEW c \in Created, Gathers(c) \/ ConnUp(c) \/ ConnBreaks(c)
      PROVE  Ones'
  BY <1>2, <1>4, <1>8, ConnOnes
<1> QED
  BY <1>6, <1>7, <1>8 DEF Next

-----------------------------------------------------------------------------
(* The invariant holds. *)

LEMMA InitInv == Init => IInv
<1> SUFFICES ASSUME Init PROVE IInv
  OBVIOUS
<1>1. Created = {} /\ \A n \in Nodes : Owned(n) = {}
  BY DEF Init, Created, Owned
<1>2. \A c : None(<<>>, c) /\ Once(<<>>, c)
  BY DEF None, Once
<1>3. \A b \in BOOLEAN : Ends(<<>>, b, b)
  BY DEF Ends, Moves
<1>4. Present
  BY <1>2, <1>3 DEF Init, Present
<1>5. Single
  BY <1>1, <1>2, Pair, StepTypes DEF Init, Single, Calm, OneWay, OneCall, OneAnswer, Silent
<1> QED
  BY <1>4, <1>5, InitKeeps, QuietInit DEF IInv

LEMMA NextInv == IInv /\ [Next]_vars => IInv'
<1> SUFFICES ASSUME IInv, [Next]_vars PROVE IInv'
  OBVIOUS
<1>1. CASE Next
  <2>1. Typed' /\ Backed'
    BY <1>1, RelayKeeps, UserKeeps, EventKeeps, LoopKeeps, CallbackKeeps DEF IInv, Next, LoopStep
  <2> QED
    BY <1>1, <2>1, PresentKept, QuietKept, SingleKept DEF IInv
<1>2. CASE UNCHANGED vars
  <2>1. UNCHANGED <<inRoom, member, wire, known, events, redials, loop, peer, listed, conn,
                    mishaps, dropped, moved>>
    BY <1>2 DEF vars, rooms, tasks, bounds
  <2>2. Created' = Created /\ \A n \in Nodes : Owned(n)' = Owned(n)
    BY <2>1 DEF Created, Owned
  <2>3. Typed' /\ Backed'
    BY <2>1, <2>2 DEF IInv, Typed, Backed, Placing
  <2>4. Present'
    BY <2>1, PresentUnchanged DEF IInv
  <2>5. Quiet'
    BY <2>1, <2>2 DEF IInv, Quiet, Together, Orphan, LeftLast, Clean
  <2>6. Single'
    <3>1. Ordinary
      BY <2>1, <2>2, SameEases DEF Ordinary
    <3> QED
      BY <2>1, <3>1, OrdinaryKeeps DEF IInv, Single, Ones
  <2> QED
    BY <2>3, <2>4, <2>5, <2>6 DEF IInv
<1> QED
  BY <1>1, <1>2

LEMMA Invariance == Spec => []IInv
  BY InitInv, NextInv, PTL DEF Spec

-----------------------------------------------------------------------------
(* Whatever the number of connections and of mishaps, every variable keeps  *)
(* its type: what a map holds was created, what waits in a queue is a line  *)
(* or report of the program, and no mishap asks for two redials.           *)
THEOREM TypeCorrect == Spec => []TypeOK
<1>1. IInv => TypeOK
  <2> SUFFICES ASSUME IInv PROVE TypeOK
    OBVIOUS
  <2>1. redials \in [Nodes -> 0..MaxMishaps]
    <3>1. /\ redials \in [Nodes -> Nat] /\ mishaps \in 0..MaxMishaps /\ MaxMishaps \in Nat
          /\ redials[Caller] + redials[Callee] <= mishaps
      BY BoundAssumption DEF IInv, Typed, Backed
    <3>2. redials[Caller] \in Nat /\ redials[Callee] \in Nat
      BY <3>1, Pair
    <3>3. redials[Caller] \in 0..MaxMishaps /\ redials[Callee] \in 0..MaxMishaps
      BY <3>1, <3>2
    <3>4. \A n \in Nodes : redials[n] \in 0..MaxMishaps
      BY <3>3 DEF Nodes
    <3> QED
      BY <3>1, <3>4
  <2> QED
    BY <2>1 DEF IInv, Typed, TypeOK, Lines, Reports
<1> QED
  BY <1>1, Invariance, PTL

(* While nothing goes wrong the two clients make one connection each: the   *)
(* tie-break on the nicks leaves one caller, it sees the other join once,   *)
(* and the callee gets one offer.                                          *)
THEOREM NoGlare == Spec => []OneConnectionEach
<1>1. IInv => OneConnectionEach
  <2> SUFFICES ASSUME IInv, mishaps = 0, NEW n \in Nodes
               PROVE  Cardinality(Owned(n)) <= 1
    BY DEF OneConnectionEach
  <2>1. \A c, d \in Owned(n) : c = d
    BY DEF IInv, Single, OneCall, OneAnswer, Nodes
  <2>2. CASE Owned(n) = {}
    BY <2>2, FS_EmptySet
  <2>3. CASE Owned(n) # {}
    <3>1. PICK c : Owned(n) = {c}
      BY <2>1, <2>3
    <3> QED
      BY <3>1, FS_Singleton
  <2> QED
    BY <2>2, <2>3
<1> QED
  BY <1>1, Invariance, PTL

(* However many departures, failures and redials there were, a client that  *)
(* stayed ends with no call to a peer that left, unless one of its          *)
(* connections went astray.                                                *)
THEOREM DepartedForgotten == Spec => []NoCallWithTheDeparted
<1>1. IInv => NoCallWithTheDeparted
  <2> SUFFICES ASSUME IInv, NEW n \in Nodes \ moved, Settled, inRoom[n], ~inRoom[Other(n)],
                      ~Orphan(n)
               PROVE  peer[n] = NoConn /\ ~listed[n]
    BY DEF NoCallWithTheDeparted
  <2>1. Other(n) \in Nodes
    BY Pair
  <2>2. wire[Other(n)] = <<>> /\ events[n] = <<>>
    BY <2>1 DEF Settled
  <2>3. Moves(wire[Other(n)]) = {}
    BY <2>2 DEF Moves
  <2>4. ~member[Other(n)]
    BY <2>1, <2>3 DEF IInv, Present, Ends
  <2> QED
    BY <2>2, <2>4 DEF IInv, Quiet, Together, LeftLast, Clean
<1> QED
  BY <1>1, Invariance, PTL

(* The key goes with the peer: a client that stayed knows no key of a peer  *)
(* with which it is not, as the server sees it, in the room.               *)
NoKeyOfTheDeparted == \A n \in Nodes \ moved : ~Together(n) => ~known[n]

(* The reader of irc_client.rs forgets a key when the server reports a      *)
(* departure, and nothing brings it back before the peer does.             *)
THEOREM KeyForgotten == Spec => []NoKeyOfTheDeparted
<1>1. IInv => NoKeyOfTheDeparted
  BY DEF IInv, Quiet, NoKeyOfTheDeparted
<1> QED
  BY <1>1, Invariance, PTL
=============================================================================
