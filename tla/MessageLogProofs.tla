-------------------------- MODULE MessageLogProofs ---------------------------
(***************************************************************************)
(* Theorems about MessageLog, for every number of clients and messages,    *)
(* every clock and any limit on a line.                                    *)
(***************************************************************************)
EXTENDS MessageLog, SequenceTheorems, WellFoundedInduction, TLAPS

-----------------------------------------------------------------------------
(* The messages of a log that are in a set: an induction over the numbers,  *)
(* from the well-foundedness of <.                                         *)

LEMMA SetInduction ==
    ASSUME NEW S \in SUBSET Nat, 0 \in S, \A n \in S : n + 1 \in S
    PROVE  S = Nat
<1> DEFINE R == OpToRel(<, Nat)
<1>1. IsWellFoundedOn(R, Nat)
  BY NatLessThanWellFounded
<1> HIDE DEF R
<1>2. PICK U \in SUBSET Nat : U = Nat \ S
  OBVIOUS
<1>3. ASSUME U # {}
      PROVE  FALSE
  <2>1. PICK x \in U : \A y \in U : ~ (<<y, x>> \in R)
    BY <1>1, <1>3, WFMin
  <2>2. x \in Nat /\ x # 0 /\ x \notin S
    BY <1>2
  <2>3. x - 1 \in Nat /\ x - 1 < x /\ (x - 1) + 1 = x
    BY <2>2
  <2>4. <<x - 1, x>> \in R
    BY <2>2, <2>3 DEF R, OpToRel
  <2>5. x - 1 \in S
    BY <1>2, <2>1, <2>3, <2>4
  <2> QED
    BY <2>2, <2>3, <2>5
<1> QED
  BY <1>2, <1>3

(* f runs through the first n messages. *)
Runs(f, ms, S, n) ==
    f = [i \in 0..n |-> IF i = 0 THEN <<>>
                        ELSE IF ms[i] \in S THEN Append(f[i - 1], ms[i]) ELSE f[i - 1]]

LEMMA OneCanRun ==
    ASSUME NEW ms, NEW S, NEW n \in Nat
    PROVE  \E f : Runs(f, ms, S, n)
<1>1. PICK G \in SUBSET Nat : G = {k \in Nat : \E f : Runs(f, ms, S, k)}
  OBVIOUS
<1>2. 0 \in G
  <2>1. PICK f : f = [i \in 0..0 |-> <<>>]
    OBVIOUS
  <2>2. Runs(f, ms, S, 0)
    BY <2>1 DEF Runs
  <2> QED
    BY <1>1, <2>2
<1>3. ASSUME NEW k \in G
      PROVE  k + 1 \in G
  <2>1. k \in Nat
    OBVIOUS
  <2>2. PICK f : Runs(f, ms, S, k)
    BY <1>1
  <2>3. PICK v : v = IF ms[k + 1] \in S THEN Append(f[k], ms[k + 1]) ELSE f[k]
    OBVIOUS
  <2>4. PICK g : g = [i \in 0..k + 1 |-> IF i = k + 1 THEN v ELSE f[i]]
    OBVIOUS
  <2>5. /\ DOMAIN g = 0..k + 1 /\ g[k + 1] = v /\ \A i \in 0..k : g[i] = f[i]
    BY <2>1, <2>4
  <2>6. \A i \in 0..k : f[i] = IF i = 0 THEN <<>>
                              ELSE IF ms[i] \in S THEN Append(f[i - 1], ms[i]) ELSE f[i - 1]
    BY <2>2 DEF Runs
  <2>7. ASSUME NEW i \in 0..k + 1
        PROVE  g[i] = IF i = 0 THEN <<>>
                      ELSE IF ms[i] \in S THEN Append(g[i - 1], ms[i]) ELSE g[i - 1]
    <3>1. CASE i = k + 1
      <4>1. k \in 0..k /\ i # 0 /\ i - 1 = k
        BY <2>1, <3>1
      <4>2. g[i - 1] = f[k]
        BY <2>5, <4>1
      <4> QED
        BY <2>3, <2>5, <3>1, <4>1, <4>2
    <3>2. CASE i # k + 1
      <4>1. i \in 0..k /\ (i # 0 => i - 1 \in 0..k)
        BY <2>1, <3>2
      <4> QED
        BY <2>5, <2>6, <4>1
    <3> QED
      BY <3>1, <3>2
  <2>8. Runs(g, ms, S, k + 1)
    BY <2>4, <2>7 DEF Runs
  <2> QED
    BY <1>1, <2>1, <2>8
<1>4. G = Nat
  BY <1>2, <1>3, SetInduction
<1> QED
  BY <1>1, <1>4

LEMMA ThoseRun ==
    ASSUME NEW ms, NEW S, Len(ms) \in Nat
    PROVE  \E f : Runs(f, ms, S, Len(ms)) /\ Those(ms, S) = f[Len(ms)]
<1>1. PICK f : f = CHOOSE g : Runs(g, ms, S, Len(ms))
  OBVIOUS
<1>2. Runs(f, ms, S, Len(ms))
  BY <1>1, OneCanRun
<1>3. Those(ms, S) = f[Len(ms)]
  BY <1>1 DEF Those, Runs
<1> QED
  BY <1>2, <1>3

(* A log in order, each message once. *)
Ordered(ms) ==
    \A i, j \in DOMAIN ms :
        i < j => ms[i].timestamp <= ms[j].timestamp /\ ms[i].id # ms[j].id

(* What the run has when it is through with the first i messages. *)
Picked(g, T, ms, S, i) ==
    /\ g \in Seq(T)
    /\ \A j \in DOMAIN g : g[j] \in S /\ \E k \in 1..i : g[j] = ms[k]
    /\ Ordered(ms) => Ordered(g)

LEMMA ThoseAre ==
    ASSUME NEW T, NEW ms \in Seq(T), NEW S
    PROVE  Picked(Those(ms, S), T, ms, S, Len(ms))
<1>1. Len(ms) \in Nat /\ DOMAIN ms = 1..Len(ms) /\ \A i \in 1..Len(ms) : ms[i] \in T
  OBVIOUS
<1>2. PICK f : Runs(f, ms, S, Len(ms)) /\ Those(ms, S) = f[Len(ms)]
  BY <1>1, ThoseRun
<1>3. PICK G \in SUBSET Nat : G = {i \in Nat : i <= Len(ms) => Picked(f[i], T, ms, S, i)}
  OBVIOUS
<1>4. 0 \in G
  <2>1. f[0] = <<>>
    BY <1>1, <1>2 DEF Runs
  <2>2. Picked(<<>>, T, ms, S, 0)
    BY DEF Picked, Ordered
  <2> QED
    BY <1>3, <2>1, <2>2
<1>5. ASSUME NEW i \in G
      PROVE  i + 1 \in G
  <2> SUFFICES ASSUME i + 1 <= Len(ms)
               PROVE  Picked(f[i + 1], T, ms, S, i + 1)
    BY <1>3
  <2>1. i \in Nat /\ i <= Len(ms) /\ i + 1 \in 1..Len(ms)
    BY <1>1
  <2>2. PICK g : g = f[i]
    OBVIOUS
  <2>3. Picked(g, T, ms, S, i)
    BY <1>3, <2>1, <2>2
  <2>4. f[i + 1] = IF ms[i + 1] \in S THEN Append(g, ms[i + 1]) ELSE g
    <3>1. i + 1 \in 0..Len(ms) /\ i + 1 # 0 /\ (i + 1) - 1 = i
      BY <1>1, <2>1
    <3>2. f[i + 1] = IF i + 1 = 0 THEN <<>>
                     ELSE IF ms[i + 1] \in S THEN Append(f[(i + 1) - 1], ms[i + 1]) ELSE f[(i + 1) - 1]
      BY <1>2, <3>1 DEF Runs
    <3> QED
      BY <2>2, <3>1, <3>2
  <2>5. /\ g \in Seq(T)
        /\ \A j \in DOMAIN g : g[j] \in S /\ \E k \in 1..i : g[j] = ms[k]
        /\ Ordered(ms) => Ordered(g)
    BY <2>3 DEF Picked
  <2>6. 1..i \subseteq 1..i + 1 /\ i + 1 \in 1..i + 1
    BY <2>1
  <2>7. CASE ms[i + 1] \notin S
    BY <2>4, <2>5, <2>6, <2>7 DEF Picked
  <2>8. CASE ms[i + 1] \in S
    <3>1. PICK m \in T : m = ms[i + 1]
      BY <1>1, <2>1
    <3>2. PICK h : h = Append(g, m)
      OBVIOUS
    <3>3. /\ h \in Seq(T) /\ DOMAIN h = 1..Len(g) + 1 /\ Len(g) \in Nat /\ DOMAIN g = 1..Len(g)
          /\ \A j \in 1..Len(g) : h[j] = g[j]
          /\ h[Len(g) + 1] = m
      BY <2>5, <3>1, <3>2, AppendProperties
    <3>4. ASSUME NEW j \in DOMAIN h
          PROVE  (j \in DOMAIN g /\ h[j] = g[j]) \/ (j = Len(g) + 1 /\ h[j] = m)
      BY <3>3
    <3>5. \A j \in DOMAIN h : h[j] \in S /\ \E k \in 1..i + 1 : h[j] = ms[k]
      BY <2>5, <2>6, <2>8, <3>1, <3>4
    <3>6. ASSUME Ordered(ms)
          PROVE  Ordered(h)
      <4>1. ASSUME NEW j \in DOMAIN g
            PROVE  g[j].timestamp <= m.timestamp /\ g[j].id # m.id
        <5>1. PICK k \in 1..i : g[j] = ms[k]
          BY <2>5
        <5>2. k \in DOMAIN ms /\ i + 1 \in DOMAIN ms /\ k < i + 1
          BY <1>1, <2>1
        <5> QED
          BY <3>1, <3>6, <5>1, <5>2 DEF Ordered
      <4>2. Ordered(g)
        BY <2>5, <3>6
      <4>3. ASSUME NEW j \in DOMAIN h, NEW k \in DOMAIN h, j < k
            PROVE  h[j].timestamp <= h[k].timestamp /\ h[j].id # h[k].id
        <5>1. j \in DOMAIN g /\ h[j] = g[j]
          BY <3>3, <4>3
        <5>2. CASE k \in DOMAIN g /\ h[k] = g[k]
          BY <4>2, <4>3, <5>1, <5>2 DEF Ordered
        <5>3. CASE h[k] = m
          BY <4>1, <5>1, <5>3
        <5> QED
          BY <3>4, <5>2, <5>3
      <4> QED
        BY <4>3 DEF Ordered
    <3>7. Picked(h, T, ms, S, i + 1)
      BY <3>3, <3>5, <3>6 DEF Picked
    <3> QED
      BY <2>4, <2>8, <3>1, <3>2, <3>7
  <2> QED
    BY <2>7, <2>8
<1>6. G = Nat
  BY <1>4, <1>5, SetInduction
<1> QED
  BY <1>1, <1>2, <1>3, <1>6

LEMMA LaterIs ==
    ASSUME NEW ms, NEW t
    PROVE  /\ \A m \in Later(ms, t) : m.timestamp > t
           /\ \A m \in ToSet(ms) \ Later(ms, t) : ~(m.timestamp > t)
  BY DEF Later

(* What is inserted is in its place, in a log in order. *)
LEMMA SortedIs ==
    ASSUME NEW ms \in Seq(SignedMessage), NEW m \in SignedMessage
    PROVE  /\ Sorted(ms, m) \in Seq(SignedMessage)
           /\ ToSet(Sorted(ms, m)) \subseteq ToSet(ms) \cup {m}
           /\ Ordered(ms) /\ (\A i \in DOMAIN ms : ms[i].id # m.id) => Ordered(Sorted(ms, m))
<1>1. PICK T : T = SignedMessage
  OBVIOUS
<1>2. \A x \in T : x.timestamp \in Nat
  BY <1>1, BoundAssumption DEF SignedMessage
<1>3. PICK late : late = Later(ms, m.timestamp)
  OBVIOUS
<1>4. PICK early : early = ToSet(ms) \ late
  OBVIOUS
<1>5. PICK a : a = Those(ms, early)
  OBVIOUS
<1>6. PICK b : b = Those(ms, late)
  OBVIOUS
<1>7. Picked(a, T, ms, early, Len(ms)) /\ Picked(b, T, ms, late, Len(ms))
  BY <1>1, <1>5, <1>6, ThoseAre
<1>8. a \in Seq(T) /\ b \in Seq(T) /\ DOMAIN ms = 1..Len(ms)
  BY <1>1, <1>7 DEF Picked
<1>9. \A i \in DOMAIN a : a[i] \in early /\ \E k \in DOMAIN ms : a[i] = ms[k]
  BY <1>7, <1>8 DEF Picked
<1>10. \A i \in DOMAIN b : b[i] \in late /\ \E k \in DOMAIN ms : b[i] = ms[k]
  BY <1>7, <1>8 DEF Picked
<1>11. PICK v : v = Sorted(ms, m)
  OBVIOUS
<1>12. PICK u : u = a \o <<m>>
  OBVIOUS
<1>13. v = u \o b
  BY <1>3, <1>4, <1>5, <1>6, <1>11, <1>12 DEF Sorted, Since
<1>14. /\ Len(a) \in Nat /\ u \in Seq(T) /\ Len(u) = Len(a) + 1 /\ u[Len(a) + 1] = m
       /\ \A i \in 1..Len(a) : u[i] = a[i]
  <2>1. u = Append(a, m)
    BY <1>1, <1>8, <1>12, AppendIsConcat
  <2> QED
    BY <1>1, <1>8, <2>1, AppendProperties
<1>15. /\ v \in Seq(T) /\ Len(v) = Len(u) + Len(b) /\ Len(b) \in Nat
       /\ \A i \in 1..Len(u) + Len(b) : v[i] = IF i <= Len(u) THEN u[i] ELSE b[i - Len(u)]
  <2>1. /\ u \o b \in Seq(T) /\ Len(u \o b) = Len(u) + Len(b)
        /\ \A i \in 1..Len(u) + Len(b) : (u \o b)[i] = IF i <= Len(u) THEN u[i] ELSE b[i - Len(u)]
    BY <1>8, <1>14, ConcatProperties
  <2> QED
    BY <1>8, <1>13, <2>1
<1>16. DOMAIN a = 1..Len(a) /\ DOMAIN b = 1..Len(b) /\ DOMAIN v = 1..Len(a) + 1 + Len(b)
  BY <1>8, <1>14, <1>15
<1>17. ASSUME NEW i \in DOMAIN v
       PROVE  \/ i \in DOMAIN a /\ v[i] = a[i]
              \/ i = Len(a) + 1 /\ v[i] = m
              \/ i > Len(a) + 1 /\ i - (Len(a) + 1) \in DOMAIN b /\ v[i] = b[i - (Len(a) + 1)]
  <2>1. CASE i <= Len(a)
    BY <1>14, <1>15, <1>16, <2>1
  <2>2. CASE i = Len(a) + 1
    BY <1>14, <1>15, <1>16, <2>2
  <2>3. CASE i > Len(a) + 1
    BY <1>14, <1>15, <1>16, <2>3
  <2> QED
    BY <1>14, <1>16, <2>1, <2>2, <2>3
<1>18. ToSet(v) \subseteq ToSet(ms) \cup {m}
  BY <1>9, <1>10, <1>17 DEF ToSet
<1>19. ASSUME Ordered(ms), \A i \in DOMAIN ms : ms[i].id # m.id
       PROVE  Ordered(v)
  <2>1. Ordered(a) /\ Ordered(b)
    BY <1>7, <1>19 DEF Picked
  <2>2. /\ \A x \in late : x.timestamp > m.timestamp
        /\ \A x \in early : ~(x.timestamp > m.timestamp)
    BY <1>3, <1>4, LaterIs
  <2>3. m.timestamp \in Nat /\ \A k \in DOMAIN ms : ms[k].timestamp \in Nat
    BY <1>1, <1>2
  <2>4. ASSUME NEW i \in DOMAIN a
        PROVE  a[i].timestamp <= m.timestamp /\ a[i].id # m.id
    <3>1. PICK k \in DOMAIN ms : a[i] = ms[k]
      BY <1>9
    <3> QED
      BY <1>9, <1>19, <2>2, <2>3, <3>1
  <2>5. ASSUME NEW i \in DOMAIN b
        PROVE  m.timestamp < b[i].timestamp /\ b[i].id # m.id
    <3>1. PICK k \in DOMAIN ms : b[i] = ms[k]
      BY <1>10
    <3> QED
      BY <1>10, <1>19, <2>2, <2>3, <3>1
  <2>6. ASSUME NEW i \in DOMAIN a, NEW j \in DOMAIN b
        PROVE  a[i].timestamp <= b[j].timestamp /\ a[i].id # b[j].id
    <3>1. PICK k \in DOMAIN ms : a[i] = ms[k]
      BY <1>9
    <3>2. PICK l \in DOMAIN ms : b[j] = ms[l]
      BY <1>10
    <3>3. ms[k].timestamp <= m.timestamp /\ m.timestamp < ms[l].timestamp
      BY <2>4, <2>5, <3>1, <3>2
    <3>4. ms[k].timestamp < ms[l].timestamp
      BY <2>3, <3>3
    <3>5. k \in Nat /\ l \in Nat /\ k # l
      BY <1>8, <2>3, <3>4
    <3>6. ms[k].id # ms[l].id
      BY <1>19, <3>5 DEF Ordered
    <3> QED
      BY <2>3, <3>1, <3>2, <3>4, <3>6
  <2>7. ASSUME NEW i \in DOMAIN v, NEW j \in DOMAIN v, i < j
        PROVE  v[i].timestamp <= v[j].timestamp /\ v[i].id # v[j].id
    <3>1. i \in Nat /\ j \in Nat
      BY <1>16
    <3>2. CASE i \in DOMAIN a /\ v[i] = a[i]
      <4>1. CASE j \in DOMAIN a /\ v[j] = a[j]
        BY <2>1, <2>7, <3>2, <4>1 DEF Ordered
      <4>2. CASE v[j] = m
        BY <2>4, <3>2, <4>2
      <4>3. CASE j - (Len(a) + 1) \in DOMAIN b /\ v[j] = b[j - (Len(a) + 1)]
        BY <2>6, <3>2, <4>3
      <4> QED
        BY <1>17, <4>1, <4>2, <4>3
    <3>3. CASE i = Len(a) + 1 /\ v[i] = m
      <4>1. j - (Len(a) + 1) \in DOMAIN b /\ v[j] = b[j - (Len(a) + 1)]
        BY <1>14, <1>16, <1>17, <2>7, <3>1, <3>3
      <4>2. m.timestamp < v[j].timestamp /\ v[j].id # m.id
        BY <2>5, <4>1
      <4>3. v[j].timestamp \in Nat
        BY <1>2, <1>15
      <4> QED
        BY <2>3, <3>3, <4>2, <4>3
    <3>4. CASE i > Len(a) + 1 /\ i - (Len(a) + 1) \in DOMAIN b /\ v[i] = b[i - (Len(a) + 1)]
      <4>1. j > Len(a) + 1
        BY <1>14, <2>7, <3>1, <3>4
      <4>2. j - (Len(a) + 1) \in DOMAIN b /\ v[j] = b[j - (Len(a) + 1)]
        BY <1>14, <1>16, <1>17, <3>1, <4>1
      <4>3. i - (Len(a) + 1) < j - (Len(a) + 1)
        BY <1>14, <2>7, <3>1
      <4> QED
        BY <2>1, <3>4, <4>2, <4>3 DEF Ordered
    <3> QED
      BY <1>17, <3>2, <3>3, <3>4
  <2> QED
    BY <2>7 DEF Ordered
<1> QED
  BY <1>1, <1>11, <1>15, <1>18, <1>19

LEMMA InsertedIs ==
    ASSUME NEW ms \in Seq(SignedMessage), NEW m \in SignedMessage, Ordered(ms)
    PROVE  /\ Inserted(ms, m) \in Seq(SignedMessage)
           /\ ToSet(Inserted(ms, m)) \subseteq ToSet(ms) \cup {m}
           /\ Ordered(Inserted(ms, m))
  BY SortedIs DEF Inserted

-----------------------------------------------------------------------------
(* The inductive invariant. *)

Line ==
    [cmd : {"SIGNED"}, msg : SignedMessage]
        \cup [cmd : {"SYNC_REQ"}, from : Nodes, to : Nodes, since : Nat]
        \cup [cmd : {"SYNC_RESP"}, from : Nodes, msgs : Seq(SignedMessage)]

Typed ==
    /\ online \subseteq Nodes
    /\ messages = [n \in Nodes |-> messages[n]] /\ file = [n \in Nodes |-> file[n]]
    /\ task = [w \in Workers |-> task[w]]
    /\ inbox \in [Nodes -> Seq(Line)]
    /\ joined \in [Nodes -> SUBSET Nodes]
    /\ shown \in [Nodes -> SUBSET (1..MaxMessages)]
    /\ count \in 0..MaxMessages
    /\ torn \in [Nodes -> BOOLEAN]

(* What is written verifies. *)
FileOk(f) ==
    /\ f \in Seq(SignedMessage \cup {NL})
    /\ \A m \in ToSet(f) : m # NL => verify(m)

(* What is in memory has been written, and is in order. *)
LogOk(ms, f) ==
    /\ ms \in Seq(SignedMessage) /\ Ordered(ms)
    /\ ToSet(ms) \subseteq ToSet(f)

(* A worker appends what verifies; what it inserts it has written. *)
TaskOk(t, f) ==
    /\ t \in Tasks
    /\ t.at # "idle" => \A i \in DOMAIN t.todo : verify(t.todo[i])
    /\ t.at \in {"newline", "insert"} => t.todo[1] \in ToSet(f)

Logs ==
    /\ \A n \in Nodes : FileOk(file[n]) /\ LogOk(messages[n], file[n])
    /\ \A w \in Workers : TaskOk(task[w], file[Node(w)])

(* Every text of the file has a line to itself. *)
Whole(f) ==
    \A j \in DOMAIN f : f[j] # NL => /\ j = 1 \/ f[j - 1] = NL
                                     /\ j = Len(f) \/ f[j + 1] = NL

Ended(f) == f # <<>> => f[Len(f)] = NL

Writing(n) == {w \in Workers : Node(w) = n /\ At(w, "newline")}

(* Unless a line was interrupted: at most one worker is in a line, the last. *)
LinedAt(f, interrupted, W) ==
    ~interrupted => /\ Whole(f)
                    /\ W = {} => Ended(f)
                    /\ \A v, w \in W : v = w

Lined == \A n \in Nodes : LinedAt(file[n], torn[n], Writing(n))

IInv == Typed /\ Logs /\ Lined

-----------------------------------------------------------------------------
(* Tasks and files. *)

LEMMA TaskParts ==
    ASSUME NEW t \in Tasks
    PROVE  /\ t.at = "idle" => t = Idle
           /\ t.at # "idle" => /\ t.at \in {"text", "newline", "insert"}
                               /\ t.todo \in Seq(SignedMessage) /\ t.todo # <<>>
                               /\ t.next \in {"send", "show", "nothing"}
  BY DEF Tasks, Idle

LEMMA LogIs ==
    ASSUME NEW f, NEW ms \in Seq(SignedMessage), NEW next \in {"send", "show", "nothing"},
           \A i \in DOMAIN ms : verify(ms[i])
    PROVE  TaskOk(Log(ms, next), f) /\ Log(ms, next).at # "newline"
<1>1. CASE ms = <<>>
  BY <1>1 DEF Log, TaskOk, Tasks, Idle
<1>2. CASE ms # <<>>
  <2>1. PICK t : t = [at |-> "text", todo |-> ms, next |-> next]
    OBVIOUS
  <2>2. Log(ms, next) = t
    BY <1>2, <2>1 DEF Log
  <2>3. t.at = "text" /\ t.todo = ms
    BY <2>1
  <2>4. t \in Tasks
    BY <1>2, <2>1 DEF Tasks
  <2> QED
    BY <2>2, <2>3, <2>4 DEF TaskOk
<1> QED
  BY <1>1, <1>2

LEMMA TaskGoesOn ==
    ASSUME NEW t, NEW f, TaskOk(t, f), t.at # "idle"
    PROVE  /\ Head(t.todo) \in SignedMessage /\ Head(t.todo) = t.todo[1] /\ verify(Head(t.todo))
           /\ TaskOk(Log(Tail(t.todo), t.next), f) /\ Log(Tail(t.todo), t.next).at # "newline"
<1>1. /\ t.todo \in Seq(SignedMessage) /\ t.todo # <<>> /\ t.next \in {"send", "show", "nothing"}
      /\ \A i \in DOMAIN t.todo : verify(t.todo[i])
  BY TaskParts DEF TaskOk
<1>2. PICK ms \in Seq(SignedMessage) : ms = t.todo
  BY <1>1
<1>3. PICK v : v = Tail(ms)
  OBVIOUS
<1>4. /\ v \in Seq(SignedMessage) /\ Len(v) = Len(ms) - 1 /\ Len(ms) \in Nat \ {0}
      /\ \A i \in 1..Len(v) : v[i] = ms[i + 1]
      /\ Head(ms) \in SignedMessage
  BY <1>1, <1>2, <1>3, HeadTailProperties, EmptySeq
<1>5. ASSUME NEW i \in DOMAIN v
      PROVE  verify(v[i])
  <2>1. i + 1 \in DOMAIN ms /\ v[i] = ms[i + 1]
    BY <1>4
  <2> QED
    BY <1>1, <1>2, <2>1
<1>6. Head(ms) = ms[1] /\ 1 \in DOMAIN ms
  BY <1>4
<1>7. TaskOk(Log(v, t.next), f) /\ Log(v, t.next).at # "newline"
  BY <1>1, <1>4, <1>5, LogIs
<1> QED
  BY <1>1, <1>2, <1>3, <1>4, <1>6, <1>7

LEMMA FileGrows ==
    ASSUME NEW f, FileOk(f), NEW x \in SignedMessage \cup {NL}, x # NL => verify(x)
    PROVE  /\ FileOk(Append(f, x)) /\ ToSet(Append(f, x)) = ToSet(f) \cup {x}
           /\ Whole(f) /\ Ended(f) => Whole(Append(f, x))
           /\ Whole(f) /\ x = NL => Whole(Append(f, x)) /\ Ended(Append(f, x))
<1>1. PICK T : T = SignedMessage \cup {NL}
  OBVIOUS
<1>2. f \in Seq(T) /\ x \in T /\ Len(f) \in Nat /\ DOMAIN f = 1..Len(f)
  BY <1>1 DEF FileOk
<1>3. PICK g : g = Append(f, x)
  OBVIOUS
<1>4. /\ g \in Seq(T) /\ g # <<>> /\ Len(g) = Len(f) + 1 /\ DOMAIN g = 1..Len(f) + 1
      /\ \A i \in 1..Len(f) : g[i] = f[i]
      /\ g[Len(f) + 1] = x
  BY <1>2, <1>3, AppendProperties
<1>5. \A i \in DOMAIN g : i \in DOMAIN f \/ i = Len(f) + 1
  BY <1>2, <1>4
<1>6. DOMAIN f \subseteq DOMAIN g /\ Len(f) + 1 \in DOMAIN g
  BY <1>2, <1>4
<1>7. ToSet(g) = ToSet(f) \cup {x}
  <2>1. ToSet(g) \subseteq ToSet(f) \cup {x}
    BY <1>2, <1>4, <1>5 DEF ToSet
  <2>2. ToSet(f) \cup {x} \subseteq ToSet(g)
    BY <1>2, <1>4, <1>6 DEF ToSet
  <2> QED
    BY <2>1, <2>2
<1>8. FileOk(g)
  BY <1>1, <1>4, <1>7 DEF FileOk
<1>9. ASSUME Whole(f), Ended(f) \/ x = NL
      PROVE  Whole(g)
  <2> SUFFICES ASSUME NEW j \in DOMAIN g, g[j] # NL
               PROVE  (j = 1 \/ g[j - 1] = NL) /\ (j = Len(g) \/ g[j + 1] = NL)
    BY DEF Whole
  <2>1. CASE j = Len(f) + 1
    <3>1. Ended(f)
      BY <1>4, <1>9, <2>1
    <3>2. CASE f = <<>>
      BY <1>4, <2>1, <3>2
    <3>3. CASE f # <<>>
      <4>1. f[Len(f)] = NL /\ Len(f) \in 1..Len(f)
        BY <1>2, <3>1, <3>3, EmptySeq DEF Ended
      <4>2. g[j - 1] = NL
        BY <1>2, <1>4, <2>1, <4>1
      <4> QED
        BY <1>4, <2>1, <4>2
    <3> QED
      BY <3>2, <3>3
  <2>2. CASE j # Len(f) + 1
    <3>1. j \in DOMAIN f /\ g[j] = f[j]
      BY <1>2, <1>4, <1>5, <2>2
    <3>2. (j = 1 \/ f[j - 1] = NL) /\ (j = Len(f) \/ f[j + 1] = NL)
      BY <1>9, <3>1 DEF Whole
    <3>3. j = 1 \/ g[j - 1] = NL
      <4>1. j # 1 => j - 1 \in 1..Len(f)
        BY <1>2, <3>1
      <4> QED
        BY <1>4, <3>2, <4>1
    <3>4. CASE j = Len(f)
      <4>1. ~Ended(f)
        <5>1. f # <<>>
          BY <1>2, <3>1
        <5> QED
          BY <3>1, <3>4, <5>1 DEF Ended
      <4>2. g[j + 1] = NL
        BY <1>4, <1>9, <3>4, <4>1
      <4> QED
        BY <3>3, <4>2
    <3>5. CASE j # Len(f)
      <4>1. j + 1 \in 1..Len(f)
        BY <1>2, <3>1, <3>5
      <4> QED
        BY <1>4, <3>2, <3>3, <3>5, <4>1
    <3> QED
      BY <3>4, <3>5
  <2> QED
    BY <2>1, <2>2
<1>10. x = NL => Ended(g)
  BY <1>4 DEF Ended
<1> QED
  BY <1>3, <1>7, <1>8, <1>9, <1>10

LEMMA Grown ==
    ASSUME NEW f, NEW g, ToSet(f) \subseteq ToSet(g)
    PROVE  /\ \A t : TaskOk(t, f) => TaskOk(t, g)
           /\ \A ms : LogOk(ms, f) => LogOk(ms, g)
  BY DEF TaskOk, LogOk

(* A step that leaves the logs and the files alone. *)
LEMMA LogsKept ==
    ASSUME Logs, messages' = messages, file' = file,
           \A w \in Workers : task'[w] = task[w] \/ TaskOk(task'[w], file[Node(w)])
    PROVE  Logs'
<1>1. ASSUME NEW w \in Workers PROVE TaskOk(task'[w], file'[Node(w)])
  BY DEF Logs
<1> QED
  BY <1>1 DEF Logs

LEMMA LinedKept ==
    ASSUME Lined, file' = file, torn' = torn,
           \A w \in Workers : task'[w].at = "newline" <=> task[w].at = "newline"
    PROVE  Lined'
<1>1. ASSUME NEW n \in Nodes PROVE Writing(n)' = Writing(n)
  BY DEF Writing, At, Node
<1> QED
  BY <1>1 DEF Lined

LEMMA RelayTyped ==
    ASSUME inbox \in [Nodes -> Seq(Line)], NEW to, NEW line \in Line, NEW length, Relay(to, line, length)
    PROVE  inbox' \in [Nodes -> Seq(Line)]
<1>1. ASSUME NEW b \in Nodes
      PROVE  (IF b \in to \cap online /\ length <= MaxMsgLen
              THEN Append(inbox[b], line) ELSE inbox[b]) \in Seq(Line)
  OBVIOUS
<1> QED
  BY <1>1 DEF Relay

LEMMA WorkerOf ==
    ASSUME NEW w \in Workers
    PROVE  Node(w) \in Nodes
  BY DEF Workers, Node

LEMMA ReaderIs ==
    ASSUME NEW n \in Nodes
    PROVE  /\ <<n, "reader">> \in Workers /\ Node(<<n, "reader">>) = n
           /\ <<n, "loop">> \in Workers /\ Node(<<n, "loop">>) = n
  BY DEF Workers, Node

-----------------------------------------------------------------------------
(* MessageLog::append. *)

(* Worker w writes x, which verifies, and is then at t. *)
LEMMA LogsWritten ==
    ASSUME Typed, Logs, NEW w \in Workers, NEW x \in SignedMessage \cup {NL}, x # NL => verify(x),
           messages' = messages, file' = [file EXCEPT ![Node(w)] = Append(@, x)],
           NEW t, task' = [task EXCEPT ![w] = t], TaskOk(t, Append(file[Node(w)], x))
    PROVE  Logs'
<1>1. PICK n \in Nodes : n = Node(w)
  BY WorkerOf
<1>2. PICK g : g = Append(file[n], x)
  OBVIOUS
<1>3. FileOk(file[n])
  BY <1>1 DEF Logs
<1>4. FileOk(g) /\ ToSet(g) = ToSet(file[n]) \cup {x}
  BY <1>2, <1>3, FileGrows
<1>5. file'[n] = g /\ \A m \in Nodes \ {n} : file'[m] = file[m]
  BY <1>1, <1>2 DEF Typed
<1>6. ASSUME NEW m \in Nodes
      PROVE  FileOk(file'[m]) /\ ToSet(file[m]) \subseteq ToSet(file'[m])
  BY <1>4, <1>5 DEF Logs
<1>7. ASSUME NEW m \in Nodes
      PROVE  LogOk(messages'[m], file'[m])
  BY <1>6, Grown DEF Logs
<1>8. ASSUME NEW v \in Workers
      PROVE  TaskOk(task'[v], file'[Node(v)])
  <2>1. CASE v = w
    BY <1>1, <1>2, <1>5, <2>1 DEF Typed
  <2>2. CASE v # w
    <3>1. task'[v] = task[v] /\ Node(v) \in Nodes
      BY <2>2, WorkerOf DEF Typed
    <3> QED
      BY <1>6, <3>1, Grown DEF Logs
  <2> QED
    BY <2>1, <2>2
<1> QED
  BY <1>6, <1>7, <1>8 DEF Logs

LEMMA WriteTextKeeps ==
    ASSUME IInv, NEW w \in Workers, WriteText(w)
    PROVE  IInv'
<1> USE DEF IInv
<1>1. PICK t : t = task[w]
  OBVIOUS
<1>2. PICK n \in Nodes : n = Node(w)
  BY WorkerOf
<1>3. TaskOk(t, file[n]) /\ t.at = "text"
  BY <1>1, <1>2 DEF Logs, WriteText, At
<1>4. PICK x : x = Head(t.todo)
  OBVIOUS
<1>5. x \in SignedMessage /\ x = t.todo[1] /\ verify(x)
  BY <1>3, <1>4, TaskGoesOn
<1>6. PICK r : r = [t EXCEPT !.at = "newline"]
  OBVIOUS
<1>7. /\ file' = [file EXCEPT ![n] = Append(@, x)]
      /\ torn' = [torn EXCEPT ![n] = @ \/ Interrupts(w)]
      /\ task' = [task EXCEPT ![w] = r]
      /\ online' = online /\ messages' = messages /\ inbox' = inbox /\ joined' = joined
      /\ shown' = shown /\ count' = count
  BY <1>1, <1>2, <1>4, <1>6 DEF WriteText, Message, session
<1>8. r.at = "newline" /\ r.todo = t.todo /\ r \in Tasks
  <2>1. t \in Tasks
    BY <1>3 DEF TaskOk
  <2> QED
    BY <1>3, <1>6, <2>1 DEF Tasks, Idle
<1>9. PICK f : f = file[n]
  OBVIOUS
<1>10. FileOk(f)
  BY <1>9 DEF Logs
<1>11. /\ ToSet(Append(f, x)) = ToSet(f) \cup {x}
       /\ Whole(f) /\ Ended(f) => Whole(Append(f, x))
  BY <1>5, <1>10, FileGrows
<1>12. TaskOk(r, Append(f, x))
  BY <1>3, <1>5, <1>8, <1>11 DEF TaskOk
<1>13. Logs'
  BY <1>2, <1>5, <1>7, <1>9, <1>12, LogsWritten
<1>14. Typed'
  BY <1>7 DEF Typed
<1>15. file'[n] = Append(f, x) /\ \A m \in Nodes \ {n} : file'[m] = file[m] /\ torn'[m] = torn[m]
  BY <1>7, <1>9 DEF Typed
<1>16. task'[w] = r /\ \A v \in Workers \ {w} : task'[v] = task[v]
  BY <1>7 DEF Typed
<1>17. ASSUME NEW m \in Nodes \ {n}
       PROVE  LinedAt(file'[m], torn'[m], Writing(m)')
  <2>1. Writing(m)' = Writing(m)
    BY <1>2, <1>16 DEF Writing, At
  <2> QED
    BY <1>15, <2>1 DEF Lined
<1>18. LinedAt(file'[n], torn'[n], Writing(n)')
  <2> SUFFICES ASSUME ~torn'[n]
               PROVE  /\ Whole(file'[n]) /\ Writing(n)' # {}
                      /\ \A u, v \in Writing(n)' : u = v
    BY DEF LinedAt
  <2>1. ~torn[n] /\ ~Interrupts(w)
    BY <1>7 DEF Typed
  <2>2. Writing(n) = {}
    BY <1>1, <1>2, <1>3, <2>1 DEF Writing, Interrupts, At
  <2>3. Writing(n)' = {w}
    BY <1>2, <1>8, <1>16, <2>2 DEF Writing, At
  <2>4. Whole(f) /\ Ended(f)
    BY <1>9, <2>1, <2>2 DEF Lined, LinedAt
  <2> QED
    BY <1>11, <1>15, <2>3, <2>4
<1> QED
  BY <1>13, <1>14, <1>17, <1>18 DEF Lined

LEMMA WriteNewlineKeeps ==
    ASSUME IInv, NEW w \in Workers, WriteNewline(w)
    PROVE  IInv'
<1> USE DEF IInv
<1>1. PICK t : t = task[w]
  OBVIOUS
<1>2. PICK n \in Nodes : n = Node(w)
  BY WorkerOf
<1>3. TaskOk(t, file[n]) /\ t.at = "newline"
  BY <1>1, <1>2 DEF Logs, WriteNewline, At
<1>4. PICK r : r = [t EXCEPT !.at = "insert"]
  OBVIOUS
<1>5. /\ file' = [file EXCEPT ![n] = Append(@, NL)]
      /\ task' = [task EXCEPT ![w] = r]
      /\ online' = online /\ messages' = messages /\ torn' = torn /\ inbox' = inbox /\ joined' = joined
      /\ shown' = shown /\ count' = count
  BY <1>1, <1>2, <1>4 DEF WriteNewline, session
<1>6. r.at = "insert" /\ r.todo = t.todo /\ r \in Tasks
  <2>1. t \in Tasks
    BY <1>3 DEF TaskOk
  <2> QED
    BY <1>3, <1>4, <2>1 DEF Tasks, Idle
<1>7. PICK f : f = file[n]
  OBVIOUS
<1>8. FileOk(f)
  BY <1>7 DEF Logs
<1>9. /\ ToSet(Append(f, NL)) = ToSet(f) \cup {NL}
      /\ Whole(f) => Whole(Append(f, NL)) /\ Ended(Append(f, NL))
  BY <1>8, FileGrows
<1>10. TaskOk(r, Append(f, NL))
  BY <1>3, <1>6, <1>7, <1>9 DEF TaskOk
<1>11. Logs'
  BY <1>2, <1>5, <1>7, <1>10, LogsWritten
<1>12. Typed'
  BY <1>5 DEF Typed
<1>13. file'[n] = Append(f, NL) /\ \A m \in Nodes \ {n} : file'[m] = file[m]
  BY <1>5, <1>7 DEF Typed
<1>14. task'[w] = r /\ \A v \in Workers \ {w} : task'[v] = task[v]
  BY <1>5 DEF Typed
<1>15. ASSUME NEW m \in Nodes \ {n}
       PROVE  LinedAt(file'[m], torn'[m], Writing(m)')
  <2>1. Writing(m)' = Writing(m)
    BY <1>2, <1>14 DEF Writing, At
  <2> QED
    BY <1>5, <1>13, <2>1 DEF Lined
<1>16. LinedAt(file'[n], torn'[n], Writing(n)')
  <2>1. Writing(n)' \subseteq Writing(n)
    BY <1>6, <1>14 DEF Writing, At
  <2> QED
    BY <1>5, <1>7, <1>9, <1>13, <2>1 DEF Lined, LinedAt
<1> QED
  BY <1>11, <1>12, <1>15, <1>16 DEF Lined

(* After an append: what is shown, what is sent, what is appended next. *)
LEMMA Continues ==
    ASSUME Typed, Logs, NEW w \in Workers, task[w].at # "idle", Continue(w)
    PROVE  /\ task' = [v \in Workers |-> task'[v]] /\ TaskOk(task'[w], file[Node(w)]) /\ task'[w].at # "newline"
           /\ \A v \in Workers \ {w} : task'[v] = task[v]
           /\ shown' \in [Nodes -> SUBSET (1..MaxMessages)]
           /\ inbox' \in [Nodes -> Seq(Line)]
<1>1. PICK t : t = task[w]
  OBVIOUS
<1>2. PICK n \in Nodes : n = Node(w)
  BY WorkerOf
<1>3. TaskOk(t, file[n]) /\ t.at # "idle"
  BY <1>1, <1>2 DEF Logs
<1>4. PICK m : m = Head(t.todo)
  OBVIOUS
<1>5. PICK r : r = Log(Tail(t.todo), t.next)
  OBVIOUS
<1>6. m \in SignedMessage /\ TaskOk(r, file[n]) /\ r.at # "newline"
  BY <1>3, <1>4, <1>5, TaskGoesOn
<1>7. task' = [task EXCEPT ![w] = r]
  BY <1>1, <1>5 DEF Continue
<1>8. /\ shown' = shown \/ shown' = [shown EXCEPT ![n] = @ \cup {m.id}]
      /\ \/ Relay(Nodes \ {n}, [cmd |-> "SIGNED", msg |-> m], SignedLine(m))
         \/ inbox' = inbox
  BY <1>1, <1>2, <1>4 DEF Continue, Message
<1>9. m.id \in 1..MaxMessages
  BY <1>6 DEF SignedMessage
<1>10. shown' \in [Nodes -> SUBSET (1..MaxMessages)]
  <2>1. PICK id \in 1..MaxMessages : id = m.id
    BY <1>9
  <2>2. shown \in [Nodes -> SUBSET (1..MaxMessages)]
    BY DEF Typed
  <2>3. CASE shown' = [shown EXCEPT ![n] = @ \cup {m.id}]
    <3>1. shown' = [shown EXCEPT ![n] = @ \cup {id}]
      BY <2>1, <2>3
    <3> QED
      BY <2>2, <3>1
  <2> QED
    BY <1>8, <2>2, <2>3
<1>11. PICK line : line = [cmd |-> "SIGNED", msg |-> m]
  OBVIOUS
<1>12. line \in Line
  BY <1>6, <1>11 DEF Line
<1>13. inbox' \in [Nodes -> Seq(Line)]
  BY <1>8, <1>11, <1>12, RelayTyped DEF Typed
<1> QED
  BY <1>2, <1>6, <1>7, <1>10, <1>13 DEF Typed

LEMMA WriteFailsKeeps ==
    ASSUME IInv, NEW w \in Workers, WriteFails(w)
    PROVE  IInv'
<1> USE DEF IInv
<1>1. PICK n \in Nodes : n = Node(w)
  BY WorkerOf
<1>2. /\ task[w].at \in {"text", "newline"} /\ Continue(w)
      /\ torn' = [torn EXCEPT ![n] = @ \/ At(w, "newline")]
      /\ online' = online /\ messages' = messages /\ file' = file /\ joined' = joined /\ count' = count
  BY <1>1 DEF WriteFails, session
<1>3. /\ task' = [v \in Workers |-> task'[v]] /\ TaskOk(task'[w], file[Node(w)]) /\ task'[w].at # "newline"
      /\ \A v \in Workers \ {w} : task'[v] = task[v]
      /\ shown' \in [Nodes -> SUBSET (1..MaxMessages)]
      /\ inbox' \in [Nodes -> Seq(Line)]
  BY <1>2, Continues
<1>4. Typed'
  BY <1>2, <1>3 DEF Typed, At
<1>5. Logs'
  BY <1>2, <1>3, LogsKept
<1>6. ASSUME NEW m \in Nodes
      PROVE  LinedAt(file'[m], torn'[m], Writing(m)')
  <2>1. CASE m = n /\ task[w].at = "newline"
    <3>1. torn'[m] = TRUE
      BY <1>2, <2>1 DEF Typed, At
    <3> QED
      BY <3>1 DEF LinedAt
  <2>2. CASE m # n \/ task[w].at # "newline"
    <3>1. Writing(m)' = Writing(m)
      BY <1>1, <1>3, <2>2 DEF Writing, At
    <3>2. torn'[m] = torn[m]
      BY <1>2, <2>2 DEF Typed, At
    <3> QED
      BY <1>2, <3>1, <3>2 DEF Lined
  <2> QED
    BY <2>1, <2>2
<1> QED
  BY <1>4, <1>5, <1>6 DEF Lined

LEMMA InsertKeeps ==
    ASSUME IInv, NEW w \in Workers, Insert(w)
    PROVE  IInv'
<1> USE DEF IInv
<1>1. PICK n \in Nodes : n = Node(w)
  BY WorkerOf
<1>2. PICK t : t = task[w]
  OBVIOUS
<1>3. TaskOk(t, file[n]) /\ t.at = "insert"
  BY <1>1, <1>2 DEF Logs, Insert, At
<1>4. PICK m : m = Head(t.todo)
  OBVIOUS
<1>5. m \in SignedMessage /\ m \in ToSet(file[n])
  <2>1. m \in SignedMessage /\ m = t.todo[1]
    BY <1>3, <1>4, TaskGoesOn
  <2> QED
    BY <1>3, <2>1 DEF TaskOk
<1>6. /\ messages' = [messages EXCEPT ![n] = Inserted(@, m)] /\ Continue(w)
      /\ online' = online /\ file' = file /\ torn' = torn /\ joined' = joined /\ count' = count
  BY <1>1, <1>2, <1>4 DEF Insert, Message, session, disk
<1>7. /\ task' = [v \in Workers |-> task'[v]] /\ TaskOk(task'[w], file[Node(w)]) /\ task'[w].at # "newline"
      /\ \A v \in Workers \ {w} : task'[v] = task[v]
      /\ shown' \in [Nodes -> SUBSET (1..MaxMessages)]
      /\ inbox' \in [Nodes -> Seq(Line)]
  BY <1>2, <1>3, <1>6, Continues
<1>8. PICK ms : ms = messages[n]
  OBVIOUS
<1>9. LogOk(ms, file[n])
  BY <1>8 DEF Logs
<1>10. /\ Inserted(ms, m) \in Seq(SignedMessage)
       /\ ToSet(Inserted(ms, m)) \subseteq ToSet(ms) \cup {m}
       /\ Ordered(Inserted(ms, m))
  BY <1>5, <1>9, InsertedIs DEF LogOk
<1>11. LogOk(Inserted(ms, m), file[n])
  BY <1>5, <1>9, <1>10 DEF LogOk
<1>12. messages'[n] = Inserted(ms, m) /\ \A b \in Nodes \ {n} : messages'[b] = messages[b]
  BY <1>6, <1>8 DEF Typed
<1>13. ASSUME NEW b \in Nodes
       PROVE  FileOk(file'[b]) /\ LogOk(messages'[b], file'[b])
  BY <1>6, <1>11, <1>12 DEF Logs
<1>14. ASSUME NEW v \in Workers
       PROVE  TaskOk(task'[v], file'[Node(v)])
  BY <1>6, <1>7 DEF Logs
<1>15. Logs'
  BY <1>13, <1>14 DEF Logs
<1>16. Typed'
  BY <1>6, <1>7 DEF Typed
<1>17. Lined'
  <2>1. \A v \in Workers : task'[v].at = "newline" <=> task[v].at = "newline"
    BY <1>2, <1>3, <1>7
  <2> QED
    BY <1>6, <2>1, LinedKept
<1> QED
  BY <1>15, <1>16, <1>17

-----------------------------------------------------------------------------
(* The reader and the event loop. *)

(* Worker w goes to t; nothing is written. *)
LEMMA TaskBegins ==
    ASSUME IInv, NEW w \in Workers, NEW t, task[w].at = "idle",
           task' = task \/ (/\ task' = [task EXCEPT ![w] = t]
                           /\ TaskOk(t, file[Node(w)]) /\ t.at # "newline"),
           messages' = messages, file' = file, torn' = torn
    PROVE  Logs' /\ Lined' /\ task' = [v \in Workers |-> task'[v]]
<1> USE DEF IInv
<1>1. /\ task' = [v \in Workers |-> task'[v]]
      /\ \A v \in Workers : \/ task'[v] = task[v]
                            \/ v = w /\ task'[v] = t /\ TaskOk(t, file[Node(w)]) /\ t.at # "newline"
  BY DEF Typed
<1>2. Logs'
  BY <1>1, LogsKept
<1>3. \A v \in Workers : task'[v].at = "newline" <=> task[v].at = "newline"
  BY <1>1
<1> QED
  BY <1>1, <1>2, <1>3, LinedKept

LEMMA HeadOf ==
    ASSUME Typed, NEW n \in Nodes, inbox[n] # <<>>
    PROVE  /\ Head(inbox[n]) \in Line
           /\ [inbox EXCEPT ![n] = Tail(@)] \in [Nodes -> Seq(Line)]
<1>1. inbox[n] \in Seq(Line) /\ inbox \in [Nodes -> Seq(Line)]
  BY DEF Typed
<1>2. Head(inbox[n]) \in Line /\ Tail(inbox[n]) \in Seq(Line)
  BY <1>1, HeadTailProperties
<1> QED
  BY <1>1, <1>2

LEMMA LineParts ==
    ASSUME NEW l \in Line
    PROVE  /\ l.cmd = "SIGNED" => l.msg \in SignedMessage
           /\ l.cmd = "SYNC_REQ" => l.from \in Nodes /\ l.to \in Nodes
           /\ l.cmd = "SYNC_RESP" => l.msgs \in Seq(SignedMessage)
<1>1. CASE l \in [cmd : {"SIGNED"}, msg : SignedMessage]
  BY <1>1
<1>2. CASE l \in [cmd : {"SYNC_REQ"}, from : Nodes, to : Nodes, since : Nat]
  BY <1>2
<1>3. CASE l \in [cmd : {"SYNC_RESP"}, from : Nodes, msgs : Seq(SignedMessage)]
  BY <1>3
<1> QED
  BY <1>1, <1>2, <1>3 DEF Line

(* A log of one message. *)
LEMMA LogOne ==
    ASSUME NEW m \in SignedMessage, verify(m), NEW next \in {"send", "show", "nothing"}, NEW f
    PROVE  TaskOk(Log(<<m>>, next), f) /\ Log(<<m>>, next).at # "newline"
<1>1. PICK ms : ms = <<m>>
  OBVIOUS
<1>2. ms \in Seq(SignedMessage) /\ DOMAIN ms = 1..1 /\ ms[1] = m
  BY <1>1
<1>3. \A i \in DOMAIN ms : verify(ms[i])
  BY <1>2
<1> QED
  BY <1>1, <1>2, <1>3, LogIs

LEMMA SayKeeps ==
    ASSUME IInv, NEW n \in Nodes, Say(n)
    PROVE  IInv'
<1> USE DEF IInv
<1>1. PICK w \in Workers : w = <<n, "loop">> /\ Node(w) = n
  BY ReaderIs
<1>2. /\ task[w].at = "idle" /\ count < MaxMessages /\ count' = count + 1
      /\ online' = online /\ messages' = messages /\ file' = file /\ torn' = torn
      /\ inbox' = inbox /\ joined' = joined /\ shown' = shown
      /\ \E s \in Times, l \in Lengths :
             task' = [task EXCEPT ![w] = Log(<<[id |-> count + 1, author |-> n, timestamp |-> s,
                                               len |-> l, key |-> "own"]>>, "send")]
  BY <1>1 DEF Say, At, session, disk
<1>3. PICK s \in Times, l \in Lengths :
          task' = [task EXCEPT ![w] = Log(<<[id |-> count + 1, author |-> n, timestamp |-> s,
                                            len |-> l, key |-> "own"]>>, "send")]
  BY <1>2
<1>4. PICK m : m = [id |-> count + 1, author |-> n, timestamp |-> s, len |-> l, key |-> "own"]
  OBVIOUS
<1>5. count + 1 \in 1..MaxMessages
  BY <1>2, BoundAssumption DEF Typed
<1>6. m \in SignedMessage /\ verify(m)
  BY <1>4, <1>5 DEF SignedMessage, verify
<1>7. PICK t : t = Log(<<m>>, "send")
  OBVIOUS
<1>8. TaskOk(t, file[Node(w)]) /\ t.at # "newline"
  BY <1>6, <1>7, LogOne
<1>9. task' = [task EXCEPT ![w] = t]
  BY <1>3, <1>4, <1>7
<1>10. Logs' /\ Lined' /\ task' = [v \in Workers |-> task'[v]]
  BY <1>2, <1>8, <1>9, TaskBegins
<1>11. Typed'
  BY <1>2, <1>5, <1>10, BoundAssumption DEF Typed
<1> QED
  BY <1>10, <1>11

LEMMA ReadSignedKeeps ==
    ASSUME IInv, NEW n \in Nodes, ReadSigned(n)
    PROVE  IInv'
<1> USE DEF IInv
<1>1. PICK w \in Workers : w = <<n, "reader">> /\ Node(w) = n
  BY ReaderIs
<1>2. PICK m : m = Head(inbox[n]).msg
  OBVIOUS
<1>3. PICK t : t = Log(<<m>>, "show")
  OBVIOUS
<1>4. /\ task[w].at = "idle" /\ inbox[n] # <<>> /\ Head(inbox[n]).cmd = "SIGNED"
      /\ task' = task \/ (verify(m) /\ task' = [task EXCEPT ![w] = t])
      /\ inbox' = [inbox EXCEPT ![n] = Tail(@)]
      /\ online' = online /\ messages' = messages /\ file' = file /\ torn' = torn
      /\ joined' = joined /\ shown' = shown /\ count' = count
  BY <1>1, <1>2, <1>3 DEF ReadSigned, Reads, At, session, disk
<1>5. m \in SignedMessage /\ inbox' \in [Nodes -> Seq(Line)]
  BY <1>2, <1>4, HeadOf, LineParts
<1>6. verify(m) => TaskOk(t, file[Node(w)]) /\ t.at # "newline"
  BY <1>3, <1>5, LogOne
<1>7. Logs' /\ Lined' /\ task' = [v \in Workers |-> task'[v]]
  BY <1>4, <1>6, TaskBegins
<1>8. Typed'
  BY <1>4, <1>5, <1>7 DEF Typed
<1> QED
  BY <1>7, <1>8

LEMMA ReadSyncResponseKeeps ==
    ASSUME IInv, NEW n \in Nodes, ReadSyncResponse(n)
    PROVE  IInv'
<1> USE DEF IInv
<1>1. PICK w \in Workers : w = <<n, "reader">> /\ Node(w) = n
  BY ReaderIs
<1>2. PICK ms : ms = Head(inbox[n]).msgs
  OBVIOUS
<1>3. PICK S : S = {m \in ToSet(ms) : Fits(n, m) /\ verify(m)}
  OBVIOUS
<1>4. PICK t : t = Log(Those(ms, S), "nothing")
  OBVIOUS
<1>5. /\ task[w].at = "idle" /\ inbox[n] # <<>> /\ Head(inbox[n]).cmd = "SYNC_RESP"
      /\ task' = task \/ task' = [task EXCEPT ![w] = t]
      /\ inbox' = [inbox EXCEPT ![n] = Tail(@)]
      /\ online' = online /\ messages' = messages /\ file' = file /\ torn' = torn
      /\ joined' = joined /\ shown' = shown /\ count' = count
  BY <1>1, <1>2, <1>3, <1>4 DEF ReadSyncResponse, Reads, At, session, disk
<1>6. ms \in Seq(SignedMessage) /\ inbox' \in [Nodes -> Seq(Line)]
  BY <1>2, <1>5, HeadOf, LineParts
<1>7. PICK good : good = Those(ms, S)
  OBVIOUS
<1>8. good \in Seq(SignedMessage) /\ \A i \in DOMAIN good : good[i] \in S
  BY <1>6, <1>7, ThoseAre DEF Picked
<1>9. \A i \in DOMAIN good : verify(good[i])
  BY <1>3, <1>8
<1>10. TaskOk(t, file[Node(w)]) /\ t.at # "newline"
  BY <1>4, <1>7, <1>8, <1>9, LogIs
<1>11. Logs' /\ Lined' /\ task' = [v \in Workers |-> task'[v]]
  BY <1>5, <1>10, TaskBegins
<1>12. Typed'
  BY <1>5, <1>6, <1>11 DEF Typed
<1> QED
  BY <1>11, <1>12

(* Steps that leave the tasks, the logs and the files alone. *)
LEMMA LinesKeep ==
    ASSUME IInv, UNCHANGED <<messages, disk, task>>,
           online' \subseteq Nodes, inbox' \in [Nodes -> Seq(Line)],
           joined' \in [Nodes -> SUBSET Nodes], shown' = shown, count' \in 0..MaxMessages
    PROVE  IInv'
<1> USE DEF IInv
<1>1. messages' = messages /\ file' = file /\ torn' = torn /\ task' = task
  BY DEF disk
<1>2. Logs' /\ Lined'
  BY <1>1, LogsKept, LinedKept
<1> QED
  BY <1>1, <1>2 DEF Typed

LEMMA ReadSyncRequestKeeps ==
    ASSUME IInv, NEW n \in Nodes, ReadSyncRequest(n)
    PROVE  IInv'
<1> USE DEF IInv
<1>1. PICK req : req = Head(inbox[n])
  OBVIOUS
<1>2. PICK ms : ms = Since(messages[n], req.since)
  OBVIOUS
<1>3. PICK resp : resp = [cmd |-> "SYNC_RESP", from |-> n, msgs |-> ms]
  OBVIOUS
<1>4. PICK rest : rest = [inbox EXCEPT ![n] = Tail(@)]
  OBVIOUS
<1>5. /\ inbox[n] # <<>> /\ req.cmd = "SYNC_REQ"
      /\ inbox' = rest \/ inbox' = [rest EXCEPT ![req.to] = Append(@, resp)]
      /\ online' = online /\ UNCHANGED <<messages, disk, task>>
      /\ joined' = joined /\ shown' = shown /\ count' = count
  BY <1>1, <1>2, <1>3, <1>4 DEF ReadSyncRequest, Reads, session
<1>6. req.to \in Nodes /\ rest \in [Nodes -> Seq(Line)]
  BY <1>1, <1>4, <1>5, HeadOf, LineParts
<1>7. ms \in Seq(SignedMessage)
  <2>1. PICK all \in Seq(SignedMessage) : all = messages[n]
    BY DEF Logs, LogOk
  <2> QED
    BY <1>2, <2>1, ThoseAre DEF Since, Picked
<1>8. resp \in Line
  BY <1>3, <1>7 DEF Line
<1>9. inbox' \in [Nodes -> Seq(Line)]
  <2>1. PICK b \in Nodes : b = req.to
    BY <1>6
  <2>2. Append(rest[b], resp) \in Seq(Line)
    BY <1>6, <1>8
  <2>3. CASE inbox' = [rest EXCEPT ![req.to] = Append(@, resp)]
    <3>1. inbox' = [rest EXCEPT ![b] = Append(rest[b], resp)]
      BY <2>1, <2>3
    <3> QED
      BY <1>6, <2>2, <3>1
  <2> QED
    BY <1>5, <1>6, <2>3
<1> QED
  BY <1>5, <1>9, LinesKeep DEF Typed

LEMMA AskToSyncKeeps ==
    ASSUME IInv, NEW n \in Nodes, NEW b \in Nodes, AskToSync(n, b)
    PROVE  IInv'
<1> USE DEF IInv
<1>1. PICK line : line = [cmd |-> "SYNC_REQ", from |-> n, to |-> b, since |-> Newest(messages[n])]
  OBVIOUS
<1>2. /\ joined' = [joined EXCEPT ![n] = @ \ {b}] /\ Relay({b}, line, 73)
      /\ online' = online /\ UNCHANGED <<messages, disk, task>> /\ shown' = shown /\ count' = count
  BY <1>1 DEF AskToSync, session
<1>3. Newest(messages[n]) \in Nat
  <2>1. PICK ms \in Seq(SignedMessage) : ms = messages[n]
    BY DEF Logs, LogOk
  <2>2. CASE ms = <<>>
    BY <2>1, <2>2 DEF Newest
  <2>3. CASE ms # <<>>
    <3>1. Len(ms) \in 1..Len(ms)
      BY <2>3, EmptySeq
    <3>2. ms[Len(ms)] \in SignedMessage
      BY <3>1
    <3>3. ms[Len(ms)].timestamp \in Nat
      BY <3>2, BoundAssumption DEF SignedMessage
    <3> QED
      BY <2>1, <2>3, <3>3 DEF Newest, Last
  <2> QED
    BY <2>2, <2>3
<1>4. line \in Line
  BY <1>1, <1>3 DEF Line
<1>5. inbox' \in [Nodes -> Seq(Line)]
  BY <1>2, <1>4, RelayTyped DEF Typed
<1>6. joined' \in [Nodes -> SUBSET Nodes]
  BY <1>2 DEF Typed
<1> QED
  BY <1>2, <1>5, <1>6, LinesKeep DEF Typed

LEMMA SendForeignKeeps ==
    ASSUME IInv, NEW n \in Nodes, SendForeign(n)
    PROVE  IInv'
<1> USE DEF IInv
<1>1. PICK s : s = CHOOSE t \in Times : TRUE
  OBVIOUS
<1>2. s \in Times
  BY <1>1, BoundAssumption
<1>3. PICK l \in Lengths, k \in {"other", "none"} :
          LET m == [id |-> count + 1, author |-> n, timestamp |-> s, len |-> l, key |-> k]
          IN  Relay(Nodes \ {n}, [cmd |-> "SIGNED", msg |-> m], SignedLine(m))
  BY <1>1 DEF SendForeign
<1>4. PICK m : m = [id |-> count + 1, author |-> n, timestamp |-> s, len |-> l, key |-> k]
  OBVIOUS
<1>5. PICK line : line = [cmd |-> "SIGNED", msg |-> m]
  OBVIOUS
<1>6. /\ count < MaxMessages /\ count' = count + 1 /\ Relay(Nodes \ {n}, line, SignedLine(m))
      /\ online' = online /\ UNCHANGED <<messages, disk, task>> /\ joined' = joined /\ shown' = shown
  BY <1>3, <1>4, <1>5 DEF SendForeign, session
<1>7. count + 1 \in 1..MaxMessages /\ count' \in 0..MaxMessages
  BY <1>6, BoundAssumption DEF Typed
<1>8. m \in SignedMessage
  BY <1>2, <1>4, <1>7 DEF SignedMessage
<1>9. line \in Line
  BY <1>5, <1>8 DEF Line
<1>10. inbox' \in [Nodes -> Seq(Line)]
  BY <1>6, <1>9, RelayTyped DEF Typed
<1> QED
  BY <1>6, <1>7, <1>10, LinesKeep DEF Typed

-----------------------------------------------------------------------------
(* Programs start and end; every step. *)

LEMMA StartKeeps ==
    ASSUME IInv, NEW n \in Nodes, Start(n)
    PROVE  IInv'
<1> USE DEF IInv
<1>1. joined' \in [Nodes -> SUBSET Nodes] /\ online' \subseteq Nodes
  BY DEF Start, Typed
<1>2. UNCHANGED <<messages, disk, task>> /\ inbox' = inbox /\ shown' = shown /\ count' = count
  BY DEF Start
<1> QED
  BY <1>1, <1>2, LinesKeep DEF Typed

LEMMA StopKeeps ==
    ASSUME IInv, NEW n \in Nodes, Stop(n)
    PROVE  IInv'
<1> USE DEF IInv
<1>1. /\ messages' = [messages EXCEPT ![n] = <<>>]
      /\ torn' = [torn EXCEPT ![n] = @ \/ \E w \in Workers : Node(w) = n /\ task[w].at = "newline"]
      /\ task' = [w \in Workers |-> IF Node(w) = n THEN Idle ELSE task[w]]
      /\ inbox' = [inbox EXCEPT ![n] = <<>>]
      /\ joined' = [joined EXCEPT ![n] = {}]
      /\ shown' = [shown EXCEPT ![n] = {}]
      /\ online' = online \ {n} /\ file' = file /\ count' = count
  BY DEF Stop
<1>2. Typed'
  <2>1. inbox' \in [Nodes -> Seq(Line)] /\ joined' \in [Nodes -> SUBSET Nodes]
    BY <1>1 DEF Typed
  <2>2. shown' \in [Nodes -> SUBSET (1..MaxMessages)]
    BY <1>1 DEF Typed
  <2>3. torn' \in [Nodes -> BOOLEAN]
    BY <1>1 DEF Typed
  <2> QED
    BY <1>1, <2>1, <2>2, <2>3 DEF Typed
<1>3. Idle \in Tasks /\ Idle.at = "idle"
  BY DEF Tasks, Idle
<1>4. Logs'
  <2>1. ASSUME NEW m \in Nodes
        PROVE  FileOk(file'[m]) /\ LogOk(messages'[m], file'[m])
    <3>1. LogOk(<<>>, file[m])
      BY DEF LogOk, Ordered, ToSet
    <3>2. messages'[m] = messages[m] \/ messages'[m] = <<>>
      BY <1>1 DEF Typed
    <3> QED
      BY <1>1, <3>1, <3>2 DEF Logs
  <2>2. ASSUME NEW w \in Workers
        PROVE  TaskOk(task'[w], file'[Node(w)])
    BY <1>1, <1>3 DEF Logs, TaskOk
  <2> QED
    BY <2>1, <2>2 DEF Logs
<1>5. ASSUME NEW m \in Nodes
      PROVE  LinedAt(file'[m], torn'[m], Writing(m)')
  <2>1. CASE m = n
    <3>1. torn'[m] = (torn[m] \/ Writing(m) # {})
      BY <1>1, <2>1 DEF Typed, Writing, At
    <3>2. Writing(m)' = {}
      BY <1>1, <1>3, <2>1 DEF Writing, At
    <3> QED
      BY <1>1, <3>1, <3>2 DEF Lined, LinedAt
  <2>2. CASE m # n
    <3>1. torn'[m] = torn[m] /\ Writing(m)' = Writing(m)
      BY <1>1, <2>2 DEF Typed, Writing, At
    <3> QED
      BY <1>1, <3>1 DEF Lined
  <2> QED
    BY <2>1, <2>2
<1> QED
  BY <1>2, <1>4, <1>5 DEF Lined

LEMMA InitIInv == Init => IInv
<1> SUFFICES ASSUME Init PROVE IInv
  OBVIOUS
<1> USE DEF Init
<1>1. Typed
  BY BoundAssumption DEF Typed
<1>2. Idle \in Tasks /\ Idle.at = "idle"
  BY DEF Tasks, Idle
<1>3. \A w \in Workers : TaskOk(task[w], file[Node(w)])
  BY <1>2 DEF TaskOk
<1>4. \A n \in Nodes : FileOk(file[n]) /\ LogOk(messages[n], file[n])
  BY DEF FileOk, LogOk, Ordered, ToSet
<1>5. Lined
  BY <1>2 DEF Lined, LinedAt, Whole, Ended, Writing, At
<1> QED
  BY <1>1, <1>3, <1>4, <1>5 DEF IInv, Logs

LEMMA Inductive == IInv /\ [Next]_vars => IInv'
<1> SUFFICES ASSUME IInv, [Next]_vars PROVE IInv'
  OBVIOUS
<1>1. ASSUME NEW w \in Workers, AppendStep(w) \/ WriteFails(w) PROVE IInv'
  BY <1>1, WriteTextKeeps, WriteNewlineKeeps, InsertKeeps, WriteFailsKeeps DEF AppendStep
<1>2. ASSUME NEW n \in Nodes, Start(n) \/ Stop(n) \/ Say(n) \/ SendForeign(n) PROVE IInv'
  BY <1>2, StartKeeps, StopKeeps, SayKeeps, SendForeignKeeps
<1>3. ASSUME NEW n \in Nodes, ReadLine(n) PROVE IInv'
  BY <1>3, ReadSignedKeeps, ReadSyncRequestKeeps, ReadSyncResponseKeeps DEF ReadLine
<1>4. CASE UNCHANGED vars
  BY <1>4, LinesKeep DEF vars, session, IInv, Typed
<1> QED
  BY <1>1, <1>2, <1>3, <1>4, AskToSyncKeeps DEF Next, Environment

-----------------------------------------------------------------------------
(* The logs, the files and the tasks keep their types. *)
THEOREM TypeCorrect == Spec => []TypeOK
<1>1. IInv => TypeOK
  <2> SUFFICES ASSUME IInv PROVE TypeOK
    OBVIOUS
  <2> USE DEF IInv
  <2>1. messages \in [Nodes -> Seq(SignedMessage)]
    BY DEF Typed, Logs, LogOk
  <2>2. file \in [Nodes -> Seq(SignedMessage \cup {NL})]
    BY DEF Typed, Logs, FileOk
  <2>3. task \in [Workers -> Tasks]
    BY DEF Typed, Logs, TaskOk
  <2> QED
    BY <2>1, <2>2, <2>3 DEF TypeOK, Typed
<1> QED
  BY <1>1, InitIInv, Inductive, PTL DEF Spec

(* A log keeps each message once and in the order of the authors' clocks,   *)
(* whatever order they come in and however often (MessageLog::append).      *)
THEOREM LogsStaySorted == Spec => []SortedOnce
<1>1. IInv => SortedOnce
  BY DEF IInv, Logs, LogOk, Ordered, SortedOnce
<1> QED
  BY <1>1, InitIInv, Inductive, PTL DEF Spec

(* What is in memory was written to the file before (append returns when    *)
(* persist_message fails).                                                 *)
THEOREM MemoryIsOnDisk == Spec => []WrittenFirst
<1>1. IInv => WrittenFirst
  BY DEF IInv, Logs, LogOk, WrittenFirst
<1> QED
  BY <1>1, InitIInv, Inductive, PTL DEF Spec

(* No message that does not verify reaches a log or a file, be it said,     *)
(* received or synchronised (handle_privmsg, process_sync_response).        *)
THEOREM LogsAreVerified == Spec => []OnlyVerified
<1>1. IInv => OnlyVerified
  <2> SUFFICES ASSUME IInv, NEW n \in Nodes, NEW m \in ToSet(messages[n]) \cup ToSet(file[n]), m # NL
               PROVE  verify(m)
    BY DEF OnlyVerified
  <2> QED
    BY DEF IInv, Logs, LogOk, FileOk
<1> QED
  BY <1>1, InitIInv, Inductive, PTL DEF Spec

(* A file of which no line was interrupted can be loaded again in full,     *)
(* however the appends of the two tasks interleave (load_channel).          *)
THEOREM UntornFilesLoad == Spec => []LoadableUnlessTorn
<1>1. IInv => LoadableUnlessTorn
  <2> SUFFICES ASSUME IInv, NEW n \in Nodes, ~torn[n], NEW m \in ToSet(file[n]), m # NL
               PROVE  m \in Loadable(n)
    BY DEF LoadableUnlessTorn
  <2>1. Whole(file[n])
    BY DEF IInv, Lined, LinedAt
  <2>2. PICK j \in DOMAIN file[n] : m = file[n][j]
    BY DEF ToSet
  <2> QED
    BY <2>1, <2>2 DEF Whole, Loadable
<1> QED
  BY <1>1, InitIInv, Inductive, PTL DEF Spec
=============================================================================
