----------------------------- MODULE AudioProofs -----------------------------
(***************************************************************************)
(* Theorems about Audio, for every set of users and of superpeers.         *)
(***************************************************************************)
EXTENDS Audio, FiniteSetTheorems, SequenceTheorems, TLAPS

-----------------------------------------------------------------------------
(* Lemmas about queues. *)

(* How many elements of a queue are in S. *)
Occurs(q, S) == Cardinality({i \in DOMAIN q : q[i] \in S})

LEMMA OccursType ==
    ASSUME NEW T, NEW q \in Seq(T), NEW S
    PROVE  Occurs(q, S) \in Nat /\ IsFiniteSet({i \in DOMAIN q : q[i] \in S})
<1>1. DOMAIN q = 1..Len(q) /\ Len(q) \in Nat
  OBVIOUS
<1>2. IsFiniteSet(1..Len(q))
  BY <1>1, FS_Interval
<1>3. IsFiniteSet({i \in DOMAIN q : q[i] \in S})
  BY <1>1, <1>2, FS_Subset
<1> QED
  BY <1>3, FS_CardinalityType DEF Occurs

LEMMA OccursEmpty ==
    ASSUME NEW S
    PROVE  Occurs(<<>>, S) = 0
  BY FS_EmptySet DEF Occurs

LEMMA OccursAppend ==
    ASSUME NEW T, NEW q \in Seq(T), NEW e, NEW S
    PROVE  Occurs(Append(q, e), S) = Occurs(q, S) + (IF e \in S THEN 1 ELSE 0)
<1> DEFINE t == Append(q, e)
           I == {i \in DOMAIN q : q[i] \in S}
           J == {i \in DOMAIN t : t[i] \in S}
<1>1. PICK n \in Nat : n = Len(q)
  OBVIOUS
<1>2. /\ DOMAIN q = 1..n /\ DOMAIN t = 1..(n + 1)
      /\ \A i \in 1..n : t[i] = q[i]
      /\ t[n + 1] = e
  BY <1>1
<1>3. IsFiniteSet(I) /\ n + 1 \notin I
  <2>1. IsFiniteSet(I)
    BY OccursType
  <2>2. n + 1 \notin 1..n
    OBVIOUS
  <2> QED
    BY <1>2, <2>1, <2>2
<1>4. J = IF e \in S THEN I \cup {n + 1} ELSE I
  <2>1. \A i \in 1..(n + 1) : i \in 1..n \/ i = n + 1
    OBVIOUS
  <2>2. \A i \in 1..n : i \in 1..(n + 1)
    OBVIOUS
  <2>3. n + 1 \in 1..(n + 1) /\ n + 1 \notin 1..n
    OBVIOUS
  <2> HIDE DEF t
  <2> QED
    BY <1>2, <2>1, <2>2, <2>3
<1>5. Occurs(q, S) = Cardinality(I) /\ Occurs(t, S) = Cardinality(J)
  BY DEF Occurs
<1> HIDE DEF I, J, t
<1>6. Cardinality(I \cup {n + 1}) = Cardinality(I) + 1
  BY <1>3, FS_AddElement
<1>7. Cardinality(I) \in Nat
  BY <1>3, FS_CardinalityType
<1>8. Occurs(t, S) = Occurs(q, S) + (IF e \in S THEN 1 ELSE 0)
  BY <1>4, <1>5, <1>6, <1>7
<1> QED
  BY <1>8 DEF t

LEMMA OccursTail ==
    ASSUME NEW T, NEW q \in Seq(T), q # <<>>, NEW S
    PROVE  Occurs(Tail(q), S) = Occurs(q, S) - (IF Head(q) \in S THEN 1 ELSE 0)
<1> DEFINE t == Tail(q)
           I == {i \in DOMAIN t : t[i] \in S}
           J == {i \in DOMAIN q : q[i] \in S}
           f == [i \in I |-> i + 1]
<1>1. PICK n \in Nat : n = Len(q) /\ n # 0
  OBVIOUS
<1>2. /\ DOMAIN q = 1..n /\ DOMAIN t = 1..(n - 1) /\ t \in Seq(T)
      /\ \A i \in 1..(n - 1) : t[i] = q[i + 1]
      /\ Head(q) = q[1]
  BY <1>1
<1> HIDE DEF t
<1>3. IsFiniteSet(I) /\ IsFiniteSet(J)
  BY <1>2, OccursType
<1>4. I \subseteq 1..(n - 1) /\ J \subseteq 1..n
  BY <1>2
<1>5. f \in [I -> J \ {1}]
  BY <1>2, <1>4
<1>6. \A i, j \in I : f[i] = f[j] => i = j
  BY <1>4
<1>7. \A j \in J \ {1} : \E i \in I : f[i] = j
  <2> SUFFICES ASSUME NEW j \in J \ {1}
               PROVE  \E i \in I : f[i] = j
    OBVIOUS
  <2>1. j - 1 \in 1..(n - 1) /\ (j - 1) + 1 = j
    BY <1>4
  <2>2. j - 1 \in I
    BY <1>2, <2>1
  <2> QED
    BY <2>1, <2>2
<1>8. ExistsBijection(I, J \ {1})
  <2>1. f \in Bijection(I, J \ {1})
    BY <1>5, <1>6, <1>7 DEF Bijection, Injection, Surjection, IsInjective
  <2> QED
    BY <2>1 DEF ExistsBijection
<1>9. Cardinality(J \ {1}) = Cardinality(I)
  BY <1>3, <1>8, FS_Bijection
<1>10. Cardinality(J \ {1}) = IF 1 \in J THEN Cardinality(J) - 1 ELSE Cardinality(J)
  BY <1>3, FS_RemoveElement
<1>11. 1 \in J <=> Head(q) \in S
  BY <1>1, <1>2
<1>12. Cardinality(J) \in Nat
  BY <1>3, FS_CardinalityType
<1>13. Occurs(q, S) = Cardinality(J) /\ Occurs(t, S) = Cardinality(I)
  BY DEF Occurs
<1> HIDE DEF I, J
<1>14. Occurs(t, S) = Occurs(q, S) - (IF Head(q) \in S THEN 1 ELSE 0)
  BY <1>9, <1>10, <1>11, <1>12, <1>13
<1> QED
  BY <1>14 DEF t

LEMMA OccursOne ==
    ASSUME NEW e, NEW S
    PROVE  Occurs(<<e>>, S) = IF e \in S THEN 1 ELSE 0
<1>1. PICK q \in Seq({e}) : q = <<>>
  <2>1. <<>> \in Seq({e})
    OBVIOUS
  <2> QED
    BY <2>1
<1>2. Append(q, e) = <<e>> /\ Occurs(q, S) = 0
  BY <1>1, OccursEmpty
<1>3. Occurs(Append(q, e), S) = Occurs(q, S) + (IF e \in S THEN 1 ELSE 0)
  BY OccursAppend
<1> QED
  BY <1>2, <1>3

-----------------------------------------------------------------------------
(* The inductive invariant.  With one superpeer at most, a queue holds      *)
(* nothing of its owner's own voice, and what waits at the superpeer came   *)
(* from the one who spoke.                                                 *)

OneForwards == \A s, t \in Superpeers : s = t

Own(u) == {p \in Packets : p.by = u}
Foreign(u) ==
    {m \in Users \X Packets :
        OneForwards => m[2].by # u /\ (u \in Superpeers => m[1] = m[2].by)}

Carried ==
    /\ peers \in [Users -> SUBSET Users] /\ changing \in [Users -> SUBSET Users]
    /\ relay \in [Users -> {"none", "greeted", "up", "lost"}]
    /\ DOMAIN mic = Users /\ DOMAIN relaying = Users /\ DOMAIN mix = Users /\ DOMAIN fwd = Users
    /\ spoken \in Nat /\ decoded \in [Users -> [Packets -> Nat]]
    /\ \A u \in Users :
        /\ u \notin peers[u] /\ u \notin changing[u]
        /\ mic[u] \in Seq(Own(u)) /\ relaying[u] \in Seq(Own(u)) /\ Len(relaying[u]) <= 1
        /\ mix[u] \in Seq(Foreign(u)) /\ fwd[u] \in Seq(Foreign(u))
        /\ fwd[u] # <<>> => u \in Superpeers
        /\ OneForwards => \A p \in Own(u) : decoded[u][p] = 0

(* What a packet has still to give: one copy to the calls and one to the    *)
(* relay; what a listener has or is about to get; what a superpeer holds.   *)
Copies(p) == {m \in Users \X Packets : m[2] = p}
Unsent(p) ==
    (IF p.nth > spoken THEN 2 ELSE 0) + 2 * Occurs(mic[p.by], {p}) + Occurs(relaying[p.by], {p})
Coming(u, p) == decoded[u][p] + Occurs(mix[u], Copies(p))
ToForward(h, p) == Occurs(mix[h], Copies(p)) + Occurs(fwd[h], Copies(p))

Shares ==
    \A u \in Users, p \in Packets :
        u # p.by =>
            /\ Superpeers \subseteq {u, p.by} => Coming(u, p) + Unsent(p) <= 2
            /\ \A h \in Superpeers \ {u, p.by} :
                   Coming(u, p) + Unsent(p) + ToForward(h, p) + Unsent(p) <= 4

LEMMA InitCarried ==
    ASSUME Init
    PROVE  Carried
<1> USE DEF Init
<1>1. \A u \in Users : <<>> \in Seq(Own(u)) /\ <<>> \in Seq(Foreign(u)) /\ Len(<<>>) = 0
  OBVIOUS
<1>2. decoded \in [Users -> [Packets -> Nat]] /\ \A u \in Users, p \in Packets : decoded[u][p] = 0
  OBVIOUS
<1>3. \A u \in Users : Own(u) \subseteq Packets
  BY DEF Own
<1>4. /\ peers \in [Users -> SUBSET Users] /\ changing \in [Users -> SUBSET Users]
      /\ \A u \in Users : u \notin peers[u] /\ u \notin changing[u]
  OBVIOUS
<1> QED
  BY <1>1, <1>2, <1>3, <1>4 DEF Carried

LEMMA InitShares ==
    ASSUME Init
    PROVE  Shares
<1>1. ASSUME NEW u \in Users, NEW p \in Packets
      PROVE  Coming(u, p) = 0 /\ Unsent(p) = 2 /\ \A h \in Users : ToForward(h, p) = 0
  <2>1. p.by \in Users /\ p.nth > 0 /\ p.nth \in Nat
    BY DEF Packets
  <2>2. mic[p.by] = <<>> /\ relaying[p.by] = <<>> /\ spoken = 0 /\ decoded[u][p] = 0
    BY <2>1 DEF Init
  <2>3. \A h \in Users : mix[h] = <<>> /\ fwd[h] = <<>>
    BY DEF Init
  <2> QED
    BY <2>1, <2>2, <2>3, OccursEmpty DEF Coming, Unsent, ToForward
<1> QED
  BY <1>1, AudioAssumption DEF Shares

(* The counts of the invariant are numbers. *)
Counted ==
    \A p \in Packets :
        /\ p.by \in Users /\ Unsent(p) \in Nat
        /\ \A u \in Users : Coming(u, p) \in Nat /\ ToForward(u, p) \in Nat
        /\ \A u \in Users : decoded[u][p] \in Nat /\ Occurs(mix[u], Copies(p)) \in Nat

LEMMA Numbers == Carried => Counted
<1> SUFFICES ASSUME Carried, NEW p \in Packets
             PROVE  /\ p.by \in Users /\ Unsent(p) \in Nat
                    /\ \A u \in Users : Coming(u, p) \in Nat /\ ToForward(u, p) \in Nat
                    /\ \A u \in Users : decoded[u][p] \in Nat /\ Occurs(mix[u], Copies(p)) \in Nat
  BY DEF Counted
<1>1. p.by \in Users /\ p.nth \in Nat
  BY DEF Packets
<1>2. Occurs(mic[p.by], {p}) \in Nat /\ Occurs(relaying[p.by], {p}) \in Nat
  BY <1>1, OccursType DEF Carried
<1>3. ASSUME NEW u \in Users
      PROVE  /\ Occurs(mix[u], Copies(p)) \in Nat /\ Occurs(fwd[u], Copies(p)) \in Nat
             /\ decoded[u][p] \in Nat
  <2>1. mix[u] \in Seq(Foreign(u)) /\ fwd[u] \in Seq(Foreign(u)) /\ decoded[u][p] \in Nat
    BY DEF Carried
  <2> QED
    BY <2>1, OccursType
<1>4. Unsent(p) \in Nat
  BY <1>1, <1>2 DEF Unsent, Carried
<1> QED
  BY <1>1, <1>3, <1>4 DEF Coming, ToForward

(* What is delivered is one copy more for each of the receivers. *)
LEMMA HeardOccurs ==
    ASSUME Carried, NEW to, NEW n \in Users, NEW q \in Packets, mix' = Heard(to, n, q),
           NEW v \in Users, NEW p \in Packets
    PROVE  /\ p = q /\ v \in to => Occurs(mix'[v], Copies(p)) = Occurs(mix[v], Copies(p)) + 1
           /\ p # q \/ v \notin to => Occurs(mix'[v], Copies(p)) = Occurs(mix[v], Copies(p))
<1>1. mix'[v] = IF v \in to THEN Append(mix[v], <<n, q>>) ELSE mix[v]
  BY DEF Heard
<1>2. <<n, q>> \in Copies(p) <=> p = q
  BY DEF Copies
<1>3. mix[v] \in Seq(Foreign(v))
  BY DEF Carried
<1>4. Occurs(mix[v], Copies(p)) \in Nat
  BY <1>3, OccursType
<1>5. Occurs(Append(mix[v], <<n, q>>), Copies(p)) =
          Occurs(mix[v], Copies(p)) + (IF <<n, q>> \in Copies(p) THEN 1 ELSE 0)
  BY <1>3, OccursAppend
<1> QED
  BY <1>1, <1>2, <1>4, <1>5

LEMMA HeardCarried ==
    ASSUME Carried, NEW to, NEW n \in Users, NEW q \in Packets, mix' = Heard(to, n, q),
           \A v \in Users : v \in to => <<n, q>> \in Foreign(v)
    PROVE  DOMAIN mix' = Users /\ \A v \in Users : mix'[v] \in Seq(Foreign(v))
<1>1. DOMAIN mix' = Users
  BY DEF Heard
<1>2. ASSUME NEW v \in Users
      PROVE  mix'[v] \in Seq(Foreign(v))
  <2>1. mix'[v] = IF v \in to THEN Append(mix[v], <<n, q>>) ELSE mix[v]
    BY DEF Heard
  <2>2. mix[v] \in Seq(Foreign(v))
    BY DEF Carried
  <2> QED
    BY <2>1, <2>2
<1> QED
  BY <1>1, <1>2

-----------------------------------------------------------------------------
(* Every action but Forward takes from what is unsent what it adds to what  *)
(* comes to a listener or waits at a superpeer.                            *)

Balanced ==
    \A p \in Packets :
        /\ \A u \in Users : u # p.by => Coming(u, p)' + Unsent(p)' <= Coming(u, p) + Unsent(p)
        /\ \A h \in Superpeers : ToForward(h, p)' + Unsent(p)' <= ToForward(h, p) + Unsent(p)

LEMMA BalancedKeeps ==
    ASSUME Carried, Carried', Shares, Balanced
    PROVE  Shares'
<1>1. ASSUME NEW u \in Users, NEW p \in Packets, u # p.by
      PROVE  /\ Superpeers \subseteq {u, p.by} => Coming(u, p)' + Unsent(p)' <= 2
             /\ \A h \in Superpeers \ {u, p.by} :
                   Coming(u, p)' + Unsent(p)' + ToForward(h, p)' + Unsent(p)' <= 4
  <2>1. Coming(u, p)' + Unsent(p)' <= Coming(u, p) + Unsent(p)
    BY <1>1 DEF Balanced
  <2>2. \A h \in Superpeers : h \in Users /\
            ToForward(h, p)' + Unsent(p)' <= ToForward(h, p) + Unsent(p)
    BY AudioAssumption DEF Balanced, Carried
  <2>3. /\ Superpeers \subseteq {u, p.by} => Coming(u, p) + Unsent(p) <= 2
        /\ \A h \in Superpeers \ {u, p.by} :
               Coming(u, p) + Unsent(p) + ToForward(h, p) + Unsent(p) <= 4
    BY <1>1 DEF Shares
  <2>4. Counted /\ Counted'
    BY Numbers, PTL
  <2>5. /\ Unsent(p) \in Nat /\ \A v \in Users : Coming(v, p) \in Nat /\ ToForward(v, p) \in Nat
        /\ Unsent(p)' \in Nat /\ \A v \in Users : Coming(v, p)' \in Nat /\ ToForward(v, p)' \in Nat
    BY <2>4 DEF Counted
  <2> QED
    BY <2>1, <2>2, <2>3, <2>5
<1> QED
  BY <1>1 DEF Shares

(* Nothing the accounts mention has changed. *)
LEMMA SameBalanced ==
    ASSUME Carried, UNCHANGED <<mic, mix, fwd, relaying, spoken, decoded>>
    PROVE  Balanced
<1>1. ASSUME NEW p \in Packets
      PROVE  Unsent(p)' = Unsent(p) /\ \A u \in Users : Coming(u, p)' = Coming(u, p)
             /\ ToForward(u, p)' = ToForward(u, p)
  BY DEF Unsent, Coming, ToForward, Copies, Packets
<1>2. Counted
  BY Numbers
<1>3. Superpeers \subseteq Users
  BY AudioAssumption
<1> QED
  BY <1>1, <1>2, <1>3 DEF Balanced, Counted

(* The relay connection and the table of peers. *)
LEMMA TablesKeep ==
    ASSUME Carried, NEW u \in Users,
           \/ RelayConnect(u) \/ RelayAccept(u) \/ RelayLost(u) \/ Change(u)
           \/ \E v \in Users : WantChange(u, v)
    PROVE  Carried' /\ Balanced
<1>1. UNCHANGED <<mic, mix, fwd, relaying, spoken, decoded>>
  BY DEF RelayConnect, RelayAccept, RelayLost, Change, WantChange
<1>2. relay' \in [Users -> {"none", "greeted", "up", "lost"}]
  BY DEF RelayConnect, RelayAccept, RelayLost, Change, WantChange, Carried
<1>3. /\ peers' \in [Users -> SUBSET Users] /\ changing' \in [Users -> SUBSET Users]
      /\ \A v \in Users : v \notin peers'[v] /\ v \notin changing'[v]
  <2>1. CASE UNCHANGED <<peers, changing>>
    BY <2>1 DEF Carried
  <2>2. CASE Change(u)
    <3>1. SymDiff(peers[u], changing[u]) \subseteq Users \ {u}
      BY DEF SymDiff, Carried
    <3>2. peers' = [peers EXCEPT ![u] = SymDiff(@, changing[u])]
          /\ changing' = [changing EXCEPT ![u] = {}]
      BY <2>2 DEF Change
    <3> QED
      BY <3>1, <3>2 DEF Carried
  <2>3. CASE \E v \in Users : WantChange(u, v)
    BY <2>3 DEF WantChange, Carried
  <2> QED
    BY <2>1, <2>2, <2>3 DEF RelayConnect, RelayAccept, RelayLost
<1>4. Carried'
  BY <1>1, <1>2, <1>3 DEF Carried
<1> QED
  BY <1>1, <1>4, SameBalanced

LEMMA SpeakKeeps ==
    ASSUME Carried, NEW u \in Users, Speak(u)
    PROVE  Carried' /\ Balanced
<1> DEFINE q == [by |-> u, nth |-> spoken + 1]
<1>1. /\ spoken \in Nat /\ spoken' = spoken + 1 /\ mic' = [mic EXCEPT ![u] = Append(@, q)]
      /\ UNCHANGED <<peers, relay, mix, fwd, relaying, changing, decoded>>
  BY DEF Speak, Carried
<1>2. q \in Packets /\ q \in Own(u) /\ q.by = u /\ q.nth = spoken + 1
  <2>1. spoken < MaxSpoken /\ spoken \in Nat /\ MaxSpoken \in Nat
    BY AudioAssumption DEF Speak, Carried
  <2> QED
    BY <2>1 DEF Packets, Own
<1> HIDE DEF q
<1>3. DOMAIN mic' = Users /\ \A v \in Users : mic'[v] \in Seq(Own(v))
  BY <1>1, <1>2 DEF Carried
<1>4. Carried'
  BY <1>1, <1>3 DEF Carried
<1>5. ASSUME NEW p \in Packets
      PROVE  Unsent(p)' <= Unsent(p)
  <2>1. p.by \in Users /\ p.nth \in Nat /\ (p.by = u /\ p = q => p.nth = spoken + 1)
    BY <1>2 DEF Packets
  <2>2. /\ Occurs(mic[p.by], {p}) \in Nat /\ Occurs(relaying[p.by], {p}) \in Nat
        /\ Occurs(Append(mic[p.by], q), {p}) =
               Occurs(mic[p.by], {p}) + (IF q \in {p} THEN 1 ELSE 0)
    <3>1. mic[p.by] \in Seq(Own(p.by)) /\ relaying[p.by] \in Seq(Own(p.by))
      BY <2>1 DEF Carried
    <3>2. Occurs(mic[p.by], {p}) \in Nat /\ Occurs(relaying[p.by], {p}) \in Nat
      BY <3>1, OccursType
    <3>3. Occurs(Append(mic[p.by], q), {p}) =
              Occurs(mic[p.by], {p}) + (IF q \in {p} THEN 1 ELSE 0)
      BY <3>1, OccursAppend
    <3> QED
      BY <3>2, <3>3
  <2>3. mic'[p.by] = IF p.by = u THEN Append(mic[p.by], q) ELSE mic[p.by]
    BY <1>1, <2>1 DEF Carried
  <2>4. p.nth > spoken' => p.nth > spoken
    BY <1>1, <2>1
  <2>5. p = q => p.by = u /\ p.nth > spoken /\ ~(p.nth > spoken')
    BY <1>1, <1>2, <2>1
  <2>6. Occurs(mic'[p.by], {p}) = Occurs(mic[p.by], {p}) + (IF p = q THEN 1 ELSE 0)
    BY <1>2, <2>2, <2>3
  <2> QED
    BY <1>1, <2>2, <2>4, <2>5, <2>6 DEF Unsent
<1>6. ASSUME NEW p \in Packets, NEW v \in Users
      PROVE  Coming(v, p)' = Coming(v, p) /\ ToForward(v, p)' = ToForward(v, p)
  BY <1>1 DEF Coming, ToForward, Copies, Packets
<1>7. Counted /\ Counted' /\ Superpeers \subseteq Users
  <2>1. Counted /\ Counted'
    BY <1>4, Numbers, PTL
  <2> QED
    BY <2>1, AudioAssumption DEF Carried
<1>8. ASSUME NEW p \in Packets, NEW v \in Users
      PROVE  /\ Coming(v, p)' + Unsent(p)' <= Coming(v, p) + Unsent(p)
             /\ ToForward(v, p)' + Unsent(p)' <= ToForward(v, p) + Unsent(p)
  BY <1>5, <1>6, <1>7 DEF Counted
<1>9. Balanced
  BY <1>7, <1>8 DEF Balanced
<1> QED
  BY <1>4, <1>9

(* A packet goes from the mic task or from the relay to the listeners. *)
LEMMA SendBalanced ==
    ASSUME Carried, Carried', UNCHANGED <<fwd, decoded>>,
           NEW to, NEW n \in Users, NEW q \in Packets, mix' = Heard(to, n, q),
           \A p \in Packets : Unsent(p)' <= Unsent(p) - (IF p = q THEN 1 ELSE 0)
    PROVE  Balanced
<1>1. Counted /\ Counted' /\ Superpeers \subseteq Users
  <2>1. Counted /\ Counted'
    BY Numbers, PTL
  <2> QED
    BY <2>1, AudioAssumption DEF Carried
<1>2. ASSUME NEW p \in Packets, NEW v \in Users
      PROVE  /\ Coming(v, p)' <= Coming(v, p) + (IF p = q THEN 1 ELSE 0)
             /\ ToForward(v, p)' <= ToForward(v, p) + (IF p = q THEN 1 ELSE 0)
  <2>1. \/ Occurs(mix'[v], Copies(p)) = Occurs(mix[v], Copies(p))
        \/ p = q /\ Occurs(mix'[v], Copies(p)) = Occurs(mix[v], Copies(p)) + 1
    BY HeardOccurs
  <2>2. Occurs(mix[v], Copies(p)) \in Nat /\ decoded[v][p] \in Nat
    BY <1>1 DEF Counted
  <2>3. Occurs(fwd[v], Copies(p)) \in Nat
    <3>1. fwd[v] \in Seq(Foreign(v))
      BY DEF Carried
    <3> QED
      BY <3>1, OccursType
  <2>4. /\ Coming(v, p)' = decoded[v][p] + Occurs(mix'[v], Copies(p))
        /\ ToForward(v, p)' = Occurs(mix'[v], Copies(p)) + Occurs(fwd[v], Copies(p))
    BY DEF Coming, ToForward, Copies, Packets
  <2> QED
    BY <2>1, <2>2, <2>3, <2>4 DEF Coming, ToForward
<1>3. ASSUME NEW p \in Packets, NEW v \in Users
      PROVE  /\ Coming(v, p)' + Unsent(p)' <= Coming(v, p) + Unsent(p)
             /\ ToForward(v, p)' + Unsent(p)' <= ToForward(v, p) + Unsent(p)
  BY <1>1, <1>2 DEF Counted
<1> QED
  BY <1>1, <1>3 DEF Balanced

LEMMA MicSendsKeeps ==
    ASSUME Carried, NEW u \in Users, MicSends(u)
    PROVE  Carried' /\ Balanced
<1>1. PICK q, to : /\ q = Head(mic[u]) /\ to \in SUBSET peers[u] /\ mix' = Heard(to, u, q)
  BY DEF MicSends
<1>2. /\ mic[u] # <<>> /\ relaying[u] = <<>> /\ mic' = [mic EXCEPT ![u] = Tail(@)]
      /\ relaying' = [relaying EXCEPT ![u] = IF HasRelay(u) THEN <<q>> ELSE <<>>]
      /\ UNCHANGED <<peers, relay, fwd, changing, spoken, decoded>>
  BY <1>1 DEF MicSends
<1>3. mic[u] \in Seq(Own(u)) /\ q \in Own(u) /\ q \in Packets /\ q.by = u
      /\ Tail(mic[u]) \in Seq(Own(u))
  <2>1. mic[u] \in Seq(Own(u))
    BY DEF Carried
  <2>2. q \in Own(u) /\ Tail(mic[u]) \in Seq(Own(u))
    BY <1>1, <1>2, <2>1
  <2> QED
    BY <2>1, <2>2 DEF Own
<1>4. \A v \in Users : v \in to => <<u, q>> \in Foreign(v)
  BY <1>1, <1>3 DEF Foreign, Carried
<1>5. DOMAIN mix' = Users /\ \A v \in Users : mix'[v] \in Seq(Foreign(v))
  BY <1>1, <1>3, <1>4, HeardCarried
<1>6. /\ DOMAIN mic' = Users /\ DOMAIN relaying' = Users
      /\ \A v \in Users : mic'[v] \in Seq(Own(v)) /\ relaying'[v] \in Seq(Own(v))
                          /\ Len(relaying'[v]) <= 1
  <2>1. \A r \in Own(u) : <<r>> \in Seq(Own(u)) /\ Len(<<r>>) = 1
    OBVIOUS
  <2>2. <<>> \in Seq(Own(u)) /\ Len(<<>>) = 0
    OBVIOUS
  <2> QED
    BY <1>2, <1>3, <2>1, <2>2 DEF Carried
<1>7. Carried'
  BY <1>2, <1>5, <1>6 DEF Carried
<1>8. ASSUME NEW p \in Packets
      PROVE  Unsent(p)' <= Unsent(p) - (IF p = q THEN 1 ELSE 0)
  <2>1. p.by \in Users /\ spoken \in Nat /\ p.nth \in Nat
    BY DEF Carried, Packets
  <2>2. CASE p.by # u
    <3>1. mic'[p.by] = mic[p.by] /\ relaying'[p.by] = relaying[p.by] /\ p # q
      BY <1>2, <1>3, <2>1, <2>2 DEF Carried
    <3>2. Unsent(p) \in Nat /\ Unsent(p)' = Unsent(p)
      <4>1. Unsent(p) \in Nat
        BY Numbers DEF Counted
      <4> QED
        BY <1>2, <3>1, <4>1 DEF Unsent
    <3> QED
      BY <3>1, <3>2
  <2>3. CASE p.by = u
    <3>1. mic'[u] = Tail(mic[u]) /\ relaying'[u] \in {<<>>, <<q>>} /\ relaying[u] = <<>>
      BY <1>2 DEF Carried
    <3>2. Occurs(Tail(mic[u]), {p}) = Occurs(mic[u], {p}) - (IF q \in {p} THEN 1 ELSE 0)
      BY <1>1, <1>2, <1>3, OccursTail
    <3>3. Occurs(<<>>, {p}) = 0 /\ Occurs(<<q>>, {p}) = IF p = q THEN 1 ELSE 0
      BY OccursEmpty, OccursOne
    <3>4. Occurs(mic[u], {p}) \in Nat
      BY <1>3, OccursType
    <3>5. /\ Unsent(p) = (IF p.nth > spoken THEN 2 ELSE 0) + 2 * Occurs(mic[u], {p})
                         + Occurs(relaying[u], {p})
          /\ Unsent(p)' = (IF p.nth > spoken THEN 2 ELSE 0) + 2 * Occurs(mic'[u], {p})
                          + Occurs(relaying'[u], {p})
      BY <1>2, <2>3 DEF Unsent
    <3> QED
      BY <3>1, <3>2, <3>3, <3>4, <3>5
  <2> QED
    BY <2>2, <2>3
<1> QED
  BY <1>1, <1>2, <1>3, <1>7, <1>8, SendBalanced

LEMMA OnlyOne ==
    ASSUME NEW T, NEW r \in Seq(T), r # <<>>, Len(r) <= 1
    PROVE  r = <<r[1]>> /\ r[1] \in T
<1>1. PICK n \in Nat : n = Len(r) /\ n # 0
  OBVIOUS
<1>2. Len(r) = 1
  BY <1>1
<1> QED
  BY <1>2

(* What the mic task has given to the relay, or has failed to give. *)
LEMMA GivenUpLess ==
    ASSUME Carried, NEW u \in Users, relaying[u] # <<>>, relaying' = [relaying EXCEPT ![u] = <<>>],
           UNCHANGED <<mic, spoken>>
    PROVE  /\ relaying[u][1] \in Own(u)
           /\ \A p \in Packets :
                  Unsent(p)' <= Unsent(p) - (IF p = relaying[u][1] THEN 1 ELSE 0)
<1>1. PICK q : q = relaying[u][1]
  OBVIOUS
<1>2. relaying[u] \in Seq(Own(u)) /\ Len(relaying[u]) <= 1
  BY DEF Carried
<1>3. relaying[u] = <<q>> /\ q \in Own(u) /\ q.by = u
  <2>1. q \in Own(u) /\ relaying[u] = <<q>>
    BY <1>1, <1>2, OnlyOne
  <2> QED
    BY <2>1 DEF Own
<1>4. ASSUME NEW p \in Packets
      PROVE  Unsent(p)' <= Unsent(p) - (IF p = q THEN 1 ELSE 0)
  <2>1. p.by \in Users /\ spoken \in Nat /\ p.nth \in Nat
    BY DEF Carried, Packets
  <2>2. Unsent(p) \in Nat
    BY Numbers DEF Counted
  <2>3. CASE p.by # u
    <3>1. relaying'[p.by] = relaying[p.by] /\ p # q
      BY <1>3, <2>1, <2>3 DEF Carried
    <3>2. Unsent(p)' = Unsent(p)
      BY <3>1 DEF Unsent
    <3> QED
      BY <2>2, <3>1, <3>2
  <2>4. CASE p.by = u
    <3>1. relaying'[u] = <<>> /\ relaying[u] = <<q>>
      BY <1>3 DEF Carried
    <3>2. Occurs(<<>>, {p}) = 0 /\ Occurs(<<q>>, {p}) = IF p = q THEN 1 ELSE 0
      BY OccursEmpty, OccursOne
    <3>3. Occurs(mic[u], {p}) \in Nat
      <4>1. mic[u] \in Seq(Own(u))
        BY DEF Carried
      <4> QED
        BY <4>1, OccursType
    <3>4. /\ Unsent(p) = (IF p.nth > spoken THEN 2 ELSE 0) + 2 * Occurs(mic[u], {p})
                         + Occurs(relaying[u], {p})
          /\ Unsent(p)' = (IF p.nth > spoken THEN 2 ELSE 0) + 2 * Occurs(mic[u], {p})
                          + Occurs(relaying'[u], {p})
      BY <2>4 DEF Unsent
    <3> QED
      BY <3>1, <3>2, <3>3, <3>4
  <2> QED
    BY <2>3, <2>4
<1> QED
  BY <1>1, <1>3, <1>4

LEMMA RelayingCarried ==
    ASSUME Carried, NEW u \in Users, relaying' = [relaying EXCEPT ![u] = <<>>]
    PROVE  /\ DOMAIN relaying' = Users
           /\ \A v \in Users : relaying'[v] \in Seq(Own(v)) /\ Len(relaying'[v]) <= 1
<1>1. <<>> \in Seq(Own(u)) /\ Len(<<>>) = 0
  OBVIOUS
<1> QED
  BY <1>1 DEF Carried

LEMMA RelayForwardsKeeps ==
    ASSUME Carried, NEW u \in Users, RelayForwards(u)
    PROVE  Carried' /\ Balanced
<1>1. PICK q, to : q = relaying[u][1] /\ to = RelayTargets(u)
  OBVIOUS
<1>2. /\ relaying[u] # <<>> /\ relaying' = [relaying EXCEPT ![u] = <<>>]
      /\ mix' = Heard(to, u, q)
      /\ UNCHANGED <<peers, relay, mic, fwd, changing, spoken, decoded>>
  BY <1>1 DEF RelayForwards
<1>3. q \in Own(u) /\ q \in Packets /\ q.by = u
  BY <1>1, <1>2, GivenUpLess DEF Own
<1>4. \A v \in Users : v \in to => <<u, q>> \in Foreign(v)
  BY <1>1, <1>3 DEF Foreign, RelayTargets
<1>5. DOMAIN mix' = Users /\ \A v \in Users : mix'[v] \in Seq(Foreign(v))
  BY <1>2, <1>3, <1>4, HeardCarried
<1>6. Carried'
  BY <1>2, <1>5, RelayingCarried DEF Carried
<1>7. \A p \in Packets : Unsent(p)' <= Unsent(p) - (IF p = q THEN 1 ELSE 0)
  BY <1>1, <1>2, GivenUpLess
<1> QED
  BY <1>2, <1>3, <1>6, <1>7, SendBalanced

LEMMA MicGivesUpKeeps ==
    ASSUME Carried, NEW u \in Users, MicGivesUp(u)
    PROVE  Carried' /\ Balanced
<1>1. /\ relaying[u] # <<>> /\ relaying' = [relaying EXCEPT ![u] = <<>>]
      /\ UNCHANGED <<peers, relay, mic, mix, fwd, changing, spoken, decoded>>
  BY DEF MicGivesUp
<1>2. Carried'
  BY <1>1, RelayingCarried DEF Carried
<1>3. Counted /\ Counted' /\ Superpeers \subseteq Users
  <2>1. Counted /\ Counted'
    BY <1>2, Numbers, PTL
  <2> QED
    BY <2>1, AudioAssumption DEF Carried
<1>4. ASSUME NEW p \in Packets, NEW v \in Users
      PROVE  /\ Coming(v, p)' + Unsent(p)' <= Coming(v, p) + Unsent(p)
             /\ ToForward(v, p)' + Unsent(p)' <= ToForward(v, p) + Unsent(p)
  <2>1. Unsent(p)' <= Unsent(p) - (IF p = relaying[u][1] THEN 1 ELSE 0)
    BY <1>1, GivenUpLess
  <2>2. Coming(v, p)' = Coming(v, p) /\ ToForward(v, p)' = ToForward(v, p)
    BY <1>1 DEF Coming, ToForward, Copies, Packets
  <2> QED
    BY <1>3, <2>1, <2>2 DEF Counted
<1> QED
  BY <1>2, <1>3, <1>4 DEF Balanced

(* The mix task takes a packet from the queue, decodes it, and at a         *)
(* superpeer hands it on.                                                  *)
LEMMA MixKeeps ==
    ASSUME Carried, NEW u \in Users, Mix(u)
    PROVE  Carried' /\ Balanced
<1>1. PICK m, n, q : m = Head(mix[u]) /\ n = m[1] /\ q = m[2]
  OBVIOUS
<1>2. /\ mix[u] # <<>> /\ mix' = [mix EXCEPT ![u] = Tail(@)]
      /\ decoded' = [decoded EXCEPT ![u][q] = @ + 1]
      /\ fwd' = IF u \in Superpeers THEN [fwd EXCEPT ![u] = Append(@, <<n, q>>)] ELSE fwd
      /\ UNCHANGED <<peers, relay, mic, relaying, changing, spoken>>
  BY <1>1 DEF Mix
<1>3. /\ mix[u] \in Seq(Foreign(u)) /\ m \in Foreign(u) /\ Tail(mix[u]) \in Seq(Foreign(u))
      /\ fwd[u] \in Seq(Foreign(u))
  BY <1>1, <1>2 DEF Carried
<1>4. m = <<n, q>> /\ n \in Users /\ q \in Packets /\ (OneForwards => q \notin Own(u))
  BY <1>1, <1>3 DEF Foreign, Own
<1>5. Carried'
  <2>1. decoded' \in [Users -> [Packets -> Nat]]
    <3>1. decoded \in [Users -> [Packets -> Nat]]
      BY DEF Carried
    <3>2. decoded[u][q] + 1 \in Nat
      BY <1>4, <3>1
    <3>3. [decoded[u] EXCEPT ![q] = decoded[u][q] + 1] \in [Packets -> Nat]
      BY <3>1, <3>2
    <3>4. decoded' = [decoded EXCEPT ![u] = [decoded[u] EXCEPT ![q] = decoded[u][q] + 1]]
      BY <1>2
    <3> QED
      BY <3>1, <3>3, <3>4
  <2>2. ASSUME OneForwards, NEW v \in Users, NEW p \in Own(v)
        PROVE  decoded'[v][p] = 0
    <3>1. /\ decoded \in [Users -> [Packets -> Nat]] /\ p \in Packets
          /\ decoded[v][p] = 0 /\ (v = u => p # q)
      BY <1>4, <2>2 DEF Carried, Own
    <3>2. CASE v = u
      <4>1. decoded'[u] = [decoded[u] EXCEPT ![q] = decoded[u][q] + 1]
        BY <1>2, <3>1
      <4> QED
        BY <3>1, <3>2, <4>1
    <3>3. CASE v # u
      BY <1>2, <3>1, <3>3
    <3> QED
      BY <3>2, <3>3
  <2>3. DOMAIN mix' = Users /\ \A v \in Users : mix'[v] \in Seq(Foreign(v))
    BY <1>2, <1>3 DEF Carried
  <2>4. /\ DOMAIN fwd' = Users
        /\ \A v \in Users : fwd'[v] \in Seq(Foreign(v)) /\ (fwd'[v] # <<>> => v \in Superpeers)
    <3>1. DOMAIN fwd = Users
          /\ \A v \in Users : fwd[v] \in Seq(Foreign(v)) /\ (fwd[v] # <<>> => v \in Superpeers)
      BY DEF Carried
    <3>2. Append(fwd[u], <<n, q>>) \in Seq(Foreign(u))
      BY <1>3, <1>4
    <3>3. CASE u \in Superpeers
      BY <1>2, <3>1, <3>2, <3>3
    <3>4. CASE u \notin Superpeers
      BY <1>2, <3>1, <3>4
    <3> QED
      BY <3>3, <3>4
  <2> QED
    BY <1>2, <2>1, <2>2, <2>3, <2>4 DEF Carried
<1>6. Counted /\ Counted' /\ Superpeers \subseteq Users
  <2>1. Counted /\ Counted'
    BY <1>5, Numbers, PTL
  <2> QED
    BY <2>1, AudioAssumption DEF Carried
<1>7. ASSUME NEW p \in Packets, NEW v \in Users
      PROVE  /\ Coming(v, p)' = Coming(v, p)
             /\ v \in Superpeers => ToForward(v, p)' = ToForward(v, p)
             /\ Unsent(p)' = Unsent(p)
  <2>1. Unsent(p)' = Unsent(p)
    BY <1>2 DEF Unsent
  <2>2. /\ Coming(v, p)' = decoded'[v][p] + Occurs(mix'[v], Copies(p))
        /\ ToForward(v, p)' = Occurs(mix'[v], Copies(p)) + Occurs(fwd'[v], Copies(p))
    BY DEF Coming, ToForward, Copies, Packets
  <2>3. CASE v # u
    <3>1. mix'[v] = mix[v] /\ fwd'[v] = fwd[v] /\ decoded'[v] = decoded[v]
      BY <1>2, <2>3 DEF Carried
    <3> QED
      BY <2>1, <2>2, <3>1 DEF Coming, ToForward
  <2>4. CASE v = u
    <3>1. m \in Copies(p) <=> p = q
      BY <1>4 DEF Copies
    <3>2. Occurs(Tail(mix[u]), Copies(p)) =
              Occurs(mix[u], Copies(p)) - (IF m \in Copies(p) THEN 1 ELSE 0)
      BY <1>1, <1>2, <1>3, OccursTail
    <3>3. Occurs(Append(fwd[u], m), Copies(p)) =
              Occurs(fwd[u], Copies(p)) + (IF m \in Copies(p) THEN 1 ELSE 0)
      BY <1>3, OccursAppend
    <3>4. mix'[u] = Tail(mix[u]) /\ (u \in Superpeers => fwd'[u] = Append(fwd[u], m))
      BY <1>2, <1>4 DEF Carried
    <3>5. decoded'[u][p] = decoded[u][p] + (IF p = q THEN 1 ELSE 0)
      <4>1. decoded[u] \in [Packets -> Nat] /\ DOMAIN decoded = Users
        BY DEF Carried
      <4>2. decoded'[u] = [decoded[u] EXCEPT ![q] = decoded[u][q] + 1]
        BY <1>2, <4>1
      <4> QED
        BY <1>4, <4>1, <4>2
    <3>6. /\ Occurs(mix[u], Copies(p)) \in Nat /\ decoded[u][p] \in Nat
          /\ Occurs(fwd[u], Copies(p)) \in Nat
      BY <1>3, <1>6, OccursType DEF Counted
    <3>7. /\ Coming(u, p) = decoded[u][p] + Occurs(mix[u], Copies(p))
          /\ ToForward(u, p) = Occurs(mix[u], Copies(p)) + Occurs(fwd[u], Copies(p))
          /\ ToForward(u, p)' = Occurs(mix'[u], Copies(p)) + Occurs(fwd'[u], Copies(p))
      BY DEF Coming, ToForward, Copies, Packets
    <3>8. Coming(u, p)' = Coming(u, p)
      BY <2>2, <2>4, <3>1, <3>2, <3>4, <3>5, <3>6, <3>7
    <3>9. ASSUME u \in Superpeers
          PROVE  ToForward(u, p)' = ToForward(u, p)
      <4>1. PICK d \in {0, 1} : d = IF m \in Copies(p) THEN 1 ELSE 0
        OBVIOUS
      <4>2. Occurs(mix'[u], Copies(p)) = Occurs(mix[u], Copies(p)) - d
        BY <3>2, <3>4, <4>1
      <4>3. Occurs(fwd'[u], Copies(p)) = Occurs(fwd[u], Copies(p)) + d
        BY <3>3, <3>4, <3>9, <4>1
      <4> QED
        BY <3>6, <3>7, <4>2, <4>3
    <3> QED
      BY <2>1, <2>4, <3>8, <3>9
  <2> QED
    BY <2>3, <2>4
<1>8. ASSUME NEW p \in Packets
      PROVE  /\ \A v \in Users : Coming(v, p)' + Unsent(p)' <= Coming(v, p) + Unsent(p)
             /\ \A h \in Superpeers : ToForward(h, p)' + Unsent(p)' <= ToForward(h, p) + Unsent(p)
  BY <1>6, <1>7 DEF Counted
<1> QED
  BY <1>5, <1>8 DEF Balanced

(* What the superpeer forwards goes from what it holds to the listeners,    *)
(* and to nobody who spoke it.                                             *)
LEMMA ForwardKeeps ==
    ASSUME Carried, NEW u \in Users, Forward(u)
    PROVE  Carried' /\ (OneForwards /\ Shares => Shares')
<1>1. PICK m, n, q : m = Head(fwd[u]) /\ n = m[1] /\ q = m[2]
  OBVIOUS
<1>2. PICK to : to \in SUBSET ForwardTargets(u, n) /\ mix' = Heard(to, u, q)
  BY <1>1 DEF Forward
<1>3. /\ fwd[u] # <<>> /\ fwd' = [fwd EXCEPT ![u] = Tail(@)]
      /\ UNCHANGED <<peers, relay, mic, relaying, changing, spoken, decoded>>
  BY DEF Forward
<1>4. /\ fwd[u] \in Seq(Foreign(u)) /\ m \in Foreign(u) /\ Tail(fwd[u]) \in Seq(Foreign(u))
      /\ u \in Superpeers
  BY <1>1, <1>3 DEF Carried
<1>5. /\ m = <<n, q>> /\ n \in Users /\ q \in Packets
      /\ OneForwards => q.by # u /\ n = q.by
  BY <1>1, <1>4 DEF Foreign
<1>6. \A v \in Users : v \in to => v # u /\ v # n
  BY <1>2 DEF ForwardTargets, Carried
<1>7. ASSUME NEW v \in Users, v \in to
      PROVE  <<u, q>> \in Foreign(v)
  <2>1. OneForwards => q.by # v /\ v \notin Superpeers
    BY <1>4, <1>5, <1>6, <1>7 DEF OneForwards
  <2> QED
    BY <1>5, <2>1 DEF Foreign
<1>8. DOMAIN mix' = Users /\ \A v \in Users : mix'[v] \in Seq(Foreign(v))
  BY <1>2, <1>5, <1>7, HeardCarried
<1>9. Carried'
  BY <1>3, <1>4, <1>8 DEF Carried
<1>10. Counted /\ Counted'
  BY <1>9, Numbers, PTL
<1>11. ASSUME OneForwards, NEW p \in Packets, NEW v \in Users, v # p.by
       PROVE  /\ v = u \/ p # q => Coming(v, p)' = Coming(v, p)
              /\ v # u /\ p = q => Coming(v, p)' <= Coming(v, p) + 1
  <2>1. Coming(v, p)' = decoded[v][p] + Occurs(mix'[v], Copies(p))
    BY <1>3 DEF Coming, Copies, Packets
  <2>2. /\ p = q /\ v \in to => Occurs(mix'[v], Copies(p)) = Occurs(mix[v], Copies(p)) + 1
        /\ p # q \/ v \notin to => Occurs(mix'[v], Copies(p)) = Occurs(mix[v], Copies(p))
    BY <1>2, <1>5, HeardOccurs
  <2>3. Occurs(mix[v], Copies(p)) \in Nat /\ decoded[v][p] \in Nat
    BY <1>10 DEF Counted
  <2> QED
    BY <1>6, <2>1, <2>2, <2>3 DEF Coming
<1>12. ASSUME NEW p \in Packets
       PROVE  ToForward(u, p)' = ToForward(u, p) - (IF p = q THEN 1 ELSE 0)
  <2>1. ToForward(u, p)' = Occurs(mix'[u], Copies(p)) + Occurs(fwd'[u], Copies(p))
    BY DEF ToForward, Copies, Packets
  <2>2. Occurs(mix'[u], Copies(p)) = Occurs(mix[u], Copies(p))
    BY <1>2, <1>5, <1>6, HeardOccurs
  <2>3. Occurs(Tail(fwd[u]), Copies(p)) =
            Occurs(fwd[u], Copies(p)) - (IF m \in Copies(p) THEN 1 ELSE 0)
    BY <1>1, <1>3, <1>4, OccursTail
  <2>4. fwd'[u] = Tail(fwd[u]) /\ (m \in Copies(p) <=> p = q)
    BY <1>3, <1>5 DEF Carried, Copies
  <2>5. Occurs(mix[u], Copies(p)) \in Nat /\ Occurs(fwd[u], Copies(p)) \in Nat
    <3>1. Occurs(fwd[u], Copies(p)) \in Nat
      BY <1>4, OccursType
    <3> QED
      BY <1>10, <3>1 DEF Counted
  <2> QED
    BY <2>1, <2>2, <2>3, <2>4, <2>5 DEF ToForward
<1>13. ASSUME OneForwards, Shares, NEW v \in Users, NEW p \in Packets, v # p.by
       PROVE  /\ Superpeers \subseteq {v, p.by} => Coming(v, p)' + Unsent(p)' <= 2
              /\ \A h \in Superpeers \ {v, p.by} :
                     Coming(v, p)' + Unsent(p)' + ToForward(h, p)' + Unsent(p)' <= 4
  <2>1. Unsent(p)' = Unsent(p)
    BY <1>3 DEF Unsent
  <2>2. /\ Unsent(p) \in Nat /\ Coming(v, p) \in Nat /\ Coming(v, p)' \in Nat
        /\ ToForward(u, p) \in Nat
    BY <1>10, <1>13 DEF Counted
  <2>3. /\ Superpeers \subseteq {v, p.by} => Coming(v, p) + Unsent(p) <= 2
        /\ \A h \in Superpeers \ {v, p.by} :
               Coming(v, p) + Unsent(p) + ToForward(h, p) + Unsent(p) <= 4
    BY <1>13 DEF Shares
  <2>4. CASE Superpeers \subseteq {v, p.by}
    <3>1. v = u \/ p # q
      BY <1>4, <1>5, <1>13, <2>4
    <3>2. Coming(v, p)' = Coming(v, p)
      BY <1>11, <1>13, <3>1
    <3> QED
      BY <2>1, <2>3, <2>4, <3>2
  <2>5. ASSUME NEW h \in Superpeers \ {v, p.by}
        PROVE  Coming(v, p)' + Unsent(p)' + ToForward(h, p)' + Unsent(p)' <= 4
    <3>1. h = u /\ v # u
      BY <1>4, <1>13 DEF OneForwards
    <3>2. Coming(v, p)' <= Coming(v, p) + (IF p = q THEN 1 ELSE 0)
      BY <1>11, <1>13, <2>2, <3>1
    <3>3. ToForward(h, p)' = ToForward(h, p) - (IF p = q THEN 1 ELSE 0)
      BY <1>12, <3>1
    <3> QED
      BY <2>1, <2>2, <2>3, <3>1, <3>2, <3>3
  <2> QED
    BY <2>4, <2>5
<1> QED
  BY <1>9, <1>13 DEF Shares

LEMMA InitVoices == Init => Carried /\ Shares
  BY InitCarried, InitShares

LEMMA NextVoices == Carried /\ [Next]_vars => Carried' /\ (OneForwards /\ Shares => Shares')
<1> SUFFICES ASSUME Carried, [Next]_vars
             PROVE  Carried' /\ (OneForwards /\ Shares => Shares')
  OBVIOUS
<1>1. ASSUME Carried', Balanced
      PROVE  Carried' /\ (OneForwards /\ Shares => Shares')
  BY <1>1, BalancedKeeps
<1>2. CASE UNCHANGED vars
  <2>1. UNCHANGED <<peers, relay, mic, mix, fwd, relaying, changing, spoken, decoded>>
    BY <1>2 DEF vars
  <2>2. Carried'
    BY <2>1 DEF Carried
  <2>3. Balanced
    BY <2>1, SameBalanced
  <2> QED
    BY <1>1, <2>2, <2>3
<1>3. ASSUME NEW u \in Users,
             \/ RelayConnect(u) \/ RelayAccept(u) \/ RelayLost(u) \/ Change(u)
             \/ \E v \in Users : WantChange(u, v)
      PROVE  Carried' /\ (OneForwards /\ Shares => Shares')
  BY <1>1, <1>3, TablesKeep
<1>4. ASSUME NEW u \in Users, Speak(u)
      PROVE  Carried' /\ (OneForwards /\ Shares => Shares')
  BY <1>1, <1>4, SpeakKeeps
<1>5. ASSUME NEW u \in Users, MicSends(u)
      PROVE  Carried' /\ (OneForwards /\ Shares => Shares')
  BY <1>1, <1>5, MicSendsKeeps
<1>6. ASSUME NEW u \in Users, MicGivesUp(u)
      PROVE  Carried' /\ (OneForwards /\ Shares => Shares')
  BY <1>1, <1>6, MicGivesUpKeeps
<1>7. ASSUME NEW u \in Users, RelayForwards(u)
      PROVE  Carried' /\ (OneForwards /\ Shares => Shares')
  BY <1>1, <1>7, RelayForwardsKeeps
<1>8. ASSUME NEW u \in Users, Mix(u)
      PROVE  Carried' /\ (OneForwards /\ Shares => Shares')
  BY <1>1, <1>8, MixKeeps
<1>9. ASSUME NEW u \in Users, Forward(u)
      PROVE  Carried' /\ (OneForwards /\ Shares => Shares')
  BY <1>9, ForwardKeeps
<1> QED
  BY <1>2, <1>3, <1>4, <1>5, <1>6, <1>7, <1>8, <1>9 DEF Next

LEMMA CarriedType == Carried => TypeOK
<1> SUFFICES ASSUME Carried
             PROVE  TypeOK
  OBVIOUS
<1>1. ASSUME NEW T, NEW q \in Seq(T)
      PROVE  Range(q) \subseteq T
  BY <1>1 DEF Range
<1>2. ASSUME NEW u \in Users
      PROVE  /\ u \notin peers[u] /\ changing[u] \subseteq Users \ {u}
             /\ Range(relaying[u]) \cup Range(mic[u]) \subseteq Packets
             /\ Range(mix[u]) \cup Range(fwd[u]) \subseteq Users \X Packets
             /\ Len(relaying[u]) <= 1
  <2>1. Own(u) \subseteq Packets /\ Foreign(u) \subseteq Users \X Packets
    BY DEF Own, Foreign
  <2>2. /\ Range(relaying[u]) \subseteq Own(u) /\ Range(mic[u]) \subseteq Own(u)
        /\ Range(mix[u]) \subseteq Foreign(u) /\ Range(fwd[u]) \subseteq Foreign(u)
    BY <1>1 DEF Carried
  <2> QED
    BY <2>1, <2>2 DEF Carried
<1> QED
  BY <1>2 DEF Carried, TypeOK

LEMMA FewHeard ==
    ASSUME Carried, Shares, OneForwards
    PROVE  FewCopies
<1> SUFFICES ASSUME NEW u \in Users, NEW p \in Packets
             PROVE  decoded[u][p] <= IF u = p.by THEN 0
                                     ELSE 2 * (1 + Cardinality(Superpeers \ {u, p.by}))
  BY DEF FewCopies
<1>1. Counted
  BY Numbers
<1>2. CASE u = p.by
  <2>1. p \in Own(u) /\ \A r \in Own(u) : decoded[u][r] = 0
    BY <1>2 DEF Carried, Own
  <2> QED
    BY <1>2, <2>1
<1>3. CASE u # p.by /\ Superpeers \subseteq {u, p.by}
  <2>1. Cardinality(Superpeers \ {u, p.by}) = 0
    <3>1. Superpeers \ {u, p.by} = {}
      BY <1>3
    <3> QED
      BY <3>1, FS_EmptySet
  <2>2. Coming(u, p) + Unsent(p) <= 2
    BY <1>3 DEF Shares
  <2> QED
    BY <1>1, <1>3, <2>1, <2>2 DEF Counted, Coming
<1>4. ASSUME u # p.by, NEW h \in Superpeers \ {u, p.by}
      PROVE  decoded[u][p] <= 2 * (1 + Cardinality(Superpeers \ {u, p.by}))
  <2>1. Cardinality(Superpeers \ {u, p.by}) = 1
    <3>1. Superpeers \ {u, p.by} = {h}
      BY <1>4 DEF OneForwards
    <3> QED
      BY <3>1, FS_Singleton
  <2>2. Coming(u, p) + Unsent(p) + ToForward(h, p) + Unsent(p) <= 4 /\ h \in Users
    BY <1>4, AudioAssumption DEF Shares, Carried
  <2>3. Coming(u, p) = decoded[u][p] + Occurs(mix[u], Copies(p))
    BY DEF Coming
  <2> QED
    BY <1>1, <2>1, <2>2, <2>3 DEF Counted
<1> QED
  BY <1>2, <1>3, <1>4

(* The tasks and the relay keep to the type of the state, with any number   *)
(* of users and of superpeers; nobody has a call with himself, and the mic  *)
(* task writes one packet at a time to the relay.                          *)
THEOREM TypeCorrect == Spec => []TypeOK
<1>1. Init => Carried
  BY InitVoices
<1>2. Carried /\ [Next]_vars => Carried'
  BY NextVoices
<1> QED
  BY <1>1, <1>2, CarriedType, PTL DEF Spec

(* With one superpeer at most, whoever that is and however many listen,     *)
(* nobody hears themselves and everybody else hears a packet at most twice, *)
(* and twice more if there is a superpeer who forwards to them.            *)
THEOREM NoEchoAndFewCopies ==
    ASSUME OneForwards
    PROVE  Spec => []FewCopies
<1>1. Init => Carried /\ Shares
  BY InitVoices
<1>2. Carried /\ Shares /\ [Next]_vars => (Carried /\ Shares)'
  BY NextVoices
<1>3. Carried /\ Shares => FewCopies
  BY FewHeard
<1> QED
  BY <1>1, <1>2, <1>3, PTL DEF Spec
=============================================================================
