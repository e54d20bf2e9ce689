---------------------------- MODULE SignalsProofs ----------------------------
(***************************************************************************)
(* Theorems about Signals, for every set of signals, however they are cut. *)
(***************************************************************************)
EXTENDS Signals, SequenceTheorems, FiniteSetTheorems, TLAPS

-----------------------------------------------------------------------------
(* The inductive invariant. *)

Cut == {Relayed(s, i) : s \in Signals, i \in Nat}

Typed ==
    /\ unsent \subseteq Signals /\ lost \subseteq Signals /\ known \subseteq Senders
    /\ DOMAIN sending = Tasks
    /\ wire \in [Senders -> Seq(Cut)]
    /\ DOMAIN fragments \subseteq Keys
    /\ events \in Seq({WholeSignal(s) : s \in Signals})

(* A task sends a signal of its client that has begun, and no other task    *)
(* sends it.                                                               *)
Sending ==
    /\ \A t \in Tasks : sending[t] # None =>
          \E s \in Signals : \E i \in 1..Total[s] :
              sending[t] = Busy(s, i) /\ SenderOf[s] = t[1] /\ s \notin unsent
    /\ \A t, r \in Tasks :
          sending[t] # None /\ sending[r] # None /\ sending[t].signal = sending[r].signal => t = r

(* What is on the wire of a client are fragments of its signals, each once. *)
FromClient(w, n) ==
    /\ \A j \in DOMAIN w :
          \E s \in Signals : \E i \in 1..Total[s] : w[j] = Relayed(s, i) /\ SenderOf[s] = n
    /\ \A j, k \in DOMAIN w : w[j].signal = w[k].signal /\ w[j].seq = w[k].seq => j = k

Sent == \A n \in Senders : FromClient(wire[n], n)

(* A buffer holds some fragments of one signal and lacks others. *)
BufferOf(b, s) ==
    /\ DOMAIN b.parts # {} /\ DOMAIN b.parts \subseteq 1..Total[s]
    /\ DOMAIN b.parts # 1..Total[s]
    /\ b.parts = [i \in DOMAIN b.parts |-> Relayed(s, i)]
    /\ b.total = Total[s] /\ b.stale \in BOOLEAN

BuffersOf(f) == \A k \in DOMAIN f : \E s \in Signals : Key(s) = k /\ BufferOf(f[k], s)

Buffered == BuffersOf(fragments)

(* The fragments of s: to be sent, on the wire and kept; whether s has      *)
(* begun, has come out and has been thrown away.                           *)
Balanced(s, T, W, K, begun, out, gone) ==
    /\ T \cup W \cup K \subseteq 1..Total[s]
    /\ T \cap W = {} /\ W \cap K = {} /\ T \cap K = {}
    /\ ~begun \/ out => T \cup W \cup K = {}
    /\ gone => T \cup W \cup K # 1..Total[s]
    /\ begun /\ ~out /\ ~gone => T \cup W \cup K = 1..Total[s]
    /\ ~(out /\ gone) /\ (out \/ gone => begun)

Balance ==
    \A s \in Signals :
        Balanced(s, ToSend(s), OnWire(s), Kept(s), s \notin unsent, s \in Arrived, s \in lost)

IInv == Typed /\ Sending /\ Sent /\ Buffered /\ Balance

-----------------------------------------------------------------------------
(* Signals, fragments and where they are. *)

LEMMA Totals == \A s \in Signals : Total[s] \in Nat \ {0} /\ SenderOf[s] \in Senders
  BY SignalAssumption

LEMMA KeyInjective ==
    ASSUME NEW r \in Signals, NEW s \in Signals, Key(r) = Key(s)
    PROVE  r = s
  BY SignalAssumption DEF Key

LEMMA PieceParts ==
    ASSUME NEW s, NEW i
    PROVE  Relayed(s, i).signal = s /\ Relayed(s, i).seq = i
  BY DEF Relayed, Piece

LEMMA BusyParts ==
    ASSUME NEW s, NEW i
    PROVE  Busy(s, i) # None /\ Busy(s, i).signal = s /\ Busy(s, i).next = i
<1>1. Busy(s, i).at = "sending" /\ None.at = "idle"
  BY DEF Busy, None
<1> QED
  BY <1>1 DEF Busy

(* What a task that is at c has to send of s. *)
Of(c, s) == IF c # None /\ c.signal = s THEN c.next .. Total[s] ELSE {}

LEMMA OfBusy ==
    ASSUME NEW s, NEW i, NEW x
    PROVE  /\ Of(Busy(s, i), x) = IF x = s THEN i .. Total[s] ELSE {}
           /\ Of(None, x) = {}
  BY BusyParts DEF Of

(* One task goes on to v. *)
LEMMA OneGoesOn ==
    ASSUME Typed, NEW t \in Tasks, NEW v, sending' = [sending EXCEPT ![t] = v], NEW x,
           \A r \in Tasks \ {t} : Of(sending[r], x) = {} \/ Of(sending[t], x) = Of(v, x)
    PROVE  /\ DOMAIN sending' = Tasks /\ sending'[t] = v
           /\ \A r \in Tasks \ {t} : sending'[r] = sending[r]
           /\ Of(sending[t], x) = Of(v, x) => ToSend(x)' = ToSend(x)
           /\ Of(sending[t], x) # Of(v, x) =>
                  ToSend(x) = Of(sending[t], x) /\ ToSend(x)' = Of(v, x)
<1>1. /\ DOMAIN sending' = Tasks /\ sending'[t] = v
      /\ \A r \in Tasks \ {t} : sending'[r] = sending[r]
  BY DEF Typed
<1>2. ToSend(x)' = UNION {Of(sending'[r], x) : r \in Tasks}
  BY DEF ToSend, Of
<1>3. ToSend(x) = UNION {Of(sending[r], x) : r \in Tasks}
  BY DEF ToSend, Of
<1>4. CASE Of(sending[t], x) = Of(v, x)
  <2>1. \A r \in Tasks : Of(sending'[r], x) = Of(sending[r], x)
    BY <1>1, <1>4
  <2> QED
    BY <1>1, <1>2, <1>3, <1>4, <2>1
<1>5. CASE Of(sending[t], x) # Of(v, x)
  <2>1. \A r \in Tasks \ {t} : Of(sending'[r], x) = {} /\ Of(sending[r], x) = {}
    BY <1>1, <1>5
  <2>2. Of(sending'[t], x) = Of(v, x)
    BY <1>1
  <2>3. ToSend(x)' = Of(v, x)
    BY <1>2, <2>1, <2>2
  <2>4. ToSend(x) = Of(sending[t], x)
    BY <1>3, <2>1
  <2> QED
    BY <1>1, <1>5, <2>3, <2>4
<1> QED
  BY <1>4, <1>5

(* No other task sends x. *)
LEMMA OneAlone ==
    ASSUME NEW t \in Tasks, NEW v, sending'[t] = v, NEW x,
           \A r \in Tasks \ {t} : sending'[r] = sending[r] /\ Of(sending[r], x) = {}
    PROVE  ToSend(x) = Of(sending[t], x) /\ ToSend(x)' = Of(v, x)
<1>1. ToSend(x)' = UNION {Of(sending'[r], x) : r \in Tasks}
  BY DEF ToSend, Of
<1>2. ToSend(x) = UNION {Of(sending[r], x) : r \in Tasks}
  BY DEF ToSend, Of
<1>3. /\ Of(sending'[t], x) = Of(v, x)
      /\ \A r \in Tasks \ {t} : Of(sending'[r], x) = {}
  OBVIOUS
<1>4. ToSend(x)' = Of(v, x)
  BY <1>1, <1>3
<1>5. ToSend(x) = Of(sending[t], x)
  BY <1>2
<1> QED
  BY <1>4, <1>5

(* The numbers of the fragments of s in w. *)
Numbers(w, s) == {w[i].seq : i \in {j \in DOMAIN w : w[j].signal = s}}

LEMMA OnWireIs ==
    ASSUME NEW s
    PROVE  OnWire(s) = Numbers(wire[SenderOf[s]], s)
  BY DEF OnWire, Numbers

LEMMA NumbersIs ==
    ASSUME NEW w, NEW s, NEW i
    PROVE  i \in Numbers(w, s) <=> \E j \in DOMAIN w : w[j].signal = s /\ w[j].seq = i
  BY DEF Numbers

(* The balance of one signal. *)
LEMMA Joined1 ==
    ASSUME NEW s \in Signals, NEW T, NEW W, NEW K, NEW b, NEW o, NEW g,
           Balanced(s, T, W, K, b, o, g), NEW i \in W
    PROVE  Balanced(s, T, W \ {i}, K \cup {i}, b, o, g)
<1>1. T \cup (W \ {i}) \cup (K \cup {i}) = T \cup W \cup K
  OBVIOUS
<1>2. b /\ ~o /\ i \notin T /\ i \notin K
  BY DEF Balanced
<1> QED
  BY <1>1, <1>2 DEF Balanced

LEMMA Completed1 ==
    ASSUME NEW s \in Signals, NEW T, NEW W, NEW K, NEW b, NEW o, NEW g,
           Balanced(s, T, W, K, b, o, g), NEW i \in W, K \cup {i} = 1..Total[s]
    PROVE  b /\ ~o /\ ~g /\ Balanced(s, T, W \ {i}, {}, b, TRUE, g)
<1>1. T \cup W \cup K = 1..Total[s] /\ T = {} /\ W \ {i} = {}
  BY DEF Balanced
<1>2. b /\ ~o /\ ~g
  BY <1>1 DEF Balanced
<1> QED
  BY <1>1, <1>2 DEF Balanced

LEMMA Dropped1 ==
    ASSUME NEW s \in Signals, NEW T, NEW W, NEW K, NEW b, NEW o, NEW g,
           Balanced(s, T, W, K, b, o, g), NEW i \in W
    PROVE  Balanced(s, T, W \ {i}, K, b, o, TRUE)
<1>1. b /\ ~o /\ i \in 1..Total[s] /\ i \notin T \cup (W \ {i}) \cup K
  BY DEF Balanced
<1> QED
  BY <1>1 DEF Balanced

LEMMA Moved1 ==
    ASSUME NEW s \in Signals, NEW T, NEW W, NEW K, NEW b, NEW o, NEW g,
           Balanced(s, T, W, K, b, o, g), NEW i \in T
    PROVE  Balanced(s, T \ {i}, W \cup {i}, K, b, o, g)
<1>1. (T \ {i}) \cup (W \cup {i}) \cup K = T \cup W \cup K
  OBVIOUS
<1> QED
  BY <1>1 DEF Balanced

(* A buffer that is swept takes its fragments with it. *)
LEMMA Swept1 ==
    ASSUME NEW s \in Signals, NEW T, NEW W, NEW K, NEW b, NEW o, NEW g,
           Balanced(s, T, W, K, b, o, g), K # {}
    PROVE  Balanced(s, T, W, {}, b, o, TRUE)
<1>1. PICK i \in K : i \in 1..Total[s] /\ i \notin T /\ i \notin W
  BY DEF Balanced
<1>2. T \cup W \cup {} # 1..Total[s]
  BY <1>1
<1>3. b /\ ~o
  BY DEF Balanced
<1> QED
  BY <1>2, <1>3 DEF Balanced

(* A full buffer is one with every fragment of its signal. *)
LEMMA FullIs ==
    ASSUME NEW s \in Signals, NEW b, b.total = Total[s], DOMAIN b.parts \subseteq 1..Total[s]
    PROVE  /\ Full(b) <=> DOMAIN b.parts = 1..Total[s]
           /\ DOMAIN b.parts # 1..Total[s] => Cardinality(DOMAIN b.parts) < b.total
<1>1. Total[s] \in Nat /\ 1 \in Int /\ Total[s] \in Int
  BY Totals
<1>2. IsFiniteSet(1..Total[s]) /\ Cardinality(1..Total[s]) = Total[s]
  BY <1>1, Totals, FS_Interval
<1> DEFINE D == DOMAIN b.parts
<1> HIDE DEF D
<1>3. D \in SUBSET (1..Total[s])
  BY DEF D
<1>4. /\ IsFiniteSet(D) /\ Cardinality(D) <= Cardinality(1..Total[s])
      /\ Cardinality(1..Total[s]) = Cardinality(D) => 1..Total[s] = D
  BY <1>2, <1>3, FS_Subset
<1>5. Cardinality(D) \in Nat
  BY <1>4, FS_CardinalityType
<1> QED
  BY <1>1, <1>2, <1>4, <1>5 DEF D, Full

LEMMA BufferFor ==
    ASSUME NEW f, BuffersOf(f), NEW s \in Signals, Key(s) \in DOMAIN f
    PROVE  BufferOf(f[Key(s)], s)
<1>1. PICK r \in Signals : Key(r) = Key(s) /\ BufferOf(f[Key(s)], r)
  BY DEF BuffersOf
<1> QED
  BY <1>1, KeyInjective

(* The numbers of the fragments of s that are kept in f. *)
KeptIn(f, s) == IF Key(s) \in DOMAIN f THEN DOMAIN f[Key(s)].parts ELSE {}

LEMMA KeptIs ==
    ASSUME NEW s
    PROVE  Kept(s) = KeptIn(fragments, s)
  BY DEF Kept, KeptIn

(* What is swept is what the stale buffers are for. *)
LEMMA ExpiredIs ==
    ASSUME Buffered
    PROVE  /\ Expired \subseteq Signals
           /\ \A s \in Signals : s \in Expired <=> Key(s) \in Stale
<1>1. ASSUME NEW k \in Stale
      PROVE  \E s \in Signals : /\ Key(s) = k /\ Pieces(fragments[k]) # {}
                                /\ \A p \in Pieces(fragments[k]) : p.signal = s
  <2>1. PICK s \in Signals : Key(s) = k /\ BufferOf(fragments[k], s)
    BY <1>1 DEF Stale, Buffered, BuffersOf
  <2>2. PICK parts : parts = fragments[k].parts
    OBVIOUS
  <2>3. DOMAIN parts # {} /\ parts = [i \in DOMAIN parts |-> Relayed(s, i)]
    BY <2>1, <2>2 DEF BufferOf
  <2>4. \A i \in DOMAIN parts : parts[i].signal = s
    BY <2>3, PieceParts
  <2>5. Pieces(fragments[k]) = {parts[i] : i \in DOMAIN parts}
    BY <2>2 DEF Pieces
  <2> QED
    BY <2>1, <2>3, <2>4, <2>5
<1>2. \A s : s \in Expired <=> \E k \in Stale : \E p \in Pieces(fragments[k]) : p.signal = s
  BY DEF Expired
<1>3. Expired \subseteq Signals
  BY <1>1, <1>2
<1>4. ASSUME NEW s \in Signals, Key(s) \in Stale
      PROVE  s \in Expired
  <2>1. PICK r \in Signals : /\ Key(r) = Key(s) /\ Pieces(fragments[Key(s)]) # {}
                             /\ \A p \in Pieces(fragments[Key(s)]) : p.signal = r
    BY <1>1, <1>4
  <2>2. r = s
    BY <2>1, KeyInjective
  <2> QED
    BY <1>2, <1>4, <2>1, <2>2
<1>5. ASSUME NEW s \in Signals, s \in Expired
      PROVE  Key(s) \in Stale
  <2>1. PICK k \in Stale : \E p \in Pieces(fragments[k]) : p.signal = s
    BY <1>2, <1>5
  <2>2. PICK r \in Signals : /\ Key(r) = k
                             /\ \A p \in Pieces(fragments[k]) : p.signal = r
    BY <1>1
  <2> QED
    BY <2>1, <2>2
<1> QED
  BY <1>3, <1>4, <1>5

(* Events. *)
LEMMA WholeParts ==
    ASSUME NEW s \in Signals
    PROVE  /\ WholeSignal(s).from = SenderOf[s]
           /\ DOMAIN WholeSignal(s).payload = 1..Total[s] /\ 1 \in 1..Total[s]
           /\ \A j \in 1..Total[s] : WholeSignal(s).payload[j].signal = s
<1>1. WholeSignal(s).payload = [i \in 1..Total[s] |-> Relayed(s, i)]
  BY DEF WholeSignal, Event
<1>2. 1 \in 1..Total[s]
  BY Totals
<1>3. \A j \in 1..Total[s] : WholeSignal(s).payload[j].signal = s
  BY <1>1, PieceParts
<1> QED
  BY <1>1, <1>2, <1>3 DEF WholeSignal, Event

LEMMA WholeInjective ==
    ASSUME NEW r \in Signals, NEW s \in Signals, WholeSignal(r) = WholeSignal(s)
    PROVE  r = s
  BY WholeParts

ArrivedIn(es) == {s \in Signals : \E i \in DOMAIN es :
                                    /\ es[i].from = SenderOf[s]
                                    /\ \E j \in DOMAIN es[i].payload : es[i].payload[j].signal = s}

Wholes == {WholeSignal(s) : s \in Signals}

LEMMA ArrivedIs ==
    ASSUME NEW es \in Seq(Wholes), NEW s \in Signals
    PROVE  s \in ArrivedIn(es) <=> \E i \in DOMAIN es : es[i] = WholeSignal(s)
<1>1. \A i \in DOMAIN es : \E r \in Signals : es[i] = WholeSignal(r)
  BY DEF Wholes
<1>2. ASSUME NEW i \in DOMAIN es, es[i] = WholeSignal(s)
      PROVE  s \in ArrivedIn(es)
  <2>1. PICK e : e = es[i]
    OBVIOUS
  <2>2. PICK v : v = WholeSignal(s)
    OBVIOUS
  <2>a. v.from = SenderOf[s]
    BY <2>2, WholeParts
  <2>b. DOMAIN v.payload = 1..Total[s] /\ 1 \in 1..Total[s]
    BY <2>2, WholeParts
  <2>c. \A j \in 1..Total[s] : v.payload[j].signal = s
    BY <2>2, WholeParts
  <2>3. v.from = SenderOf[s] /\ 1 \in DOMAIN v.payload /\ v.payload[1].signal = s
    BY <2>a, <2>b, <2>c
  <2>4. e = v
    BY <1>2, <2>1, <2>2
  <2> QED
    BY <2>1, <2>3, <2>4 DEF ArrivedIn
<1>3. ASSUME s \in ArrivedIn(es)
      PROVE  \E i \in DOMAIN es : es[i] = WholeSignal(s)
  <2>0. PICK i \in DOMAIN es :
           \E j \in DOMAIN es[i].payload : es[i].payload[j].signal = s
    BY <1>3 DEF ArrivedIn
  <2>1. PICK j \in DOMAIN es[i].payload : es[i].payload[j].signal = s
    BY <2>0
  <2>2. PICK r \in Signals : es[i] = WholeSignal(r)
    BY <1>1
  <2>3. j \in 1..Total[r]
    BY <2>2, WholeParts
  <2>4. r = s
    BY <2>1, <2>2, <2>3, WholeParts
  <2> QED
    BY <2>2, <2>4
<1> QED
  BY <1>2, <1>3

LEMMA ArrivedMore ==
    ASSUME NEW es \in Seq(Wholes), NEW s \in Signals
    PROVE  /\ Append(es, WholeSignal(s)) \in Seq(Wholes)
           /\ ArrivedIn(Append(es, WholeSignal(s))) = ArrivedIn(es) \cup {s}
<1>1. PICK e \in Wholes : e = WholeSignal(s)
  BY DEF Wholes
<1>2. PICK v : v = Append(es, e)
  OBVIOUS
<1>3. /\ DOMAIN es = 1..Len(es) /\ Len(es) \in Nat /\ DOMAIN v = 1..Len(es) + 1
      /\ \A j \in 1..Len(es) : v[j] = es[j]
      /\ v[Len(es) + 1] = e /\ v \in Seq(Wholes)
  BY <1>2, AppendProperties
<1>4. ASSUME NEW x \in Signals
      PROVE  (\E j \in DOMAIN v : v[j] = WholeSignal(x))
                 <=> (\E j \in DOMAIN es : es[j] = WholeSignal(x)) \/ WholeSignal(x) = e
  BY <1>3
<1>5. ASSUME NEW x \in Signals
      PROVE  x \in ArrivedIn(v) <=> x \in ArrivedIn(es) \/ x = s
  BY <1>1, <1>3, <1>4, ArrivedIs, WholeInjective
<1>6. ArrivedIn(v) \subseteq Signals /\ ArrivedIn(es) \subseteq Signals
  BY DEF ArrivedIn
<1>7. ArrivedIn(v) = ArrivedIn(es) \cup {s}
  BY <1>5, <1>6
<1> QED
  BY <1>1, <1>2, <1>3, <1>7

(* Sweeping the stale buffers loses the signals they are for. *)
LEMMA SweepBalance ==
    ASSUME Buffered, Balance, NEW s \in Signals
    PROVE  Balanced(s, ToSend(s), OnWire(s), IF Key(s) \in Stale THEN {} ELSE Kept(s),
                    s \notin unsent, s \in Arrived, s \in lost \cup Expired)
<1>1. Balanced(s, ToSend(s), OnWire(s), Kept(s), s \notin unsent, s \in Arrived, s \in lost)
  BY DEF Balance
<1>2. CASE Key(s) \in Stale
  <2>1. Key(s) \in DOMAIN fragments
    BY <1>2 DEF Stale
  <2>2. Kept(s) # {}
    BY <2>1, BufferFor, KeptIs DEF BufferOf, KeptIn, Buffered
  <2>3. Balanced(s, ToSend(s), OnWire(s), {}, s \notin unsent, s \in Arrived, TRUE)
    BY <1>1, <2>2, Swept1
  <2>4. (s \in lost \cup Expired) = TRUE
    BY <1>2, ExpiredIs
  <2> QED
    BY <1>2, <2>3, <2>4
<1>3. CASE Key(s) \notin Stale
  <2>1. (s \in lost \cup Expired) = (s \in lost)
    BY <1>3, ExpiredIs
  <2> QED
    BY <1>1, <1>3, <2>1
<1> QED
  BY <1>2, <1>3

-----------------------------------------------------------------------------
(* How the wire and the buffers change. *)

LEMMA OneMore ==
    ASSUME NEW w \in Seq(Cut), NEW s \in Signals, NEW i \in 1..Total[s],
           FromClient(w, SenderOf[s]), i \notin Numbers(w, s)
    PROVE  /\ Append(w, Relayed(s, i)) \in Seq(Cut)
           /\ FromClient(Append(w, Relayed(s, i)), SenderOf[s])
           /\ Numbers(Append(w, Relayed(s, i)), s) = Numbers(w, s) \cup {i}
           /\ \A x \in Signals \ {s} : Numbers(Append(w, Relayed(s, i)), x) = Numbers(w, x)
<1>1. PICK p : p = Relayed(s, i)
  OBVIOUS
<1>2. PICK v : v = Append(w, p)
  OBVIOUS
<1>3. p \in Cut /\ p.signal = s /\ p.seq = i
  BY <1>1, Totals, PieceParts DEF Cut
<1>4. /\ DOMAIN w = 1..Len(w) /\ Len(w) \in Nat /\ DOMAIN v = 1..Len(w) + 1
      /\ \A j \in 1..Len(w) : v[j] = w[j]
      /\ v[Len(w) + 1] = p /\ v \in Seq(Cut)
  BY <1>2, <1>3, AppendProperties
<1>5. \A j \in DOMAIN v : (j \in DOMAIN w /\ v[j] = w[j]) \/ j = Len(w) + 1
  BY <1>4
<1>6. \A j \in DOMAIN w : ~(w[j].signal = s /\ w[j].seq = i)
  BY NumbersIs
<1>7. \A j \in DOMAIN w : \E r \in Signals : \E k \in 1..Total[r] :
          w[j] = Relayed(r, k) /\ SenderOf[r] = SenderOf[s]
  BY DEF FromClient
<1>8. \A j, k \in DOMAIN w : w[j].signal = w[k].signal /\ w[j].seq = w[k].seq => j = k
  BY DEF FromClient
<1>9. \A j \in DOMAIN v : \E r \in Signals : \E k \in 1..Total[r] :
          v[j] = Relayed(r, k) /\ SenderOf[r] = SenderOf[s]
  BY <1>1, <1>4, <1>5, <1>7
<1>10. \A j, k \in DOMAIN v : v[j].signal = v[k].signal /\ v[j].seq = v[k].seq => j = k
  BY <1>3, <1>4, <1>5, <1>6, <1>8
<1>11. FromClient(v, SenderOf[s])
  BY <1>9, <1>10 DEF FromClient
<1>12. ASSUME NEW x, NEW k
       PROVE  k \in Numbers(v, x) <=> k \in Numbers(w, x) \/ (x = s /\ k = i)
  BY <1>3, <1>4, <1>5, NumbersIs
<1>13. Numbers(v, s) = Numbers(w, s) \cup {i}
  BY <1>12
<1>14. ASSUME NEW x \in Signals \ {s}
       PROVE  Numbers(v, x) = Numbers(w, x)
  <2>1. \A k : k \in Numbers(v, x) <=> k \in Numbers(w, x)
    BY <1>12
  <2> QED
    BY <2>1 DEF Numbers
<1> QED
  BY <1>1, <1>2, <1>4, <1>11, <1>13, <1>14

OneRead(w, v, n, s, i) ==
    /\ Head(w) = Relayed(s, i) /\ SenderOf[s] = n /\ i \in Numbers(w, s)
    /\ Numbers(v, s) = Numbers(w, s) \ {i}
    /\ \A x \in Signals \ {s} : Numbers(v, x) = Numbers(w, x)

LEMMA OneLess ==
    ASSUME NEW n, NEW w \in Seq(Cut), w # <<>>, FromClient(w, n)
    PROVE  /\ Tail(w) \in Seq(Cut) /\ FromClient(Tail(w), n)
           /\ \E s \in Signals : \E i \in 1..Total[s] : OneRead(w, Tail(w), n, s, i)
<1>1. PICK v : v = Tail(w)
  OBVIOUS
<1>2. /\ v \in Seq(Cut) /\ Len(w) \in Nat \ {0} /\ DOMAIN w = 1..Len(w)
      /\ Head(w) = w[1] /\ DOMAIN v = 1..Len(w) - 1
      /\ \A j \in 1..Len(w) - 1 : v[j] = w[j + 1]
  <2>1. Tail(w) \in Seq(Cut) /\ Len(Tail(w)) = Len(w) - 1 /\ Head(w) = w[1]
        /\ \A j \in 1..Len(Tail(w)) : Tail(w)[j] = w[j + 1]
    BY HeadTailProperties
  <2>2. Len(w) \in Nat \ {0} /\ DOMAIN w = 1..Len(w)
    BY EmptySeq
  <2> QED
    BY <1>1, <2>1, <2>2
<1>3. \A j \in DOMAIN w : \E r \in Signals : \E k \in 1..Total[r] :
          w[j] = Relayed(r, k) /\ SenderOf[r] = n
  BY DEF FromClient
<1>4. \A j, k \in DOMAIN w : w[j].signal = w[k].signal /\ w[j].seq = w[k].seq => j = k
  BY DEF FromClient
<1>5. 1 \in DOMAIN w
  BY <1>2
<1>6. PICK s \in Signals : \E i \in 1..Total[s] : w[1] = Relayed(s, i) /\ SenderOf[s] = n
  BY <1>3, <1>5
<1>7. PICK i \in 1..Total[s] : w[1] = Relayed(s, i)
  BY <1>6
<1>8. SenderOf[s] = n /\ w[1].signal = s /\ w[1].seq = i
  BY <1>6, <1>7, PieceParts
<1>9. \A j \in DOMAIN v : j + 1 \in DOMAIN w /\ j + 1 # 1 /\ v[j] = w[j + 1]
  BY <1>2
<1>10. FromClient(v, n)
  <2>1. \A j \in DOMAIN v : \E r \in Signals : \E k \in 1..Total[r] :
            v[j] = Relayed(r, k) /\ SenderOf[r] = n
    BY <1>3, <1>9
  <2>2. ASSUME NEW j \in DOMAIN v, NEW k \in DOMAIN v,
               v[j].signal = v[k].signal, v[j].seq = v[k].seq
        PROVE  j = k
    <3>1. j + 1 = k + 1
      BY <1>4, <1>9, <2>2
    <3> QED
      BY <1>2, <3>1
  <2> QED
    BY <2>1, <2>2 DEF FromClient
<1>11. ASSUME NEW x, NEW k, k \in Numbers(v, x)
       PROVE  k \in Numbers(w, x) /\ ~(x = s /\ k = i)
  <2>1. PICK j \in DOMAIN v : v[j].signal = x /\ v[j].seq = k
    BY <1>11, NumbersIs
  <2>2. j + 1 \in DOMAIN w /\ j + 1 # 1 /\ w[j + 1].signal = x /\ w[j + 1].seq = k
    BY <1>9, <2>1
  <2> QED
    BY <1>4, <1>5, <1>8, <2>2, NumbersIs
<1>12. ASSUME NEW x, NEW k, k \in Numbers(w, x), ~(x = s /\ k = i)
       PROVE  k \in Numbers(v, x)
  <2>1. PICK j \in DOMAIN w : w[j].signal = x /\ w[j].seq = k
    BY <1>12, NumbersIs
  <2>2. j # 1
    BY <1>8, <1>12, <2>1
  <2>3. j - 1 \in DOMAIN v /\ (j - 1) + 1 = j
    BY <1>2, <2>2
  <2>4. v[j - 1] = w[j]
    BY <1>9, <2>3
  <2> QED
    BY <2>1, <2>3, <2>4, NumbersIs
<1>13. i \in Numbers(w, s)
  BY <1>5, <1>8, NumbersIs
<1>14. Numbers(v, s) = Numbers(w, s) \ {i}
  <2>1. \A k : k \in Numbers(v, s) <=> k \in Numbers(w, s) /\ k # i
    BY <1>11, <1>12
  <2> QED
    BY <2>1
<1>15. ASSUME NEW x \in Signals \ {s}
       PROVE  Numbers(v, x) = Numbers(w, x)
  <2>1. \A k : k \in Numbers(v, x) <=> k \in Numbers(w, x)
    BY <1>11, <1>12
  <2> QED
    BY <2>1 DEF Numbers
<1>16. Head(w) = Relayed(s, i)
  BY <1>2, <1>7
<1> QED
  BY <1>1, <1>2, <1>8, <1>10, <1>13, <1>14, <1>15, <1>16 DEF OneRead

LEMMA SentMore ==
    ASSUME Typed, Sent, NEW s \in Signals, NEW i \in 1..Total[s], i \notin OnWire(s),
           wire' = [wire EXCEPT ![SenderOf[s]] = Append(@, Relayed(s, i))]
    PROVE  /\ wire' \in [Senders -> Seq(Cut)] /\ Sent'
           /\ OnWire(s)' = OnWire(s) \cup {i}
           /\ \A x \in Signals \ {s} : OnWire(x)' = OnWire(x)
<1>1. PICK n \in Senders : n = SenderOf[s]
  BY Totals
<1>2. wire[n] \in Seq(Cut) /\ FromClient(wire[n], n) /\ i \notin Numbers(wire[n], s)
  BY <1>1, OnWireIs DEF Typed, Sent
<1>3. PICK w \in Seq(Cut) : w = wire[n]
  BY <1>2
<1>4. PICK v : v = Append(w, Relayed(s, i))
  OBVIOUS
<1>5. /\ v \in Seq(Cut) /\ FromClient(v, n) /\ Numbers(v, s) = Numbers(w, s) \cup {i}
      /\ \A x \in Signals \ {s} : Numbers(v, x) = Numbers(w, x)
  BY <1>1, <1>2, <1>3, <1>4, OneMore
<1>6. wire'[n] = v /\ \A m \in Senders \ {n} : wire'[m] = wire[m]
  BY <1>1, <1>3, <1>4 DEF Typed
<1>7. wire' \in [Senders -> Seq(Cut)]
  BY <1>1, <1>3, <1>4, <1>5 DEF Typed
<1>8. Sent'
  BY <1>5, <1>6 DEF Sent
<1>9. \A x \in Signals : OnWire(x)' = Numbers(wire'[SenderOf[x]], x)
  BY DEF OnWire, Numbers
<1>10. OnWire(s)' = OnWire(s) \cup {i}
  BY <1>1, <1>3, <1>5, <1>6, <1>9, OnWireIs
<1>11. ASSUME NEW x \in Signals \ {s}
       PROVE  OnWire(x)' = OnWire(x)
  BY <1>1, <1>3, <1>5, <1>6, <1>9, Totals, OnWireIs
<1> QED
  BY <1>7, <1>8, <1>10, <1>11

LEMMA SentLess ==
    ASSUME Typed, Sent, NEW n \in Senders, wire[n] # <<>>,
           wire' = [wire EXCEPT ![n] = Tail(@)]
    PROVE  /\ wire' \in [Senders -> Seq(Cut)] /\ Sent'
           /\ \E s \in Signals : \E i \in 1..Total[s] :
                 /\ Head(wire[n]) = Relayed(s, i) /\ SenderOf[s] = n
                 /\ i \in OnWire(s) /\ OnWire(s)' = OnWire(s) \ {i}
                 /\ \A x \in Signals \ {s} : OnWire(x)' = OnWire(x)
<1>1. PICK w \in Seq(Cut) : w = wire[n]
  BY DEF Typed
<1>2. w # <<>> /\ FromClient(w, n)
  BY <1>1 DEF Sent
<1>3. PICK v : v = Tail(w)
  OBVIOUS
<1>4. v \in Seq(Cut) /\ FromClient(v, n)
  BY <1>2, <1>3, OneLess
<1>5. PICK s \in Signals : \E i \in 1..Total[s] : OneRead(w, v, n, s, i)
  BY <1>2, <1>3, OneLess
<1>6. PICK i \in 1..Total[s] : OneRead(w, v, n, s, i)
  BY <1>5
<1>7. wire'[n] = v /\ \A m \in Senders \ {n} : wire'[m] = wire[m]
  BY <1>1, <1>3 DEF Typed
<1>8. wire' \in [Senders -> Seq(Cut)]
  BY <1>1, <1>3, <1>4 DEF Typed
<1>9. Sent'
  BY <1>4, <1>7 DEF Sent
<1>10. \A x \in Signals : OnWire(x)' = Numbers(wire'[SenderOf[x]], x)
  BY DEF OnWire, Numbers
<1>11. i \in OnWire(s) /\ OnWire(s)' = OnWire(s) \ {i}
  BY <1>1, <1>6, <1>7, <1>10, OnWireIs DEF OneRead
<1>12. ASSUME NEW x \in Signals \ {s}
       PROVE  OnWire(x)' = OnWire(x)
  BY <1>1, <1>6, <1>7, <1>10, Totals, OnWireIs DEF OneRead
<1>13. Head(wire[n]) = Relayed(s, i) /\ SenderOf[s] = n
  BY <1>1, <1>6 DEF OneRead
<1> QED
  BY <1>8, <1>9, <1>11, <1>12, <1>13
(* Buffers taken out, a fragment put in. *)
LEMMA WithoutIs ==
    ASSUME NEW f, BuffersOf(f), NEW ks
    PROVE  /\ BuffersOf(Without(f, ks)) /\ DOMAIN Without(f, ks) = DOMAIN f \ ks
           /\ \A s : KeptIn(Without(f, ks), s) = IF Key(s) \in ks THEN {} ELSE KeptIn(f, s)
<1>1. PICK g : g = Without(f, ks)
  OBVIOUS
<1>2. DOMAIN g = DOMAIN f \ ks /\ \A k \in DOMAIN f \ ks : g[k] = f[k]
  BY <1>1 DEF Without
<1>3. BuffersOf(g)
  BY <1>2 DEF BuffersOf
<1>4. \A s : KeptIn(g, s) = IF Key(s) \in ks THEN {} ELSE KeptIn(f, s)
  BY <1>2 DEF KeptIn
<1> QED
  BY <1>1, <1>2, <1>3, <1>4

LEMMA WithIs ==
    ASSUME NEW f, BuffersOf(f), NEW s \in Signals, NEW b, BufferOf(b, s)
    PROVE  /\ BuffersOf(With(f, Key(s), b)) /\ DOMAIN With(f, Key(s), b) = DOMAIN f \cup {Key(s)}
           /\ KeptIn(With(f, Key(s), b), s) = DOMAIN b.parts
           /\ \A x \in Signals \ {s} : KeptIn(With(f, Key(s), b), x) = KeptIn(f, x)
<1>1. PICK g : g = With(f, Key(s), b)
  OBVIOUS
<1>2. /\ DOMAIN g = DOMAIN f \cup {Key(s)} /\ g[Key(s)] = b
      /\ \A k \in DOMAIN f : k # Key(s) => g[k] = f[k]
  BY <1>1 DEF With
<1>3. ASSUME NEW k \in DOMAIN g
      PROVE  \E r \in Signals : Key(r) = k /\ BufferOf(g[k], r)
  BY <1>2 DEF BuffersOf
<1>4. KeptIn(g, s) = DOMAIN b.parts
  BY <1>2 DEF KeptIn
<1>5. ASSUME NEW x \in Signals \ {s}
      PROVE  KeptIn(g, x) = KeptIn(f, x)
  <2>1. Key(x) # Key(s)
    BY KeyInjective
  <2> QED
    BY <1>2, <2>1 DEF KeptIn
<1> QED
  BY <1>1, <1>2, <1>3, <1>4, <1>5 DEF BuffersOf

(* What a buffer holds once a fragment has been put in. *)
Holds(b, s, D) ==
    /\ DOMAIN b.parts = D /\ b.parts = [j \in D |-> Relayed(s, j)]
    /\ b.total = Total[s] /\ b.stale = FALSE

LEMMA FilledIs ==
    ASSUME NEW f, BuffersOf(f), NEW s \in Signals, NEW i \in 1..Total[s],
           KeptIn(f, s) \subseteq 1..Total[s]
    PROVE  Holds(Filled(f, Key(s), Relayed(s, i)), s, KeptIn(f, s) \cup {i})
<1>1. PICK p : p = Relayed(s, i)
  OBVIOUS
<1>2. p.signal = s /\ p.seq = i
  BY <1>1, PieceParts
<1>3. PICK b : b = Filled(f, Key(s), p)
  OBVIOUS
<1>4. PICK old : old = IF Key(s) \in DOMAIN f THEN f[Key(s)] ELSE [parts |-> <<>>, total |-> Total[s]]
  OBVIOUS
<1>5. b = [parts |-> [j \in DOMAIN old.parts \cup {i} |-> IF j = i THEN p ELSE old.parts[j]],
           total |-> old.total, stale |-> FALSE]
  BY <1>2, <1>3, <1>4 DEF Filled
<1>6. /\ DOMAIN old.parts = KeptIn(f, s) /\ old.total = Total[s]
      /\ \A j \in KeptIn(f, s) : old.parts[j] = Relayed(s, j)
  <2>1. CASE Key(s) \in DOMAIN f
    <3>1. BufferOf(old, s)
      BY <1>4, <2>1, BufferFor
    <3>2. DOMAIN old.parts = KeptIn(f, s)
      BY <1>4, <2>1 DEF KeptIn
    <3>3. PICK parts : parts = old.parts
      OBVIOUS
    <3>4. parts = [j \in DOMAIN parts |-> Relayed(s, j)] /\ old.total = Total[s]
      BY <3>1, <3>3 DEF BufferOf
    <3>5. \A j \in DOMAIN parts : parts[j] = Relayed(s, j)
      BY <3>4
    <3> QED
      BY <3>2, <3>3, <3>4, <3>5
  <2>2. CASE Key(s) \notin DOMAIN f
    <3>1. KeptIn(f, s) = {}
      BY <2>2 DEF KeptIn
    <3>2. old.parts = <<>> /\ old.total = Total[s]
      BY <1>4, <2>2
    <3> QED
      BY <3>1, <3>2
  <2> QED
    BY <2>1, <2>2
<1>7. b.parts = [j \in KeptIn(f, s) \cup {i} |-> Relayed(s, j)]
  <2>1. b.parts = [j \in KeptIn(f, s) \cup {i} |-> IF j = i THEN p ELSE old.parts[j]]
    BY <1>5, <1>6
  <2>2. \A j \in KeptIn(f, s) \cup {i} :
            (IF j = i THEN p ELSE old.parts[j]) = Relayed(s, j)
    BY <1>1, <1>6
  <2> QED
    BY <2>1, <2>2
<1>8. DOMAIN b.parts = KeptIn(f, s) \cup {i}
  BY <1>7
<1>9. b.total = Total[s] /\ b.stale = FALSE
  BY <1>5, <1>6
<1> QED
  BY <1>1, <1>3, <1>7, <1>8, <1>9 DEF Holds
-----------------------------------------------------------------------------
(* The senders. *)

LEMMA BeginKeeps ==
    ASSUME IInv, NEW t \in Tasks, Begin(t)
    PROVE  IInv'
<1> USE DEF IInv
<1>1. PICK s \in unsent : /\ SenderOf[s] = t[1] /\ sending' = [sending EXCEPT ![t] = Busy(s, 1)]
                          /\ unsent' = unsent \ {s}
  BY DEF Begin
<1>2. /\ sending[t] = None
      /\ wire' = wire /\ known' = known /\ fragments' = fragments /\ events' = events /\ lost' = lost
  BY DEF Begin
<1>3. s \in Signals /\ 1 \in 1..Total[s]
  BY <1>1, Totals DEF Typed
<1>4. /\ DOMAIN sending' = Tasks /\ sending'[t] = Busy(s, 1)
      /\ \A r \in Tasks \ {t} : sending'[r] = sending[r]
  BY <1>1 DEF Typed
<1>5. \A r \in Tasks : sending[r] # None => sending[r].signal # s
  BY <1>1, BusyParts DEF Sending
<1>6. Typed'
  BY <1>1, <1>2, <1>4 DEF Typed
<1>7. Sending'
  <2>1. ASSUME NEW r \in Tasks, sending'[r] # None
        PROVE  \E x \in Signals : \E i \in 1..Total[x] :
                   sending'[r] = Busy(x, i) /\ SenderOf[x] = r[1] /\ x \notin unsent'
    <3>1. CASE r = t
      BY <1>1, <1>3, <1>4, <3>1
    <3>2. CASE r # t
      BY <1>1, <1>4, <2>1, <3>2 DEF Sending
    <3> QED
      BY <3>1, <3>2
  <2>2. sending'[t].signal = s
    BY <1>4, BusyParts
  <2>3. ASSUME NEW q \in Tasks, NEW r \in Tasks, sending'[q] # None, sending'[r] # None,
               sending'[q].signal = sending'[r].signal
        PROVE  q = r
    BY <1>4, <1>5, <2>2, <2>3 DEF Sending
  <2> QED
    BY <2>1, <2>3 DEF Sending
<1>8. Sent' /\ Buffered'
  BY <1>2 DEF Sent, Buffered
<1>9. \A x : OnWire(x)' = OnWire(x) /\ Kept(x)' = Kept(x)
  BY <1>2 DEF OnWire, Kept
<1>10. Arrived' = Arrived
  BY <1>2 DEF Arrived
<1>11. \A r \in Tasks : Of(sending[r], s) = {}
  BY <1>5 DEF Of
<1>12. ToSend(s)' = 1..Total[s] /\ ToSend(s) = {}
  <2>0. PICK v : v = Busy(s, 1)
    OBVIOUS
  <2>1. Of(v, s) = 1..Total[s] /\ Of(sending[t], s) = {}
    BY <1>11, <2>0, OfBusy
  <2>2. /\ sending'[t] = v
        /\ \A r \in Tasks \ {t} : sending'[r] = sending[r] /\ Of(sending[r], s) = {}
    BY <1>4, <1>11, <2>0
  <2>3. ToSend(s) = Of(sending[t], s) /\ ToSend(s)' = Of(v, s)
    BY <2>2, OneAlone
  <2> QED
    BY <2>1, <2>3
<1>13. ASSUME NEW x \in Signals \ {s}
       PROVE  ToSend(x)' = ToSend(x)
  <2>0. PICK v : v = Busy(s, 1)
    OBVIOUS
  <2>1. Of(v, x) = {} /\ Of(sending[t], x) = {}
    BY <1>2, <2>0, OfBusy
  <2>2. \A r \in Tasks \ {t} : Of(sending[r], x) = {} \/ Of(sending[t], x) = Of(v, x)
    BY <2>1
  <2>3. sending' = [sending EXCEPT ![t] = v]
    BY <1>1, <2>0
  <2> QED
    BY <2>1, <2>2, <2>3, OneGoesOn
<1>14. Balance'
  <2> SUFFICES ASSUME NEW x \in Signals
               PROVE  Balanced(x, ToSend(x)', OnWire(x)', Kept(x)', x \notin unsent',
                               x \in Arrived', x \in lost')
    BY DEF Balance, Balanced
  <2>1. Balanced(x, ToSend(x), OnWire(x), Kept(x), x \notin unsent, x \in Arrived, x \in lost)
    BY DEF Balance
  <2>2. CASE x = s
    <3>1. ToSend(s) \cup OnWire(s) \cup Kept(s) = {} /\ s \notin Arrived /\ s \notin lost
      BY <1>1, <2>1, <2>2 DEF Balanced
    <3>2. s \notin unsent'
      BY <1>1
    <3>3. ToSend(s)' = 1..Total[s] /\ OnWire(s)' = {} /\ Kept(s)' = {}
      BY <1>9, <1>12, <3>1
    <3> QED
      BY <1>2, <1>10, <2>2, <3>1, <3>2, <3>3 DEF Balanced
  <2>3. CASE x # s
    <3>1. (x \notin unsent') = (x \notin unsent)
      BY <1>1, <2>3
    <3> QED
      BY <1>2, <1>9, <1>10, <1>13, <2>1, <2>3, <3>1
  <2> QED
    BY <2>2, <2>3
<1> QED
  BY <1>6, <1>7, <1>8, <1>14

LEMMA SendFragmentKeeps ==
    ASSUME IInv, NEW t \in Tasks, SendFragment(t)
    PROVE  IInv'
<1> USE DEF IInv
<1>1. PICK s \in Signals : \E i \in 1..Total[s] :
          sending[t] = Busy(s, i) /\ SenderOf[s] = t[1] /\ s \notin unsent
  BY DEF SendFragment, Sending
<1>2. PICK i \in 1..Total[s] : sending[t] = Busy(s, i)
  BY <1>1
<1>3. SenderOf[s] = t[1] /\ s \notin unsent /\ Total[s] \in Nat \ {0} /\ SenderOf[s] \in Senders
  BY <1>1, Totals
<1>4. sending[t] # None /\ sending[t].signal = s /\ sending[t].next = i
  BY <1>2, BusyParts
<1>5. PICK v : v = IF i = Total[s] THEN None ELSE Busy(s, i + 1)
  OBVIOUS
<1>6. /\ wire' = [wire EXCEPT ![SenderOf[s]] = Append(@, Relayed(s, i))]
      /\ sending' = [sending EXCEPT ![t] = v]
      /\ unsent' = unsent /\ known' = known /\ fragments' = fragments
      /\ events' = events /\ lost' = lost
  BY <1>3, <1>4, <1>5 DEF SendFragment
<1>7. /\ DOMAIN sending' = Tasks /\ sending'[t] = v
      /\ \A r \in Tasks \ {t} : sending'[r] = sending[r]
  BY <1>6 DEF Typed
<1>8. \A r \in Tasks \ {t} : sending[r] # None => sending[r].signal # s
  BY <1>4 DEF Sending
<1>9. v # None => v = Busy(s, i + 1) /\ v.signal = s /\ i + 1 \in 1..Total[s]
  BY <1>3, <1>5, BusyParts
<1>10. \A r \in Tasks \ {t} : Of(sending[r], s) = {}
  BY <1>8 DEF Of
<1>11. Of(sending[t], s) = i .. Total[s]
  BY <1>2, OfBusy
<1>12. Of(v, s) = (i .. Total[s]) \ {i}
  <2>1. CASE i = Total[s]
    <3>1. Of(v, s) = {}
      BY <1>5, <2>1, OfBusy
    <3> QED
      BY <1>3, <2>1, <3>1
  <2>2. CASE i # Total[s]
    <3>1. Of(v, s) = i + 1 .. Total[s]
      BY <1>5, <2>2, OfBusy
    <3> QED
      BY <1>3, <3>1
  <2> QED
    BY <2>1, <2>2
<1>13. i \in Of(sending[t], s) /\ Of(v, s) = Of(sending[t], s) \ {i}
  BY <1>3, <1>11, <1>12
<1>14. ToSend(s) = Of(sending[t], s) /\ ToSend(s)' = Of(v, s)
  BY <1>7, <1>10, OneAlone
<1>15. i \in ToSend(s) /\ ToSend(s)' = ToSend(s) \ {i}
  BY <1>13, <1>14
<1>16. ASSUME NEW x \in Signals \ {s}
       PROVE  ToSend(x)' = ToSend(x)
  <2>1. Of(v, x) = {} /\ Of(sending[t], x) = {}
    BY <1>2, <1>5, OfBusy
  <2>2. \A r \in Tasks \ {t} : Of(sending[r], x) = {} \/ Of(sending[t], x) = Of(v, x)
    BY <2>1
  <2> QED
    <3>1. sending' = [sending EXCEPT ![t] = v] /\ t \in Tasks /\ Typed
      BY <1>6
    <3>2. Of(sending[t], x) = Of(v, x)
      BY <2>1
    <3> QED
      BY <2>2, <3>1, <3>2, OneGoesOn
<1>17. Balanced(s, ToSend(s), OnWire(s), Kept(s), s \notin unsent, s \in Arrived, s \in lost)
  BY DEF Balance
<1>18. i \notin OnWire(s)
  BY <1>15, <1>17 DEF Balanced
<1>19. /\ wire' \in [Senders -> Seq(Cut)] /\ Sent'
       /\ OnWire(s)' = OnWire(s) \cup {i}
       /\ \A x \in Signals \ {s} : OnWire(x)' = OnWire(x)
  BY <1>6, <1>18, SentMore
<1>20. Typed' /\ Buffered'
  BY <1>6, <1>7, <1>19 DEF Typed, Buffered
<1>21. Sending'
  <2>1. ASSUME NEW r \in Tasks, sending'[r] # None
        PROVE  \E x \in Signals : \E k \in 1..Total[x] :
                   sending'[r] = Busy(x, k) /\ SenderOf[x] = r[1] /\ x \notin unsent'
    <3>1. CASE r = t
      BY <1>3, <1>6, <1>7, <1>9, <2>1, <3>1
    <3>2. CASE r # t
      BY <1>6, <1>7, <2>1, <3>2 DEF Sending
    <3> QED
      BY <3>1, <3>2
  <2>2. ASSUME NEW q \in Tasks, NEW r \in Tasks, sending'[q] # None, sending'[r] # None,
               sending'[q].signal = sending'[r].signal
        PROVE  q = r
    BY <1>7, <1>8, <1>9, <2>2 DEF Sending
  <2> QED
    BY <2>1, <2>2 DEF Sending
<1>22. (\A x : Kept(x)' = Kept(x)) /\ Arrived' = Arrived
  BY <1>6 DEF Kept, Arrived
<1>23. Balance'
  <2> SUFFICES ASSUME NEW x \in Signals
               PROVE  Balanced(x, ToSend(x)', OnWire(x)', Kept(x)', x \notin unsent',
                               x \in Arrived', x \in lost')
    BY DEF Balance, Balanced
  <2>1. CASE x = s
    <3>1. Balanced(s, ToSend(s) \ {i}, OnWire(s) \cup {i}, Kept(s), s \notin unsent,
                   s \in Arrived, s \in lost)
      BY <1>15, <1>17, Moved1
    <3> QED
      BY <1>6, <1>15, <1>19, <1>22, <2>1, <3>1
  <2>2. CASE x # s
    <3>1. Balanced(x, ToSend(x), OnWire(x), Kept(x), x \notin unsent, x \in Arrived, x \in lost)
      BY DEF Balance
    <3> QED
      BY <1>6, <1>16, <1>19, <1>22, <2>2, <3>1
  <2> QED
    BY <2>1, <2>2
<1> QED
  BY <1>19, <1>20, <1>21, <1>23

-----------------------------------------------------------------------------
(* The reader. *)

(* What no step of the reader touches. *)
LEMMA ReaderLeaves ==
    ASSUME UNCHANGED <<unsent, sending>>
    PROVE  (Sending => Sending') /\ \A x : ToSend(x)' = ToSend(x)
  BY DEF Sending, ToSend

LEMMA ReadOtherKeeps ==
    ASSUME IInv, ReadOther
    PROVE  IInv'
<1> USE DEF IInv
<1>1. /\ fragments' = Without(fragments, Stale) /\ lost' = lost \cup Expired
      /\ unsent' = unsent /\ sending' = sending /\ wire' = wire /\ known' = known /\ events' = events
  BY DEF ReadOther
<1>2. /\ Buffered' /\ DOMAIN fragments' = DOMAIN fragments \ Stale
      /\ \A x : KeptIn(fragments', x) = IF Key(x) \in Stale THEN {} ELSE KeptIn(fragments, x)
  <2>1. PICK f : f = fragments
    OBVIOUS
  <2>2. PICK ks : ks = Stale
    OBVIOUS
  <2>3. BuffersOf(f)
    BY <2>1 DEF Buffered
  <2>4. /\ BuffersOf(Without(f, ks)) /\ DOMAIN Without(f, ks) = DOMAIN f \ ks
        /\ \A x : KeptIn(Without(f, ks), x) = IF Key(x) \in ks THEN {} ELSE KeptIn(f, x)
    BY <2>3, WithoutIs
  <2>5. fragments' = Without(f, ks)
    BY <1>1, <2>1, <2>2
  <2> QED
    BY <2>1, <2>2, <2>4, <2>5 DEF Buffered
<1>3. \A x : Kept(x)' = IF Key(x) \in Stale THEN {} ELSE Kept(x)
  BY <1>2, KeptIs DEF Kept, KeptIn
<1>4. Typed'
  BY <1>1, <1>2, ExpiredIs DEF Typed
<1>5. Sending' /\ Sent' /\ Arrived' = Arrived /\ \A x : ToSend(x)' = ToSend(x) /\ OnWire(x)' = OnWire(x)
  BY <1>1, ReaderLeaves DEF Sent, Arrived, OnWire
<1>6. Balance'
  <2> SUFFICES ASSUME NEW x \in Signals
               PROVE  Balanced(x, ToSend(x)', OnWire(x)', Kept(x)', x \notin unsent',
                               x \in Arrived', x \in lost')
    BY DEF Balance, Balanced
  <2>1. Balanced(x, ToSend(x), OnWire(x), IF Key(x) \in Stale THEN {} ELSE Kept(x),
                 x \notin unsent, x \in Arrived, x \in lost \cup Expired)
    BY SweepBalance
  <2> QED
    BY <1>1, <1>3, <1>5, <2>1
<1> QED
  BY <1>2, <1>4, <1>5, <1>6

LEMMA DropFragmentKeeps ==
    ASSUME IInv, NEW n \in Senders, DropFragment(n)
    PROVE  IInv'
<1> USE DEF IInv
<1>1. /\ wire[n] # <<>> /\ wire' = [wire EXCEPT ![n] = Tail(@)]
      /\ fragments' = Without(fragments, Stale)
      /\ lost' = lost \cup Expired \cup {Head(wire[n]).signal}
      /\ unsent' = unsent /\ sending' = sending /\ known' = known /\ events' = events
  BY DEF DropFragment
<1>2. wire' \in [Senders -> Seq(Cut)] /\ Sent'
  BY <1>1, SentLess
<1>3. PICK s \in Signals : \E i \in 1..Total[s] :
          /\ Head(wire[n]) = Relayed(s, i) /\ SenderOf[s] = n
          /\ i \in OnWire(s) /\ OnWire(s)' = OnWire(s) \ {i}
          /\ \A x \in Signals \ {s} : OnWire(x)' = OnWire(x)
  BY <1>1, SentLess
<1>4. PICK i \in 1..Total[s] :
          /\ Head(wire[n]) = Relayed(s, i) /\ SenderOf[s] = n
          /\ i \in OnWire(s) /\ OnWire(s)' = OnWire(s) \ {i}
          /\ \A x \in Signals \ {s} : OnWire(x)' = OnWire(x)
  BY <1>3
<1>5. lost' = lost \cup Expired \cup {s}
  BY <1>1, <1>4, PieceParts
<1>6. /\ Buffered' /\ DOMAIN fragments' = DOMAIN fragments \ Stale
      /\ \A x : KeptIn(fragments', x) = IF Key(x) \in Stale THEN {} ELSE KeptIn(fragments, x)
  <2>1. PICK f : f = fragments
    OBVIOUS
  <2>2. PICK ks : ks = Stale
    OBVIOUS
  <2>3. BuffersOf(f)
    BY <2>1 DEF Buffered
  <2>4. /\ BuffersOf(Without(f, ks)) /\ DOMAIN Without(f, ks) = DOMAIN f \ ks
        /\ \A x : KeptIn(Without(f, ks), x) = IF Key(x) \in ks THEN {} ELSE KeptIn(f, x)
    BY <2>3, WithoutIs
  <2>5. fragments' = Without(f, ks)
    BY <1>1, <2>1, <2>2
  <2> QED
    BY <2>1, <2>2, <2>4, <2>5 DEF Buffered
<1>7. \A x : Kept(x)' = IF Key(x) \in Stale THEN {} ELSE Kept(x)
  BY <1>6, KeptIs DEF Kept, KeptIn
<1>8. Typed'
  BY <1>1, <1>2, <1>5, <1>6, ExpiredIs DEF Typed
<1>9. Sending' /\ Arrived' = Arrived /\ \A x : ToSend(x)' = ToSend(x)
  BY <1>1, ReaderLeaves DEF Arrived
<1>10. Balance'
  <2> SUFFICES ASSUME NEW x \in Signals
               PROVE  Balanced(x, ToSend(x)', OnWire(x)', Kept(x)', x \notin unsent',
                               x \in Arrived', x \in lost')
    BY DEF Balance, Balanced
  <2>1. PICK K : K = IF Key(x) \in Stale THEN {} ELSE Kept(x)
    OBVIOUS
  <2>2. Balanced(x, ToSend(x), OnWire(x), K, x \notin unsent, x \in Arrived, x \in lost \cup Expired)
    BY <2>1, SweepBalance
  <2>3. CASE x = s
    <3>1. Balanced(s, ToSend(s), OnWire(s) \ {i}, K, s \notin unsent, s \in Arrived, TRUE)
      <4>1. Balanced(s, ToSend(s), OnWire(s), K, s \notin unsent, s \in Arrived, s \in lost \cup Expired)
        BY <2>2, <2>3
      <4>2. i \in OnWire(s)
        BY <1>4
      <4> QED
        BY <4>1, <4>2, Dropped1
    <3>2. (s \in lost') = TRUE
      BY <1>5
    <3> QED
      BY <1>1, <1>4, <1>7, <1>9, <2>1, <2>3, <3>1, <3>2
  <2>4. CASE x # s
    <3>1. (x \in lost') = (x \in lost \cup Expired)
      BY <1>5, <2>4
    <3> QED
      BY <1>1, <1>4, <1>7, <1>9, <2>1, <2>2, <2>4, <3>1
  <2> QED
    BY <2>3, <2>4
<1> QED
  BY <1>2, <1>6, <1>8, <1>9, <1>10

(* Fragment i of s is read: the last one that was missing, or another. *)
Swept == Without(fragments, Stale)

Completes(s, i) ==
    /\ KeptIn(Swept, s) \cup {i} = 1..Total[s]
    /\ fragments' = Without(Swept, {Key(s)})
    /\ events' = Append(events, WholeSignal(s))

Joins(s, i) ==
    /\ KeptIn(Swept, s) \cup {i} # 1..Total[s]
    /\ \E b : /\ BufferOf(b, s) /\ DOMAIN b.parts = KeptIn(Swept, s) \cup {i}
              /\ fragments' = With(Swept, Key(s), b)
    /\ events' = events

Reads(n, s, i) ==
    /\ SenderOf[s] = n /\ i \in OnWire(s) /\ OnWire(s)' = OnWire(s) \ {i}
    /\ \A x \in Signals \ {s} : OnWire(x)' = OnWire(x)
    /\ Completes(s, i) \/ Joins(s, i)

LEMMA SweptIs ==
    ASSUME Buffered
    PROVE  /\ BuffersOf(Swept) /\ DOMAIN Swept = DOMAIN fragments \ Stale
           /\ \A x : KeptIn(Swept, x) = IF Key(x) \in Stale THEN {} ELSE Kept(x)
<1>1. PICK f : f = fragments
  OBVIOUS
<1>2. PICK ks : ks = Stale
  OBVIOUS
<1>3. BuffersOf(f)
  BY <1>1 DEF Buffered
<1>4. /\ BuffersOf(Without(f, ks)) /\ DOMAIN Without(f, ks) = DOMAIN f \ ks
      /\ \A x : KeptIn(Without(f, ks), x) = IF Key(x) \in ks THEN {} ELSE KeptIn(f, x)
  BY <1>3, WithoutIs
<1> QED
  BY <1>1, <1>2, <1>4, KeptIs DEF Swept

LEMMA ReadIs ==
    ASSUME IInv, NEW n \in Senders, ReadFragment(n)
    PROVE  \E s \in Signals : \E i \in 1..Total[s] : Reads(n, s, i)
<1> USE DEF IInv
<1>1. wire[n] # <<>> /\ wire' = [wire EXCEPT ![n] = Tail(@)]
  BY DEF ReadFragment
<1>2. PICK s \in Signals : \E i \in 1..Total[s] :
          /\ Head(wire[n]) = Relayed(s, i) /\ SenderOf[s] = n
          /\ i \in OnWire(s) /\ OnWire(s)' = OnWire(s) \ {i}
          /\ \A x \in Signals \ {s} : OnWire(x)' = OnWire(x)
  BY <1>1, SentLess
<1>3. PICK i \in 1..Total[s] :
          /\ Head(wire[n]) = Relayed(s, i) /\ SenderOf[s] = n
          /\ i \in OnWire(s) /\ OnWire(s)' = OnWire(s) \ {i}
          /\ \A x \in Signals \ {s} : OnWire(x)' = OnWire(x)
  BY <1>2
<1>4. Head(wire[n]).signal = s
  BY <1>3, PieceParts
<1>5. PICK b : b = Filled(Swept, Key(s), Relayed(s, i))
  OBVIOUS
<1>6. \/ /\ Full(b)
         /\ fragments' = Without(Swept, {Key(s)})
         /\ events' = Append(events, Event(n, b.parts))
      \/ /\ ~Full(b)
         /\ fragments' = With(Swept, Key(s), b)
         /\ events' = events
  BY <1>3, <1>4, <1>5 DEF ReadFragment, Swept
<1>7. PICK K : K = KeptIn(Swept, s)
  OBVIOUS
<1>8. BuffersOf(Swept) /\ K = IF Key(s) \in Stale THEN {} ELSE Kept(s)
  BY <1>7, SweptIs
<1>9. Balanced(s, ToSend(s), OnWire(s), IF Key(s) \in Stale THEN {} ELSE Kept(s),
               s \notin unsent, s \in Arrived, s \in lost \cup Expired)
  BY SweepBalance
<1>10. K \subseteq 1..Total[s]
  BY <1>8, <1>9 DEF Balanced
<1>11. PICK f : f = Swept
  OBVIOUS
<1>12. /\ DOMAIN b.parts = K \cup {i} /\ b.parts = [j \in K \cup {i} |-> Relayed(s, j)]
       /\ b.total = Total[s] /\ b.stale = FALSE
  <2>1. BuffersOf(f) /\ KeptIn(f, s) \subseteq 1..Total[s]
    BY <1>7, <1>8, <1>10, <1>11
  <2>2. Holds(Filled(f, Key(s), Relayed(s, i)), s, KeptIn(f, s) \cup {i})
    BY <2>1, FilledIs
  <2>3. Holds(b, s, K \cup {i})
    BY <1>5, <1>7, <1>11, <2>2
  <2> QED
    BY <2>3 DEF Holds
<1>13. Full(b) <=> K \cup {i} = 1..Total[s]
  BY <1>10, <1>12, FullIs
<1>14. CASE Full(b)
  <2>1. Event(n, b.parts) = WholeSignal(s)
    BY <1>3, <1>12, <1>13, <1>14 DEF WholeSignal
  <2>2. Completes(s, i)
    BY <1>6, <1>7, <1>13, <1>14, <2>1 DEF Completes
  <2> QED
    BY <1>3, <2>2 DEF Reads
<1>15. CASE ~Full(b)
  <2>1. BufferOf(b, s)
    <3>1. DOMAIN b.parts # {} /\ DOMAIN b.parts \subseteq 1..Total[s] /\ DOMAIN b.parts # 1..Total[s]
      BY <1>10, <1>12, <1>13, <1>15
    <3>2. b.parts = [j \in DOMAIN b.parts |-> Relayed(s, j)]
      BY <1>12
    <3> QED
      BY <1>12, <3>1, <3>2 DEF BufferOf
  <2>2. Joins(s, i)
    BY <1>6, <1>7, <1>12, <1>13, <1>15, <2>1 DEF Joins
  <2> QED
    BY <1>3, <2>2 DEF Reads
<1> QED
  BY <1>14, <1>15

LEMMA ReadFragmentKeeps ==
    ASSUME IInv, NEW n \in Senders, ReadFragment(n)
    PROVE  IInv'
<1> USE DEF IInv
<1>1. /\ wire[n] # <<>> /\ wire' = [wire EXCEPT ![n] = Tail(@)]
      /\ lost' = lost \cup Expired
      /\ unsent' = unsent /\ sending' = sending /\ known' = known
  BY DEF ReadFragment
<1>2. wire' \in [Senders -> Seq(Cut)] /\ Sent'
  BY <1>1, SentLess
<1>3. PICK s \in Signals : \E i \in 1..Total[s] : Reads(n, s, i)
  BY ReadIs
<1>4. PICK i \in 1..Total[s] : Reads(n, s, i)
  BY <1>3
<1>5. /\ SenderOf[s] = n /\ i \in OnWire(s) /\ OnWire(s)' = OnWire(s) \ {i}
      /\ \A x \in Signals \ {s} : OnWire(x)' = OnWire(x)
      /\ Completes(s, i) \/ Joins(s, i)
  BY <1>4 DEF Reads
<1>6. PICK f : f = Swept
  OBVIOUS
<1>7. /\ BuffersOf(f) /\ DOMAIN f \subseteq DOMAIN fragments
      /\ \A x : KeptIn(f, x) = IF Key(x) \in Stale THEN {} ELSE Kept(x)
  BY <1>6, SweptIs
<1>8. ASSUME NEW x \in Signals
      PROVE  Balanced(x, ToSend(x), OnWire(x), KeptIn(f, x), x \notin unsent, x \in Arrived,
                      x \in lost \cup Expired)
  <2>1. Balanced(x, ToSend(x), OnWire(x), IF Key(x) \in Stale THEN {} ELSE Kept(x),
                 x \notin unsent, x \in Arrived, x \in lost \cup Expired)
    BY SweepBalance
  <2> QED
    BY <1>7, <2>1
<1>9. Sending' /\ \A x : ToSend(x)' = ToSend(x)
  BY <1>1, ReaderLeaves
<1>10. Key(s) \in Keys
  BY DEF Keys
<1>11. \A x : Kept(x)' = KeptIn(fragments', x)
  BY DEF Kept, KeptIn
<1>12. Arrived = ArrivedIn(events) /\ Arrived' = ArrivedIn(events') /\ events \in Seq(Wholes)
  BY DEF Arrived, ArrivedIn, Typed, Wholes
<1>13. CASE Completes(s, i)
  <2>1. PICK g : g = Without(f, {Key(s)})
    OBVIOUS
  <2>2. fragments' = g /\ events' = Append(events, WholeSignal(s)) /\ KeptIn(f, s) \cup {i} = 1..Total[s]
    BY <1>6, <1>13, <2>1 DEF Completes
  <2>3. /\ BuffersOf(g) /\ DOMAIN g \subseteq DOMAIN f
        /\ \A x : KeptIn(g, x) = IF Key(x) \in {Key(s)} THEN {} ELSE KeptIn(f, x)
    <3>1. PICK ks : ks = {Key(s)}
      OBVIOUS
    <3>2. /\ BuffersOf(Without(f, ks)) /\ DOMAIN Without(f, ks) = DOMAIN f \ ks
          /\ \A x : KeptIn(Without(f, ks), x) = IF Key(x) \in ks THEN {} ELSE KeptIn(f, x)
      <4>1. BuffersOf(f)
        BY <1>7
      <4> HIDE DEF KeptIn
      <4> QED
        BY <4>1, WithoutIs
    <3> QED
      BY <2>1, <3>1, <3>2
  <2>4. KeptIn(g, s) = {} /\ \A x \in Signals \ {s} : KeptIn(g, x) = KeptIn(f, x)
    BY <2>3, KeyInjective
  <2>5. PICK es \in Seq(Wholes) : es = events
    BY <1>12
  <2>6. Append(es, WholeSignal(s)) \in Seq(Wholes) /\ ArrivedIn(Append(es, WholeSignal(s))) = ArrivedIn(es) \cup {s}
    BY ArrivedMore
  <2>7. events' \in Seq(Wholes) /\ Arrived' = Arrived \cup {s}
    BY <1>12, <2>2, <2>5, <2>6
  <2>8. Typed'
    BY <1>1, <1>2, <1>7, <2>2, <2>3, <2>7, ExpiredIs DEF Typed, Wholes
  <2>9. Buffered'
    BY <2>2, <2>3 DEF Buffered
  <2>10. Balance'
    <3> SUFFICES ASSUME NEW x \in Signals
                 PROVE  Balanced(x, ToSend(x)', OnWire(x)', Kept(x)', x \notin unsent',
                                 x \in Arrived', x \in lost')
      BY DEF Balance, Balanced
    <3>1. CASE x = s
      <4>1. Balanced(s, ToSend(s), OnWire(s), KeptIn(f, s), s \notin unsent, s \in Arrived,
                     s \in lost \cup Expired)
        BY <1>8
      <4>2. Balanced(s, ToSend(s), OnWire(s) \ {i}, {}, s \notin unsent, TRUE, s \in lost \cup Expired)
        BY <1>5, <2>2, <4>1, Completed1
      <4>3. (s \in Arrived') = TRUE
        BY <2>7
      <4> QED
        BY <1>1, <1>5, <1>9, <1>11, <2>2, <2>4, <3>1, <4>2, <4>3
    <3>2. CASE x # s
      <4>1. (x \in Arrived') = (x \in Arrived)
        BY <2>7, <3>2
      <4>2. KeptIn(g, x) = KeptIn(f, x)
        BY <2>4, <3>2
      <4> QED
        BY <1>1, <1>5, <1>8, <1>9, <1>11, <2>2, <3>2, <4>1, <4>2
    <3> QED
      BY <3>1, <3>2
  <2> QED
    BY <1>2, <1>9, <2>8, <2>9, <2>10
<1>14. CASE Joins(s, i)
  <2>1. PICK b : /\ BufferOf(b, s) /\ DOMAIN b.parts = KeptIn(f, s) \cup {i}
                 /\ fragments' = With(f, Key(s), b)
    BY <1>6, <1>14 DEF Joins
  <2>2. PICK g : g = With(f, Key(s), b)
    OBVIOUS
  <2>3. fragments' = g /\ events' = events /\ KeptIn(f, s) \cup {i} # 1..Total[s]
    BY <1>6, <1>14, <2>1, <2>2 DEF Joins
  <2>4. /\ BuffersOf(g) /\ DOMAIN g = DOMAIN f \cup {Key(s)} /\ KeptIn(g, s) = KeptIn(f, s) \cup {i}
        /\ \A x \in Signals \ {s} : KeptIn(g, x) = KeptIn(f, x)
    BY <1>7, <2>1, <2>2, WithIs
  <2>5. Arrived' = Arrived
    BY <2>3 DEF Arrived
  <2>6. Typed'
    BY <1>1, <1>2, <1>7, <1>10, <2>3, <2>4, ExpiredIs DEF Typed
  <2>7. Buffered'
    BY <2>3, <2>4 DEF Buffered
  <2>8. Balance'
    <3> SUFFICES ASSUME NEW x \in Signals
                 PROVE  Balanced(x, ToSend(x)', OnWire(x)', Kept(x)', x \notin unsent',
                                 x \in Arrived', x \in lost')
      BY DEF Balance, Balanced
    <3>1. CASE x = s
      <4>1. Balanced(s, ToSend(s), OnWire(s), KeptIn(f, s), s \notin unsent, s \in Arrived,
                     s \in lost \cup Expired)
        BY <1>8
      <4>2. Balanced(s, ToSend(s), OnWire(s) \ {i}, KeptIn(f, s) \cup {i}, s \notin unsent,
                     s \in Arrived, s \in lost \cup Expired)
        BY <1>5, <4>1, Joined1
      <4> QED
        BY <1>1, <1>5, <1>9, <1>11, <2>3, <2>4, <2>5, <3>1, <4>2
    <3>2. CASE x # s
      <4>1. KeptIn(g, x) = KeptIn(f, x)
        BY <2>4, <3>2
      <4> QED
        BY <1>1, <1>5, <1>8, <1>9, <1>11, <2>3, <2>5, <3>2, <4>1
    <3> QED
      BY <3>1, <3>2
  <2> QED
    BY <1>2, <1>9, <2>6, <2>7, <2>8
<1> QED
  BY <1>5, <1>13, <1>14

-----------------------------------------------------------------------------
(* Time and keys; every step. *)

LEMMA TimePassesKeeps ==
    ASSUME IInv, TimePasses
    PROVE  IInv'
<1> USE DEF IInv
<1>1. /\ fragments' = [k \in DOMAIN fragments |-> [fragments[k] EXCEPT !.stale = TRUE]]
      /\ unsent' = unsent /\ sending' = sending /\ wire' = wire /\ known' = known
      /\ events' = events /\ lost' = lost
  BY DEF TimePasses
<1>2. DOMAIN fragments' = DOMAIN fragments
  BY <1>1
<1>3. ASSUME NEW k \in DOMAIN fragments
      PROVE  /\ fragments'[k].parts = fragments[k].parts
             /\ \E s \in Signals : Key(s) = k /\ BufferOf(fragments'[k], s)
  <2>1. PICK b : b = fragments[k]
    OBVIOUS
  <2>2. PICK c : c = [b EXCEPT !.stale = TRUE]
    OBVIOUS
  <2>3. fragments'[k] = c
    BY <1>1, <2>1, <2>2
  <2>4. PICK s \in Signals : Key(s) = k /\ BufferOf(b, s)
    BY <2>1 DEF Buffered, BuffersOf
  <2>5. c.parts = b.parts /\ c.total = b.total
    BY <2>2
  <2>6. c.stale \in BOOLEAN
    BY <2>2, <2>4 DEF BufferOf
  <2>7. BufferOf(c, s)
    BY <2>4, <2>5, <2>6 DEF BufferOf
  <2> QED
    BY <2>1, <2>3, <2>4, <2>5, <2>7
<1>4. Buffered'
  BY <1>2, <1>3 DEF Buffered, BuffersOf
<1>5. \A x : Kept(x)' = Kept(x)
  BY <1>2, <1>3 DEF Kept
<1>6. Typed' /\ Sent' /\ Sending' /\ Arrived' = Arrived
  BY <1>1, <1>2, ReaderLeaves DEF Typed, Sent, Arrived
<1>7. \A x : ToSend(x)' = ToSend(x) /\ OnWire(x)' = OnWire(x)
  BY <1>1, ReaderLeaves DEF OnWire
<1>8. Balance'
  <2> SUFFICES ASSUME NEW x \in Signals
               PROVE  Balanced(x, ToSend(x)', OnWire(x)', Kept(x)', x \notin unsent',
                               x \in Arrived', x \in lost')
    BY DEF Balance, Balanced
  <2>1. Balanced(x, ToSend(x), OnWire(x), Kept(x), x \notin unsent, x \in Arrived, x \in lost)
    BY DEF Balance
  <2> QED
    BY <1>1, <1>5, <1>6, <1>7, <2>1
<1> QED
  BY <1>4, <1>6, <1>8

(* Forget, Learn and stuttering. *)
LEMMA OthersKeep ==
    ASSUME IInv, known' \subseteq Senders,
           UNCHANGED <<unsent, sending, wire, fragments, events, lost>>
    PROVE  IInv'
<1> USE DEF IInv
<1>1. Typed' /\ Sending' /\ Sent' /\ Buffered' /\ Arrived' = Arrived
  BY DEF Typed, Sending, Sent, Buffered, Arrived
<1>2. \A x : ToSend(x)' = ToSend(x) /\ OnWire(x)' = OnWire(x) /\ Kept(x)' = Kept(x)
  BY DEF ToSend, OnWire, Kept
<1>3. Balance'
  <2> SUFFICES ASSUME NEW x \in Signals
               PROVE  Balanced(x, ToSend(x)', OnWire(x)', Kept(x)', x \notin unsent',
                               x \in Arrived', x \in lost')
    BY DEF Balance, Balanced
  <2>1. Balanced(x, ToSend(x), OnWire(x), Kept(x), x \notin unsent, x \in Arrived, x \in lost)
    BY DEF Balance
  <2> QED
    BY <1>1, <1>2, <2>1
<1> QED
  BY <1>1, <1>3

LEMMA InitIInv == Init => IInv
<1> SUFFICES ASSUME Init PROVE IInv
  OBVIOUS
<1> USE DEF Init
<1>1. Typed
  <2>1. wire \in [Senders -> Seq(Cut)]
    OBVIOUS
  <2> QED
    BY <2>1 DEF Typed
<1>2. Sending /\ Sent /\ Buffered
  BY DEF Sending, Sent, FromClient, Buffered, BuffersOf
<1>3. Balance
  <2> SUFFICES ASSUME NEW s \in Signals
               PROVE  Balanced(s, ToSend(s), OnWire(s), Kept(s), s \notin unsent, s \in Arrived, s \in lost)
    BY DEF Balance
  <2>1. ToSend(s) = {}
    BY DEF ToSend
  <2>2. wire[SenderOf[s]] = <<>>
    BY Totals
  <2>3. OnWire(s) = {}
    BY <2>2 DEF OnWire
  <2>4. Kept(s) = {} /\ s \notin Arrived
    BY DEF Kept, Arrived
  <2>5. 1..Total[s] # {}
    BY Totals
  <2> QED
    BY <2>1, <2>3, <2>4, <2>5 DEF Balanced
<1> QED
  BY <1>1, <1>2, <1>3 DEF IInv

LEMMA Inductive == IInv /\ [Next]_vars => IInv'
<1> SUFFICES ASSUME IInv, [Next]_vars PROVE IInv'
  OBVIOUS
<1>1. ASSUME NEW t \in Tasks, Send(t) PROVE IInv'
  BY <1>1, BeginKeeps, SendFragmentKeeps DEF Send
<1>2. ASSUME NEW n \in Senders, Read(n) PROVE IInv'
  BY <1>2, ReadFragmentKeeps, DropFragmentKeeps DEF Read
<1>3. ASSUME NEW n \in Senders, Forget(n) \/ Learn(n) PROVE IInv'
  BY <1>3, OthersKeep DEF Forget, Learn, IInv, Typed
<1>4. CASE UNCHANGED vars
  BY <1>4, OthersKeep DEF vars, IInv, Typed
<1> QED
  BY <1>1, <1>2, <1>3, <1>4, ReadOtherKeeps, TimePassesKeeps DEF Next

(* The variables keep their types. *)
THEOREM TypeCorrect == Spec => []TypeOK
<1>1. IInv => TypeOK
  <2> SUFFICES ASSUME IInv PROVE TypeOK
    OBVIOUS
  <2> USE DEF IInv
  <2>1. ASSUME NEW t \in Tasks, sending[t] # None
        PROVE  sending[t].next \in 1..Total[sending[t].signal]
    BY <2>1, BusyParts DEF Sending
  <2>2. ASSUME NEW k \in DOMAIN fragments
        PROVE  /\ DOMAIN fragments[k].parts # {}
               /\ Cardinality(DOMAIN fragments[k].parts) < fragments[k].total
    <3>1. PICK b : b = fragments[k]
      OBVIOUS
    <3>2. PICK s \in Signals : BufferOf(b, s)
      BY <3>1 DEF Buffered, BuffersOf
    <3> QED
      BY <3>1, <3>2, FullIs DEF BufferOf
  <2> QED
    BY <2>1, <2>2 DEF TypeOK, Typed
<1> QED
  BY <1>1, InitIInv, Inductive, PTL DEF Spec

(* Whatever is sent side by side, forgotten or expires: the fragments of a  *)
(* signal that has neither come out nor been thrown away are all there,     *)
(* each in one place (send_webrtc_signal, handle_fragment).                 *)
THEOREM AllFragmentsThere == Spec => []NothingVanishes
<1>1. IInv => NothingVanishes
  BY DEF IInv, Balance, Balanced, NothingVanishes, Begun, Typed
<1> QED
  BY <1>1, InitIInv, Inductive, PTL DEF Spec

-----------------------------------------------------------------------------
(* The channel: signals come out at most once, whole, from who sent them. *)

Pending == Begun \ (Arrived \cup lost)

LEMMA BeginHandsOver ==
    ASSUME IInv, NEW t \in Tasks, Begin(t)
    PROVE  \E s \in Signals : Channel!HandOver(s)
<1> USE DEF IInv
<1>1. PICK s \in unsent : unsent' = unsent \ {s}
  BY DEF Begin
<1>2. events' = events /\ lost' = lost /\ s \in Signals /\ unsent \subseteq Signals
  BY DEF Begin, Typed
<1>3. Balanced(s, ToSend(s), OnWire(s), Kept(s), s \notin unsent, s \in Arrived, s \in lost)
  BY <1>2 DEF Balance
<1>4. s \notin Arrived /\ s \notin lost
  BY <1>1, <1>3 DEF Balanced
<1>5. PICK es \in Seq(Wholes) : es = events
  BY DEF Typed, Wholes
<1>6. Arrived = ArrivedIn(es)
  BY <1>5 DEF Arrived, ArrivedIn
<1>7. WholeSignal(s) \notin {events[i] : i \in DOMAIN events}
  BY <1>2, <1>4, <1>5, <1>6, ArrivedIs
<1>8. Arrived' = Arrived
  BY <1>2 DEF Arrived
<1>9. Pending' = Pending \cup {s} /\ s \notin Pending
  BY <1>1, <1>2, <1>4, <1>8 DEF Pending, Begun
<1>10. Channel!HandOver(s)
  BY <1>2, <1>7, <1>9 DEF Channel!HandOver, Pending
<1> QED
  BY <1>2, <1>10

LEMMA LosesSome ==
    ASSUME IInv, NEW gone \in SUBSET Signals, unsent' = unsent, events' = events, lost' = lost \cup gone
    PROVE  Channel!Lose(gone)
<1>1. Arrived' = Arrived
  BY DEF Arrived
<1>2. Pending' = Pending \ gone
  BY <1>1 DEF Pending, Begun
<1> QED
  BY <1>2 DEF Channel!Lose, Pending

LEMMA ReadDelivers ==
    ASSUME IInv, NEW n \in Senders, ReadFragment(n)
    PROVE  \/ Channel!Lose(Expired)
           \/ \E s \in Signals : Channel!Deliver(s, Expired)
<1> USE DEF IInv
<1>1. lost' = lost \cup Expired /\ unsent' = unsent /\ Expired \subseteq Signals
  BY ExpiredIs DEF ReadFragment
<1>2. PICK s \in Signals : \E i \in 1..Total[s] : Reads(n, s, i)
  BY ReadIs
<1>3. PICK i \in 1..Total[s] : Reads(n, s, i)
  BY <1>2
<1>4. CASE Completes(s, i)
  <2>1. PICK K : K = KeptIn(Swept, s)
    OBVIOUS
  <2>2. events' = Append(events, WholeSignal(s)) /\ K \cup {i} = 1..Total[s] /\ i \in OnWire(s)
    BY <1>3, <1>4, <2>1 DEF Completes, Reads
  <2>3. Balanced(s, ToSend(s), OnWire(s), IF Key(s) \in Stale THEN {} ELSE Kept(s),
                 s \notin unsent, s \in Arrived, s \in lost \cup Expired)
    BY SweepBalance
  <2>4. K = IF Key(s) \in Stale THEN {} ELSE Kept(s)
    BY <2>1, SweptIs
  <2>5. Balanced(s, ToSend(s), OnWire(s), K, s \notin unsent, s \in Arrived, s \in lost \cup Expired)
    BY <2>3, <2>4
  <2>6. s \notin unsent /\ s \notin Arrived /\ s \notin lost \cup Expired
    BY <2>2, <2>5, Completed1
  <2>7. PICK es \in Seq(Wholes) : es = events
    BY DEF Typed, Wholes
  <2>8. ArrivedIn(Append(es, WholeSignal(s))) = ArrivedIn(es) \cup {s}
    BY ArrivedMore
  <2>9. Arrived = ArrivedIn(events) /\ Arrived' = ArrivedIn(events')
    BY DEF Arrived, ArrivedIn
  <2>10. Arrived' = Arrived \cup {s}
    BY <2>2, <2>7, <2>8, <2>9
  <2>11. s \in Pending /\ Pending' = Pending \ ({s} \cup Expired)
    BY <1>1, <2>6, <2>10 DEF Pending, Begun
  <2>12. Channel!Deliver(s, Expired)
    BY <2>2, <2>11 DEF Channel!Deliver, Pending
  <2> QED
    BY <2>12
<1>5. CASE Joins(s, i)
  <2>1. events' = events
    BY <1>5 DEF Joins
  <2> QED
    BY <1>1, <2>1, LosesSome
<1> QED
  BY <1>3, <1>4, <1>5 DEF Reads

LEMMA DropLoses ==
    ASSUME IInv, NEW n \in Senders, DropFragment(n)
    PROVE  \E gone \in SUBSET Signals : Channel!Lose(gone)
<1> USE DEF IInv
<1>1. wire[n] # <<>> /\ wire' = [wire EXCEPT ![n] = Tail(@)]
  BY DEF DropFragment
<1>2. PICK s \in Signals : \E i \in 1..Total[s] : Head(wire[n]) = Relayed(s, i)
  BY <1>1, SentLess
<1>3. Head(wire[n]).signal = s
  BY <1>2, PieceParts
<1>4. PICK gone \in SUBSET Signals : gone = Expired \cup {s}
  BY ExpiredIs
<1>5. unsent' = unsent /\ events' = events /\ lost' = lost \cup gone
  BY <1>3, <1>4 DEF DropFragment
<1>6. Channel!Lose(gone)
  BY <1>5, LosesSome
<1> QED
  BY <1>6

LEMMA RestStutters ==
    ASSUME UNCHANGED <<unsent, events, lost>>
    PROVE  UNCHANGED <<Pending, events>>
  BY DEF Pending, Begun, Arrived

LEMMA EveryStepAllowed ==
    ASSUME IInv, [Next]_vars
    PROVE  [Channel!Next]_<<Pending, events>>
<1>1. ASSUME NEW t \in Tasks, Send(t) PROVE [Channel!Next]_<<Pending, events>>
  <2>1. CASE Begin(t)
    BY <2>1, BeginHandsOver DEF Channel!Next
  <2>2. CASE SendFragment(t)
    BY <2>2, RestStutters DEF SendFragment
  <2> QED
    BY <1>1, <2>1, <2>2 DEF Send
<1>2. Expired \in SUBSET Signals
  BY ExpiredIs DEF IInv
<1>3. ASSUME NEW n \in Senders, Read(n) PROVE Channel!Next
  <2>1. CASE ReadFragment(n)
    BY <1>2, <2>1, ReadDelivers DEF Channel!Next
  <2>2. CASE DropFragment(n)
    BY <2>2, DropLoses DEF Channel!Next
  <2> QED
    BY <1>3, <2>1, <2>2 DEF Read
<1>4. ASSUME ReadOther PROVE Channel!Next
  <2>1. unsent' = unsent /\ events' = events /\ lost' = lost \cup Expired
    BY <1>4 DEF ReadOther
  <2>2. Channel!Lose(Expired)
    BY <1>2, <2>1, LosesSome
  <2> QED
    BY <1>2, <2>2 DEF Channel!Next
<1>5. ASSUME NEW n \in Senders, Forget(n) \/ Learn(n) PROVE UNCHANGED <<Pending, events>>
  BY <1>5, RestStutters DEF Forget, Learn
<1>6. ASSUME TimePasses PROVE UNCHANGED <<Pending, events>>
  BY <1>6, RestStutters DEF TimePasses
<1>7. ASSUME UNCHANGED vars PROVE UNCHANGED <<Pending, events>>
  BY <1>7, RestStutters DEF vars
<1> QED
  BY <1>1, <1>3, <1>4, <1>5, <1>6, <1>7 DEF Next

(* The fragments, the tasks that send them side by side, the keys that are  *)
(* forgotten and the buffers that expire implement the channel: a signal    *)
(* comes out at most once, whole and under the name of its sender.          *)
THEOREM SignalsComeOutOnceAndWhole == Spec => ImplementsChannel
<1>1. Init => Channel!Init
  BY DEF Init, Channel!Init, Begun
<1>2. IInv /\ [Next]_vars => [Channel!Next]_<<Pending, events>>
  BY EveryStepAllowed
<1> QED
  BY <1>1, <1>2, InitIInv, Inductive, PTL DEF Spec, ImplementsChannel, Channel!Spec, Pending
=============================================================================
