------------------------- MODULE FileTransferProofs -------------------------
(***************************************************************************)
(* Theorems about FileTransfer, for every set of users, files and calls.   *)
(* What is on a channel is followed stage by stage: what its receiver has  *)
(* of which offer, after each of the messages still under way.             *)
(***************************************************************************)
EXTENDS FileTransfer, SequenceTheorems, FiniteSetTheorems, TLAPS

-----------------------------------------------------------------------------
(* Types. *)

Pieces == (Files \cup {NoFile}) \X Nat
Received == [name : Names \cup {NoFile}, data : Seq(Pieces)]
Arrival == [from : Users, file : Received]
Messages ==
    [is : {"head"}, file : Files] \cup [is : {"chunk"}, data : Files \X Nat] \cup [is : {"end"}]
Content == {Whole(f) : f \in Files}

Typed ==
    /\ channel \in [Pairs -> {"none", "open", "broken"}]
    /\ wire \in [Ways -> Seq(Messages)] /\ inFlight \in [Ways -> Received]
    /\ sending \in [Users -> [file : Files \cup {NoFile}, left : SUBSET Users,
                              to : SUBSET Users, next : Nat]]
    /\ arrived \in [Users -> Seq(Arrival)] /\ received \in [Users -> Seq(Arrival)]
    /\ given \in [Users -> Seq(Arrival)]
    /\ disk \in [Users -> [Names -> Received]]
    /\ offered \in [Users -> Seq(Content)]
    /\ place \in [Users -> [Users -> Nat]]
    /\ counted \subseteq [from : Users, to : Users, nth : Nat]

(* Whatever has arrived has a name, and is saved under it. *)
Named ==
    /\ \A u \in Users : \A i \in DOMAIN arrived[u] : arrived[u][i].file.name \in Names
    /\ \A u \in Users : \A i \in DOMAIN received[u] : received[u][i].file.name \in Names
    /\ \A u \in Users, n \in Names : disk[u][n].name \in {n, NoFile}

(* A user who sends is sending the last file he has offered, and has not    *)
(* turned yet to those who are left.                                       *)
Busy(u) ==
    LET s == sending[u] IN
    /\ s.left \cup s.to \subseteq Peers(u) /\ s.left \cap s.to = {}
    /\ s.to = {} \/ \E v \in Users : s.to = {v}
    /\ s.file = NoFile => s = Idle
    /\ s.file # NoFile => /\ Len(offered[u]) > 0 /\ offered[u][Len(offered[u])] = Whole(s.file)
                          /\ s.next <= Size[s.file] + 1

Offers ==
    /\ \A u \in Users : \A i, j \in DOMAIN offered[u] : offered[u][i] = offered[u][j] => i = j
    /\ \A c \in counted : c.nth \in 1..Len(offered[c.from])

-----------------------------------------------------------------------------
(* A stage: the file in flight, how many chunks of it have come, and the   *)
(* last offer that was begun.                                              *)
Stage == [file : Files \cup {NoFile}, next : Nat, nth : Nat]

Partial(f, n) == [name |-> Name[f], data |-> [i \in 1..n |-> <<f, i>>]]

Holds(file, s) == file = IF s.file = NoFile THEN Nothing ELSE Partial(s.file, s.next)

Sound(u, s) ==
    /\ s.nth <= Len(offered[u])
    /\ s.file # NoFile => s.nth > 0 /\ offered[u][s.nth] = Whole(s.file)

(* Message m takes a receiver from stage s to stage t. *)
Leads(s, m, t) ==
    \/ /\ m.is = "head"
       /\ t.file = m.file /\ t.next = 0 /\ t.nth > s.nth
    \/ /\ m.is = "chunk"
       /\ s.file # NoFile /\ m.data = <<s.file, s.next + 1>>
       /\ t = [s EXCEPT !.next = @ + 1]
    \/ /\ m.is = "end"
       /\ s.file # NoFile /\ s.next = Size[s.file]
       /\ t = [file |-> NoFile, next |-> 0, nth |-> s.nth]

(* The sender goes on where the last message leaves off. *)
Continues(u, v, s) ==
    /\ v \in sending[u].left => s.nth < Len(offered[u])
    /\ v \in sending[u].to /\ sending[u].next = 0 => s.nth < Len(offered[u])
    /\ v \in sending[u].to /\ sending[u].next > 0 /\ channel[{u, v}] = "open" =>
          s = [file |-> sending[u].file, next |-> sending[u].next - 1, nth |-> Len(offered[u])]

Carries(u, v, st) ==
    LET q == wire[<<u, v>>] IN
    /\ st \in Seq(Stage) /\ Len(st) = Len(q) + 1
    /\ Holds(inFlight[<<u, v>>], st[1])
    /\ place[u][v] <= st[1].nth
    /\ st[1].file # NoFile => place[u][v] < st[1].nth
    /\ \A k \in 1..Len(q) : Leads(st[k], q[k], st[k + 1])
    /\ \A k \in 1..Len(st) : Sound(u, st[k]) /\ st[k].nth <= st[Len(st)].nth
    /\ Continues(u, v, st[Len(st)])

Carried ==
    \A u, v \in Users : <<u, v>> \in Ways => \E st \in Seq(Stage) : Carries(u, v, st)

(* Nothing is under way when the call has broken. *)
Closed == \A p \in Pairs : channel[p] # "open" => \A w \in Ways : Range(w) = p => wire[w] = <<>>

IInv == Typed /\ Named /\ Offers /\ Carried /\ Closed /\ \A u \in Users : Busy(u)

-----------------------------------------------------------------------------
(* Lemmas about ways, files and stages. *)

LEMMA WayParts ==
    ASSUME NEW w \in Ways
    PROVE  /\ w[1] \in Users /\ w[2] \in Users /\ w = <<w[1], w[2]>> /\ w[1] # w[2]
           /\ {w[1], w[2]} \in Pairs /\ Range(w) = {w[1], w[2]}
<1>1. /\ w[1] \in Users /\ w[2] \in Users /\ w = <<w[1], w[2]>>
      /\ {w[1], w[2]} \in Pairs
  BY DEF Ways
<1>2. w[1] # w[2]
  <2> SUFFICES ASSUME w[1] = w[2] PROVE FALSE
    OBVIOUS
  <2>1. {w[1], w[2]} = {w[1]}
    OBVIOUS
  <2>2. Cardinality({w[1]}) = 1
    BY FS_Singleton
  <2>3. Cardinality({w[1], w[2]}) = 2
    BY <1>1, FilesAssumption
  <2> QED
    BY <2>1, <2>2, <2>3
<1>3. Range(w) = {w[1], w[2]}
  <2>1. DOMAIN w = {1, 2}
    BY DEF Ways
  <2> QED
    BY <2>1 DEF Range
<1> QED
  BY <1>1, <1>2, <1>3

LEMMA PairParts ==
    ASSUME NEW u \in Users, NEW v \in Users, <<u, v>> \in Ways
    PROVE  {u, v} \in Pairs /\ Range(<<u, v>>) = {u, v} /\ u # v /\ v \in Peers(u)
<1> DEFINE w == <<u, v>>
<1>1. w[1] = u /\ w[2] = v
  OBVIOUS
<1> QED
  BY <1>1, WayParts DEF Peers

LEMMA WayOf ==
    ASSUME NEW u \in Users, NEW v \in Peers(u)
    PROVE  <<u, v>> \in Ways /\ v \in Users /\ v # u
<1>1. <<u, v>> \in Ways /\ v \in Users
  BY DEF Ways, Peers
<1>2. <<u, v>>[1] # <<u, v>>[2]
  BY <1>1, WayParts
<1> QED
  BY <1>1, <1>2

LEMMA FileNames ==
    /\ \A f \in Files : Name[f] \in Names /\ Name[f] # NoFile
    /\ NoFile \notin Names
  BY FilesAssumption DEF Names, Range

LEMMA PartialParts ==
    ASSUME NEW f \in Files, NEW n \in Nat
    PROVE  /\ Partial(f, n) \in Received /\ Partial(f, n).name = Name[f]
           /\ Partial(f, n).data = [i \in 1..n |-> <<f, i>>]
           /\ Append(Partial(f, n).data, <<f, n + 1>>) = Partial(f, n + 1).data
           /\ Partial(f, 0).data = <<>>
<1> DEFINE d == [i \in 1..n |-> <<f, i>>]
           e == [i \in 1..n + 1 |-> <<f, i>>]
<1>1. \A i \in 1..n + 1 : <<f, i>> \in Pieces
  BY DEF Pieces
<1>2. d \in Seq(Pieces) /\ Len(d) = n /\ e \in Seq(Pieces) /\ Len(e) = n + 1
  BY <1>1
<1>3. Append(d, <<f, n + 1>>) = e
  <2> DEFINE a == Append(d, <<f, n + 1>>)
  <2>1. /\ a \in Seq(Pieces) /\ Len(a) = n + 1
        /\ \A i \in 1..n : a[i] = d[i]
        /\ a[n + 1] = <<f, n + 1>>
    BY <1>1, <1>2, AppendProperties
  <2>2. \A i \in 1..n + 1 : a[i] = e[i]
    BY <2>1
  <2> HIDE DEF a, e, d
  <2> QED
    BY <1>2, <2>1, <2>2, SeqEqual
<1>4. [i \in 1..0 |-> <<f, i>>] = <<>>
  OBVIOUS
<1> QED
  BY <1>2, <1>3, <1>4, FileNames DEF Partial, Received

LEMMA WholeIsPartial ==
    ASSUME NEW f \in Files
    PROVE  /\ Whole(f) = Partial(f, Size[f]) /\ Size[f] \in Nat
           /\ Whole(f) \in Content /\ Whole(f) \in Received /\ Whole(f).name \in Names
<1>1. Size[f] \in Nat
  BY FilesAssumption
<1>2. Whole(f) = Partial(f, Size[f])
  BY DEF Whole, Partial
<1>3. Whole(f) \in Content
  BY DEF Content
<1>4. Partial(f, Size[f]) \in Received /\ Partial(f, Size[f]).name \in Names
  BY <1>1, PartialParts, FileNames
<1> QED
  BY <1>1, <1>2, <1>3, <1>4

LEMMA NothingType == Nothing \in Received /\ Nothing.name = NoFile
  BY DEF Nothing, Received

(* The loop turns to one of those who are left, and to the first of its     *)
(* messages to him.                                                        *)
LEMMA TurnsTypes ==
    ASSUME NEW f \in Files, NEW left \in SUBSET Users, NEW t \in Turns(f, left)
    PROVE  /\ t \in [file : Files \cup {NoFile}, left : SUBSET Users, to : SUBSET Users,
                     next : Nat]
           /\ t.left \cup t.to \subseteq left /\ t.left \cap t.to = {} /\ t.next = 0
           /\ t.to = {} \/ \E v \in Users : t.to = {v}
           /\ t.file = NoFile => t = Idle
           /\ t.file # NoFile => t.file = f
<1>1. CASE left = {}
  BY <1>1 DEF Turns, Idle
<1>2. CASE left # {}
  <2>1. PICK v \in left : t = [file |-> f, left |-> left \ {v}, to |-> {v}, next |-> 0]
    BY <1>2 DEF Turns
  <2> QED
    BY <2>1, FilesAssumption
<1> QED
  BY <1>1, <1>2

(* A receiver that holds a stage holds the next one when it has read the    *)
(* message that leads there.                                               *)
LEMMA ReadLeads ==
    ASSUME NEW s \in Stage, NEW t \in Stage, NEW m \in Messages, NEW file,
           Holds(file, s), Leads(s, m, t)
    PROVE  /\ m.is = "head" => Holds(Started(file, m.file), t)
           /\ m.is = "chunk" => Holds(Extended(file, m.data), t)
           /\ m.is = "end" => /\ Holds(Nothing, t) /\ Ends(file) /\ s.file \in Files
                              /\ file = Whole(s.file)
<1>1. CASE m.is = "head"
  <2>1. t.file = m.file /\ t.next = 0 /\ m.file \in Files
    BY <1>1 DEF Leads, Messages
  <2>2. Partial(m.file, 0) = [name |-> Name[m.file], data |-> <<>>]
    BY DEF Partial
  <2> QED
    BY <1>1, <2>1, <2>2, FilesAssumption DEF Holds, Started
<1>2. CASE m.is = "chunk"
  <2>1. /\ s.file # NoFile /\ m.data = <<s.file, s.next + 1>>
        /\ t.file = s.file /\ t.next = s.next + 1
    BY <1>2 DEF Leads, Stage
  <2>2. s.file \in Files /\ s.next \in Nat
    BY <2>1 DEF Stage
  <2>3. file = Partial(s.file, s.next) /\ file.name # NoFile
    BY <2>1, <2>2, PartialParts, FileNames DEF Holds
  <2>4. Extended(file, m.data) = Partial(s.file, s.next + 1)
    <3>1. Append(file.data, m.data) = Partial(s.file, s.next + 1).data
      <4>1. file.data = Partial(s.file, s.next).data /\ m.data = <<s.file, s.next + 1>>
        BY <2>1, <2>3
      <4>2. Append(Partial(s.file, s.next).data, <<s.file, s.next + 1>>)
              = Partial(s.file, s.next + 1).data
        BY <2>2, PartialParts
      <4> QED
        BY <4>1, <4>2
    <3>2. \A x : [file EXCEPT !.data = x] = [name |-> Name[s.file], data |-> x]
      BY <2>3 DEF Partial
    <3>3. [file EXCEPT !.data = Append(@, m.data)] = Partial(s.file, s.next + 1)
      BY <3>1, <3>2 DEF Partial
    <3> QED
      BY <2>3, <3>3 DEF Extended
  <2> QED
    BY <1>2, <2>1, <2>4 DEF Holds
<1>3. CASE m.is = "end"
  <2>1. /\ s.file # NoFile /\ s.next = Size[s.file]
        /\ t.file = NoFile
    BY <1>3 DEF Leads
  <2>2. s.file \in Files
    BY <2>1 DEF Stage
  <2>3. file = Whole(s.file)
    BY <2>1, <2>2, WholeIsPartial DEF Holds
  <2>4. Ends(file)
    BY <2>2, <2>3, FileNames DEF Ends, Whole
  <2>5. Holds(Nothing, t)
    BY <2>1 DEF Holds
  <2> QED
    BY <1>3, <2>2, <2>3, <2>4, <2>5
<1> QED
  BY <1>1, <1>2, <1>3

-----------------------------------------------------------------------------
(* What keeps a way carried. *)

LEMMA SoundKept ==
    ASSUME Typed, NEW u \in Users,
           offered'[u] = offered[u] \/ \E file \in Content : offered'[u] = Append(offered[u], file)
    PROVE  /\ \A s \in Stage : Sound(u, s) => Sound(u, s)'
           /\ Len(offered'[u]) >= Len(offered[u])
<1>1. offered[u] \in Seq(Content)
  BY DEF Typed
<1>2. CASE \E file \in Content : offered'[u] = Append(offered[u], file)
  <2>1. PICK file \in Content : offered'[u] = Append(offered[u], file)
    BY <1>2
  <2>2. /\ Len(offered'[u]) = Len(offered[u]) + 1 /\ Len(offered[u]) \in Nat
        /\ \A i \in 1..Len(offered[u]) : offered'[u][i] = offered[u][i]
    BY <1>1, <2>1, AppendProperties
  <2> QED
    BY <2>2 DEF Sound, Stage
<1>3. CASE offered'[u] = offered[u]
  <2>1. Len(offered[u]) \in Nat
    BY <1>1
  <2> QED
    BY <1>3, <2>1 DEF Sound
<1> QED
  BY <1>2, <1>3

(* Nothing happens to what is under way, and the sender goes on. *)
LEMMA CarriesKept ==
    ASSUME NEW u \in Users, NEW v \in Users, NEW st, Carries(u, v, st),
           wire'[<<u, v>>] = wire[<<u, v>>], inFlight'[<<u, v>>] = inFlight[<<u, v>>],
           place'[u][v] = place[u][v],
           \A s \in Stage : Sound(u, s) => Sound(u, s)',
           Continues(u, v, st[Len(st)])'
    PROVE  Carries(u, v, st)'
<1> DEFINE q == wire[<<u, v>>]
<1>1. /\ st \in Seq(Stage) /\ Len(st) = Len(q) + 1
      /\ Holds(inFlight[<<u, v>>], st[1])
      /\ place[u][v] <= st[1].nth
      /\ st[1].file # NoFile => place[u][v] < st[1].nth
      /\ \A k \in 1..Len(q) : Leads(st[k], q[k], st[k + 1])
      /\ \A k \in 1..Len(st) : Sound(u, st[k]) /\ st[k].nth <= st[Len(st)].nth
  BY DEF Carries
<1>2. q' = q
  OBVIOUS
<1>3. \A k \in 1..Len(st) : st[k] \in Stage
  BY <1>1
<1>4. \A k \in 1..Len(st) : Sound(u, st[k])'
  BY <1>1, <1>3
<1> QED
  BY <1>1, <1>2, <1>4 DEF Carries

(* The same, when the sender has done nothing either. *)
LEMMA CarriedKept ==
    ASSUME Carried, NEW u \in Users, NEW v \in Users, <<u, v>> \in Ways,
           wire'[<<u, v>>] = wire[<<u, v>>], inFlight'[<<u, v>>] = inFlight[<<u, v>>],
           place'[u][v] = place[u][v],
           offered'[u] = offered[u], sending'[u] = sending[u],
           channel'[{u, v}] = channel[{u, v}] \/ channel'[{u, v}] # "open"
    PROVE  \E st \in Seq(Stage) : Carries(u, v, st)'
<1>1. PICK st \in Seq(Stage) : Carries(u, v, st)
  BY DEF Carried
<1>2. Continues(u, v, st[Len(st)])'
  BY <1>1 DEF Carries, Continues
<1>3. \A s \in Stage : Sound(u, s) => Sound(u, s)'
  BY DEF Sound
<1>4. Carries(u, v, st)'
  BY <1>1, <1>2, <1>3, CarriesKept
<1> QED
  BY <1>4

(* Nothing is under way: the receiver is at the one stage s. *)
LEMMA CarriesNothing ==
    ASSUME NEW u \in Users, NEW v \in Users, NEW s \in Stage,
           wire'[<<u, v>>] = <<>>, Holds(inFlight'[<<u, v>>], s),
           place'[u][v] <= s.nth, s.file # NoFile => place'[u][v] < s.nth,
           Sound(u, s)', Continues(u, v, s)'
    PROVE  \E st \in Seq(Stage) : Carries(u, v, st)'
<1> DEFINE st == <<s>>
<1>1. st \in Seq(Stage) /\ Len(st) = 1 /\ st[1] = s /\ s.nth \in Nat
  BY DEF Stage
<1> HIDE DEF st
<1>2. Len(wire'[<<u, v>>]) = 0
  OBVIOUS
<1>3. Carries(u, v, st)'
  BY <1>1, <1>2 DEF Carries
<1> QED
  BY <1>1, <1>3

-----------------------------------------------------------------------------
(* Every step keeps what is carried: the call. *)

LEMMA OpenCarries ==
    ASSUME IInv, NEW p \in Pairs, Open(p)
    PROVE  Carried'
<1> USE DEF IInv
<1>1. ASSUME NEW u \in Users, NEW v \in Users, <<u, v>> \in Ways
      PROVE  \E st \in Seq(Stage) : Carries(u, v, st)'
  <2>1. {u, v} \in Pairs /\ Range(<<u, v>>) = {u, v}
    BY <1>1, PairParts
  <2>2. CASE {u, v} = p
    <3>1. wire'[<<u, v>>] = <<>> /\ inFlight'[<<u, v>>] = Nothing /\ place' = place
      BY <1>1, <2>1, <2>2 DEF Open, history
    <3>2. place[u][v] \in Nat /\ offered[u] \in Seq(Content)
      BY DEF Typed
    <3>3. PICK s \in Stage : s.nth = place[u][v] /\ s.file = NoFile
      <4>1. [file |-> NoFile, next |-> 0, nth |-> place[u][v]] \in Stage
        BY <3>2 DEF Stage
      <4> QED
        BY <4>1
    <3>4. place[u][v] <= Len(offered[u])
      <4>1. PICK st \in Seq(Stage) : Carries(u, v, st)
        BY <1>1 DEF Carried
      <4>2. 1 \in 1..Len(st)
        BY <1>1, <4>1 DEF Carries, Typed
      <4>3. st[1] \in Stage /\ st[1].nth <= Len(offered[u]) /\ place[u][v] <= st[1].nth
        BY <4>1, <4>2 DEF Carries, Sound
      <4>4. st[1].nth \in Nat /\ Len(offered[u]) \in Nat
        BY <3>2, <4>3 DEF Stage
      <4> QED
        BY <3>2, <4>3, <4>4
    <3>5. offered' = offered /\ sending' = sending /\ sending[u] = Idle
      BY <2>1, <2>2 DEF Open, history
    <3>6. Continues(u, v, s)'
      BY <3>5 DEF Continues, Idle
    <3>7. Sound(u, s)'
      BY <3>3, <3>4, <3>5 DEF Sound
    <3>8. Holds(inFlight'[<<u, v>>], s)
      BY <3>1, <3>3 DEF Holds
    <3>9. place'[u][v] <= s.nth
      BY <3>1, <3>2, <3>3
    <3> QED
      BY <3>1, <3>3, <3>6, <3>7, <3>8, <3>9, CarriesNothing
  <2>3. CASE {u, v} # p
    <3>1. /\ wire'[<<u, v>>] = wire[<<u, v>>] /\ inFlight'[<<u, v>>] = inFlight[<<u, v>>]
          /\ UNCHANGED <<sending, place, offered>>
      BY <1>1, <2>1, <2>3 DEF Open, history
    <3>2. channel'[{u, v}] = channel[{u, v}]
      BY <2>1, <2>3 DEF Open, Typed
    <3> QED
      BY <1>1, <3>1, <3>2, CarriedKept
  <2> QED
    BY <2>2, <2>3
<1> QED
  BY <1>1 DEF Carried

LEMMA BreakCarries ==
    ASSUME IInv, NEW p \in Pairs, Break(p)
    PROVE  Carried'
<1> USE DEF IInv
<1>1. ASSUME NEW u \in Users, NEW v \in Users, <<u, v>> \in Ways
      PROVE  \E st \in Seq(Stage) : Carries(u, v, st)'
  <2>1. {u, v} \in Pairs /\ Range(<<u, v>>) = {u, v}
    BY <1>1, PairParts
  <2>2. CASE {u, v} = p
    <3>1. /\ wire'[<<u, v>>] = <<>> /\ UNCHANGED <<inFlight, place, offered, sending>>
          /\ channel'[{u, v}] # "open"
      BY <1>1, <2>1, <2>2 DEF Break, Typed
    <3>2. PICK st \in Seq(Stage) : Carries(u, v, st)
      BY <1>1 DEF Carried
    <3>3. 1 \in 1..Len(st) /\ Len(st) \in 1..Len(st)
      BY <1>1, <3>2 DEF Carries, Typed
    <3>4. PICK s \in Stage : s = st[1]
      BY <3>3
    <3>5. PICK t \in Stage : t = st[Len(st)]
      BY <3>3
    <3>6. s.nth \in Nat /\ t.nth \in Nat /\ Len(offered[u]) \in Nat
      <4>1. offered[u] \in Seq(Content)
        BY DEF Typed
      <4> QED
        BY <4>1 DEF Stage
    <3>7. /\ Holds(inFlight[<<u, v>>], s) /\ Sound(u, s) /\ s.nth <= t.nth
          /\ place[u][v] <= s.nth
          /\ s.file # NoFile => place[u][v] < s.nth
          /\ Continues(u, v, t)
      BY <3>2, <3>3, <3>4, <3>5 DEF Carries
    <3>8. Continues(u, v, s)'
      BY <3>1, <3>6, <3>7 DEF Continues
    <3>9. Sound(u, s)'
      BY <3>1, <3>7 DEF Sound
    <3>10. /\ Holds(inFlight'[<<u, v>>], s)
           /\ place'[u][v] <= s.nth
           /\ s.file # NoFile => place'[u][v] < s.nth
      BY <3>1, <3>7
    <3> QED
      BY <3>1, <3>8, <3>9, <3>10, CarriesNothing
  <2>3. CASE {u, v} # p
    <3>1. /\ wire'[<<u, v>>] = wire[<<u, v>>] /\ inFlight'[<<u, v>>] = inFlight[<<u, v>>]
          /\ UNCHANGED <<sending, place, offered>>
      BY <1>1, <2>1, <2>3 DEF Break
    <3>2. channel'[{u, v}] = channel[{u, v}]
      BY <2>1, <2>3 DEF Break, Typed
    <3> QED
      BY <1>1, <3>1, <3>2, CarriedKept
  <2> QED
    BY <2>2, <2>3
<1> QED
  BY <1>1 DEF Carried

-----------------------------------------------------------------------------
(* Sharing and sending. *)

LEMMA ShareCarries ==
    ASSUME IInv, NEW x \in Users, NEW f \in Files, Share(x, f)
    PROVE  Carried'
<1> USE DEF IInv
<1>1. /\ UNCHANGED <<channel, wire, inFlight, place>>
      /\ offered'[x] = Append(offered[x], Whole(f))
      /\ \A u \in Users \ {x} : offered'[u] = offered[u] /\ sending'[u] = sending[u]
  BY DEF Share, Typed
<1>2. offered[x] \in Seq(Content) /\ Whole(f) \in Content
  BY WholeIsPartial DEF Typed
<1>3. /\ Len(offered'[x]) = Len(offered[x]) + 1 /\ Len(offered[x]) \in Nat
  BY <1>1, <1>2, AppendProperties
<1>4. sending'[x].next = 0
  <2>1. PICK t \in Turns(f, Peers(x)) : sending' = [sending EXCEPT ![x] = t]
    BY DEF Share
  <2>2. t.next = 0
    <3>1. Peers(x) \in SUBSET Users
      BY DEF Peers
    <3> QED
      BY <2>1, <3>1, TurnsTypes
  <2> QED
    BY <2>1, <2>2 DEF Typed
<1>5. ASSUME NEW u \in Users, NEW v \in Users, <<u, v>> \in Ways
      PROVE  \E st \in Seq(Stage) : Carries(u, v, st)'
  <2>1. CASE u # x
    BY <1>1, <1>5, <2>1, CarriedKept
  <2>2. CASE u = x
    <3>1. PICK st \in Seq(Stage) : Carries(u, v, st)
      BY <1>5 DEF Carried
    <3>2. PICK t \in Stage : t = st[Len(st)] /\ Sound(u, t)
      <4>1. Len(st) \in 1..Len(st)
        BY <1>5, <3>1 DEF Carries, Typed
      <4>2. Sound(u, st[Len(st)])
        BY <3>1, <4>1 DEF Carries
      <4>3. st[Len(st)] \in Stage
        BY <4>1
      <4> QED
        BY <4>2, <4>3
    <3>3. t.nth < Len(offered'[u])
      BY <1>3, <2>2, <3>2 DEF Sound, Stage
    <3>4. Continues(u, v, t)'
      BY <1>4, <2>2, <3>3 DEF Continues
    <3>5. \A s \in Stage : Sound(u, s) => Sound(u, s)'
      BY <1>1, <1>2, <2>2, SoundKept
    <3>6. Carries(u, v, st)'
      BY <1>1, <3>1, <3>2, <3>4, <3>5, CarriesKept
    <3> QED
      BY <3>6
  <2> QED
    BY <2>1, <2>2
<1> QED
  BY <1>5 DEF Carried

(* A user who is sending to y. *)
LEMMA Sender ==
    ASSUME IInv, NEW x \in Users, NEW y \in sending[x].to
    PROVE  /\ sending[x].file \in Files /\ sending[x].next \in Nat
           /\ sending[x].left \in SUBSET Users
           /\ sending[x].to = {y} /\ y \in Peers(x) /\ y \notin sending[x].left
           /\ Size[sending[x].file] \in Nat /\ sending[x].next <= Size[sending[x].file] + 1
           /\ Len(offered[x]) \in Nat \ {0}
           /\ offered[x][Len(offered[x])] = Whole(sending[x].file)
<1>1. Typed /\ Busy(x)
  BY DEF IInv
<1>2. /\ sending[x].file \in Files \cup {NoFile} /\ sending[x].next \in Nat
      /\ sending[x].left \in SUBSET Users
  BY <1>1 DEF Typed
<1>3. sending[x] # Idle
  BY DEF Idle
<1>4. sending[x].file \in Files
  BY <1>1, <1>2, <1>3 DEF Busy
<1>5. sending[x].to = {y} /\ y \in Peers(x) /\ y \notin sending[x].left
  BY <1>1 DEF Busy
<1>6. Len(offered[x]) \in Nat
  <2>1. offered[x] \in Seq(Content)
    BY <1>1 DEF Typed
  <2> QED
    BY <2>1
<1>7. Size[sending[x].file] \in Nat /\ sending[x].file # NoFile
  BY <1>4, FilesAssumption
<1>8. /\ Len(offered[x]) > 0 /\ offered[x][Len(offered[x])] = Whole(sending[x].file)
      /\ sending[x].next <= Size[sending[x].file] + 1
  BY <1>1, <1>7 DEF Busy
<1> QED
  BY <1>2, <1>4, <1>5, <1>6, <1>7, <1>8

(* When the sender turns to the next peer, those who are left wait.         *)
LEMMA TurnContinues ==
    ASSUME IInv, NEW x \in Users, sending[x].to # {},
           NEW t \in Turns(sending[x].file, sending[x].left),
           sending' = [sending EXCEPT ![x] = t], UNCHANGED offered,
           NEW v \in Users, v \notin sending[x].to, NEW s, Continues(x, v, s)
    PROVE  Continues(x, v, s)'
<1>1. sending[x].file \in Files /\ sending[x].left \in SUBSET Users /\ sending'[x] = t
  <2>1. sending'[x] = t
    BY DEF IInv, Typed
  <2> QED
    BY <2>1, Sender
<1>2. t.left \cup t.to \subseteq sending[x].left /\ t.next = 0
  BY <1>1, TurnsTypes
<1> QED
  BY <1>1, <1>2 DEF Continues

(* After the last message to v nothing more is owed to him. *)
LEMMA TurnDone ==
    ASSUME IInv, NEW x \in Users,
           NEW t \in Turns(sending[x].file, sending[x].left),
           sending' = [sending EXCEPT ![x] = t],
           NEW v \in sending[x].to, NEW s
    PROVE  Continues(x, v, s)'
<1>1. /\ sending[x].file \in Files /\ sending[x].left \in SUBSET Users /\ sending'[x] = t
      /\ v \notin sending[x].left
  <2>1. sending'[x] = t
    BY DEF IInv, Typed
  <2> QED
    BY <2>1, Sender
<1>2. t.left \cup t.to \subseteq sending[x].left
  BY <1>1, TurnsTypes
<1> QED
  BY <1>1, <1>2 DEF Continues

(* A message that leads on from the last stage is put on the wire.          *)
LEMMA CarriesMore ==
    ASSUME NEW u \in Users, NEW v \in Users, NEW st \in Seq(Stage), Carries(u, v, st),
           wire[<<u, v>>] \in Seq(Messages), NEW m \in Messages, NEW t \in Stage,
           wire'[<<u, v>>] = Append(wire[<<u, v>>], m), UNCHANGED <<inFlight, place, offered>>,
           Leads(st[Len(st)], m, t), st[Len(st)].nth <= t.nth, Sound(u, t),
           Continues(u, v, t)'
    PROVE  \E new \in Seq(Stage) : Carries(u, v, new)'
<1> DEFINE q == wire[<<u, v>>]
           n == Len(st)
           new == Append(st, t)
<1> HIDE DEF q, n, new
<1>0. /\ n = Len(q) + 1 /\ n \in Nat /\ Len(q) \in Nat /\ n \in 1..n /\ 1 \in 1..n
      /\ DOMAIN st = 1..n
  <2>1. Len(st) = Len(q) + 1
    BY DEF Carries, q
  <2>2. Len(q) \in Nat
    BY DEF q
  <2> QED
    BY <2>1, <2>2 DEF n
<1>1. /\ Holds(inFlight[<<u, v>>], st[1])
      /\ place[u][v] <= st[1].nth
      /\ st[1].file # NoFile => place[u][v] < st[1].nth
      /\ \A k \in 1..Len(q) : Leads(st[k], q[k], st[k + 1])
      /\ \A k \in 1..n : Sound(u, st[k]) /\ st[k].nth <= st[n].nth
  BY DEF Carries, q, n
<1>2. /\ new \in Seq(Stage) /\ Len(new) = n + 1
      /\ \A k \in 1..n : new[k] = st[k]
      /\ new[n + 1] = t /\ new[1] = st[1]
  BY <1>0, AppendProperties DEF new, n
<1>3. /\ Len(q') = n
      /\ \A k \in 1..Len(q) : q'[k] = q[k]
      /\ q'[n] = m
  BY <1>0, AppendProperties DEF q
<1>4. \A k \in 1..n : st[k].nth \in Nat
  <2>1. \A k \in 1..n : st[k] \in Stage
    BY <1>0
  <2> QED
    BY <2>1 DEF Stage
<1>5. t.nth \in Nat
  BY DEF Stage
<1>6. ASSUME NEW k \in 1..Len(q')
      PROVE  Leads(new[k], q'[k], new[k + 1])
  <2>1. CASE k = n
    BY <1>0, <1>1, <1>2, <1>3, <2>1 DEF n
  <2>2. CASE k # n
    <3>1. k \in 1..Len(q) /\ k + 1 \in 1..n /\ k \in 1..n
      BY <1>0, <1>3, <1>6, <2>2
    <3> QED
      BY <1>0, <1>1, <1>2, <1>3, <3>1
  <2> QED
    BY <2>1, <2>2
<1>7. ASSUME NEW k \in 1..Len(new)
      PROVE  Sound(u, new[k]) /\ new[k].nth <= t.nth
  <2>1. CASE k = n + 1
    BY <1>2, <1>5, <2>1
  <2>2. CASE k # n + 1
    <3>1. k \in 1..n /\ n \in 1..n
      BY <1>0, <1>2, <1>7, <2>2
    <3>2. st[k].nth <= st[n].nth /\ st[n].nth <= t.nth /\ Sound(u, st[k]) /\ new[k] = st[k]
      BY <1>1, <1>2, <3>1 DEF n
    <3>3. st[k].nth \in Nat /\ st[n].nth \in Nat
      BY <1>4, <3>1
    <3> QED
      BY <1>5, <3>2, <3>3
  <2> QED
    BY <2>1, <2>2
<1>8. \A k \in 1..Len(new) : Sound(u, new[k])'
  BY <1>7 DEF Sound
<1>9. Carries(u, v, new)'
  BY <1>0, <1>1, <1>2, <1>3, <1>6, <1>7, <1>8 DEF Carries, q
<1> QED
  BY <1>2, <1>9

(* What Send puts on the wire leads on from where the sender left off. *)
LEMMA SendLeads ==
    ASSUME IInv, NEW x \in Users, NEW v \in sending[x].to,
           channel[{x, v}] = "open",
           NEW s \in Stage, Continues(x, v, s), Sound(x, s)
    PROVE  LET f == sending[x].file  n == sending[x].next  m == Message(f, n) IN
           /\ f \in Files /\ n \in Nat /\ m \in Messages
           /\ \E t \in Stage :
                 /\ Leads(s, m, t) /\ s.nth <= t.nth /\ Sound(x, t)
                 /\ ~IsLast(f, n) =>
                       t = [file |-> f, next |-> n, nth |-> Len(offered[x])]
<1> DEFINE f == sending[x].file
           n == sending[x].next
           m == Message(f, n)
           top == Len(offered[x])
<1>1. f \in Files /\ n \in Nat /\ Size[f] \in Nat /\ n <= Size[f] + 1
  BY Sender
<1>2. top \in Nat /\ top > 0 /\ offered[x][top] = Whole(f)
  BY Sender
<1>3. /\ n = 0 => s.nth < top
      /\ n > 0 => s = [file |-> f, next |-> n - 1, nth |-> top]
  BY DEF Continues
<1>4. s.nth \in Nat
  BY DEF Stage
<1> HIDE DEF f, n, top
<1>5. CASE n = 0
  <2> DEFINE t == [file |-> f, next |-> 0, nth |-> top]
  <2>1. m = [is |-> "head", file |-> f] /\ m \in Messages
    BY <1>1, <1>5 DEF Message, Messages
  <2>2. t \in Stage /\ t.file = f /\ t.next = 0 /\ t.nth = top
    BY <1>1, <1>2 DEF Stage
  <2> HIDE DEF m
  <2>3. Leads(s, m, t) /\ s.nth <= t.nth
    BY <1>2, <1>3, <1>4, <1>5, <2>1, <2>2 DEF Leads
  <2>4. Sound(x, t)
    BY <1>2, <2>2 DEF Sound, top
  <2>5. t = [file |-> f, next |-> n, nth |-> top]
    BY <1>5
  <2> HIDE DEF t
  <2> QED
    BY <1>1, <2>1, <2>2, <2>3, <2>4, <2>5 DEF f, n, m, top
<1>6. CASE n > 0 /\ n <= Size[f]
  <2> DEFINE t == [file |-> f, next |-> n, nth |-> top]
  <2>1. m = [is |-> "chunk", data |-> <<f, n>>] /\ m \in Messages
    BY <1>1, <1>6 DEF Message, Messages
  <2>2. t \in Stage /\ t.file = f /\ t.next = n /\ t.nth = top
    BY <1>1, <1>2 DEF Stage
  <2>3. s.file = f /\ s.next = n - 1 /\ s.nth = top /\ s.next + 1 = n /\ f # NoFile
    BY <1>1, <1>3, <1>6, FilesAssumption
  <2>4. [s EXCEPT !.next = @ + 1] = t
    BY <1>3, <1>6, <2>3
  <2> HIDE DEF m
  <2>5. Leads(s, m, t) /\ s.nth <= t.nth
    BY <1>2, <2>1, <2>2, <2>3, <2>4 DEF Leads
  <2>6. Sound(x, t)
    BY <1>2, <2>2 DEF Sound, top
  <2> HIDE DEF t
  <2> QED
    BY <1>1, <2>1, <2>2, <2>5, <2>6 DEF f, n, m, top, t
<1>7. CASE n > Size[f]
  <2> DEFINE t == [file |-> NoFile, next |-> 0, nth |-> top]
  <2>1. m = [is |-> "end"] /\ m \in Messages /\ n > 0 /\ n - 1 = Size[f]
    BY <1>1, <1>7 DEF Message, Messages
  <2>2. t \in Stage /\ t.file = NoFile /\ t.nth = top
    BY <1>1, <1>2 DEF Stage
  <2>3. s.file = f /\ s.next = Size[f] /\ s.nth = top /\ f # NoFile
    BY <1>1, <1>3, <2>1, FilesAssumption
  <2> HIDE DEF m
  <2>4. Leads(s, m, t) /\ s.nth <= t.nth
    BY <1>2, <2>1, <2>3, <2>2 DEF Leads
  <2>5. Sound(x, t)
    BY <1>2, <2>2 DEF Sound, top
  <2>6. IsLast(f, n)
    BY <1>7 DEF IsLast
  <2> HIDE DEF t
  <2> QED
    BY <1>1, <2>1, <2>2, <2>4, <2>5, <2>6 DEF f, n, m, top
<1> QED
  BY <1>1, <1>5, <1>6, <1>7

LEMMA SendCarries ==
    ASSUME IInv, NEW x \in Users, Send(x)
    PROVE  Carried'
<1> USE DEF IInv
<1> DEFINE s == sending[x]
<1>1. PICK y \in s.to :
         /\ channel[{x, y}] = "open"
         /\ wire' = [wire EXCEPT ![<<x, y>>] = Append(@, Message(s.file, s.next))]
         /\ \/ /\ IsLast(s.file, s.next)
               /\ \E t \in Turns(s.file, s.left) : sending' = [sending EXCEPT ![x] = t]
            \/ /\ ~IsLast(s.file, s.next)
               /\ sending' = [sending EXCEPT ![x].next = @ + 1]
  BY DEF Send
<1>2. UNCHANGED <<channel, inFlight, offered, place>>
  BY DEF Send
<1>3. y \in Peers(x) /\ s.to = {y} /\ s.left \cap s.to = {} /\ s.next \in Nat
  BY <1>1, Sender
<1>4. <<x, y>> \in Ways /\ y \in Users
  BY <1>3, WayOf
<1>5. /\ wire'[<<x, y>>] = Append(wire[<<x, y>>], Message(s.file, s.next))
      /\ \A w \in Ways : w # <<x, y>> => wire'[w] = wire[w]
      /\ wire[<<x, y>>] \in Seq(Messages)
  BY <1>1, <1>4 DEF Typed
<1>6. \A z : \A t \in Stage : Sound(z, t) => Sound(z, t)'
  BY <1>2 DEF Sound
<1>7. \A u \in Users \ {x} : sending'[u] = sending[u]
  BY <1>1 DEF Typed
<1>8. ~IsLast(s.file, s.next) => sending'[x] = [sending[x] EXCEPT !.next = @ + 1]
  BY <1>1 DEF Typed
<1>9. ASSUME NEW u \in Users, NEW v \in Users, <<u, v>> \in Ways
      PROVE  \E st \in Seq(Stage) : Carries(u, v, st)'
  <2>1. PICK st \in Seq(Stage) : Carries(u, v, st)
    BY <1>9 DEF Carried
  <2>2. PICK c \in Stage : c = st[Len(st)] /\ Sound(u, c) /\ Continues(u, v, c)
    <3>1. Len(st) \in 1..Len(st)
      BY <1>9, <2>1 DEF Carries, Typed
    <3> QED
      BY <2>1, <3>1 DEF Carries
  <2>3. CASE u # x
    <3>1. <<u, v>> # <<x, y>>
      BY <2>3
    <3> QED
      BY <1>2, <1>5, <1>7, <1>9, <2>3, <3>1, CarriedKept
  <2>4. CASE u = x /\ v # y
    <3>1. wire'[<<u, v>>] = wire[<<u, v>>]
      BY <1>5, <1>9, <2>4
    <3>2. Continues(u, v, c)'
      <4>1. CASE IsLast(s.file, s.next)
        BY <1>1, <1>2, <1>3, <2>2, <2>4, <4>1, TurnContinues
      <4>2. CASE ~IsLast(s.file, s.next)
        <5>1. sending'[x].left = sending[x].left /\ sending'[x].to = sending[x].to
          BY <1>8, <4>2 DEF Typed
        <5> QED
          BY <1>2, <1>3, <2>2, <2>4, <5>1 DEF Continues
      <4> QED
        BY <4>1, <4>2
    <3>3. Carries(u, v, st)'
      BY <1>2, <1>6, <2>1, <2>2, <3>1, <3>2, CarriesKept
    <3> QED
      BY <3>3
  <2>5. CASE u = x /\ v = y
    <3> DEFINE m == Message(s.file, s.next)
    <3>1. PICK t \in Stage :
             /\ m \in Messages /\ s.file \in Files
             /\ Leads(c, m, t) /\ c.nth <= t.nth /\ Sound(x, t)
             /\ ~IsLast(s.file, s.next) =>
                    t = [file |-> s.file, next |-> s.next, nth |-> Len(offered[x])]
      BY <1>1, <2>2, <2>5, SendLeads
    <3>2. Continues(u, v, t)'
      <4>1. CASE IsLast(s.file, s.next)
        BY <1>1, <2>5, <4>1, TurnDone
      <4>2. CASE ~IsLast(s.file, s.next)
        <5>1. /\ sending'[x].left = sending[x].left /\ sending'[x].to = sending[x].to
              /\ sending'[x].next = sending[x].next + 1 /\ sending'[x].file = sending[x].file
          BY <1>8, <4>2 DEF Typed
        <5>2. v \notin sending'[x].left /\ sending'[x].next # 0
          BY <1>3, <2>5, <5>1
        <5>3. sending'[x].next - 1 = sending[x].next
          BY <1>3, <5>1
        <5>4. t = [file |-> sending'[x].file, next |-> sending'[x].next - 1,
                   nth |-> Len(offered'[x])]
          BY <1>2, <3>1, <4>2, <5>1, <5>3
        <5> QED
          BY <2>5, <5>2, <5>4 DEF Continues
      <4> QED
        BY <4>1, <4>2
    <3> HIDE DEF m
    <3>3. wire'[<<u, v>>] = Append(wire[<<u, v>>], m)
      BY <1>5, <2>5 DEF m
    <3> QED
      BY <1>2, <1>5, <2>1, <2>2, <2>5, <3>1, <3>2, <3>3, CarriesMore
  <2> QED
    BY <2>3, <2>4, <2>5
<1> QED
  BY <1>9 DEF Carried

LEMMA SendFailsCarries ==
    ASSUME IInv, NEW x \in Users, SendFails(x)
    PROVE  Carried'
<1> USE DEF IInv
<1>1. PICK y \in sending[x].to, t \in Turns(sending[x].file, sending[x].left) :
         sending' = [sending EXCEPT ![x] = t]
  BY DEF SendFails
<1>2. UNCHANGED <<channel, wire, inFlight, offered, place>>
  BY DEF SendFails, history
<1>3. \A z : \A c \in Stage : Sound(z, c) => Sound(z, c)'
  BY <1>2 DEF Sound
<1>4. ASSUME NEW u \in Users, NEW v \in Users, <<u, v>> \in Ways
      PROVE  \E st \in Seq(Stage) : Carries(u, v, st)'
  <2>1. CASE u # x
    <3>1. sending'[u] = sending[u]
      BY <1>1, <2>1
    <3> QED
      BY <1>2, <1>4, <3>1, CarriedKept
  <2>2. CASE u = x
    <3>1. PICK st \in Seq(Stage) : Carries(u, v, st)
      BY <1>4 DEF Carried
    <3>2. Continues(u, v, st[Len(st)])
      BY <3>1 DEF Carries
    <3>3. Continues(u, v, st[Len(st)])'
      <4>1. CASE v = y
        BY <1>1, <2>2, <4>1, TurnDone
      <4>2. CASE v # y
        <5>1. v \notin sending[x].to /\ sending[x].to # {}
          BY <4>2, Sender
        <5> QED
          BY <1>1, <1>2, <2>2, <3>2, <5>1, TurnContinues
      <4> QED
        BY <4>1, <4>2
    <3>4. Carries(u, v, st)'
      BY <1>2, <1>3, <3>1, <3>3, CarriesKept
    <3> QED
      BY <3>4
  <2> QED
    BY <2>1, <2>2
<1> QED
  BY <1>4 DEF Carried

-----------------------------------------------------------------------------
(* Receiving. *)

(* The offer a file came with is the one its receiver is given it for. *)
LEMMA OfferFound ==
    ASSUME Offers, NEW u \in Users, NEW file, offered[u] \in Seq(Content),
           NEW i \in 1..Len(offered[u]), offered[u][i] = file
    PROVE  OfferOf(u, file) = i
<1> DEFINE S == {j \in 1..Len(offered[u]) : offered[u][j] = file} \cup {0}
<1>1. Len(offered[u]) \in Nat /\ DOMAIN offered[u] = 1..Len(offered[u])
  OBVIOUS
<1>2. S = {i, 0}
  BY <1>1 DEF Offers
<1>3. Max({i, 0}) = i
  <2>1. i \in {i, 0} /\ \A y \in {i, 0} : i >= y
    BY <1>1
  <2>2. \A z \in {i, 0} : (\A y \in {i, 0} : z >= y) => z = i
    BY <1>1
  <2> QED
    BY <2>1, <2>2 DEF Max
<1> QED
  BY <1>2, <1>3 DEF OfferOf

(* The receiver v is given the ith offer of u, which is what is in flight.  *)
Given(u, v, i) ==
    LET new == [from |-> u, file |-> offered[u][i]] IN
    /\ inFlight[<<u, v>>] = offered[u][i] /\ offered[u][i].name \in Names
    /\ i \in 1..Len(offered[u]) /\ i > place[u][v]
    /\ place' = [place EXCEPT ![u][v] = i]
    /\ arrived' = [arrived EXCEPT ![v] = Append(@, new)]
    /\ given' = [given EXCEPT ![v] = Append(@, new)]

(* What Read does, in terms of the stages: the receiver goes on to the next *)
(* one, and at the end of a file is given the offer it belongs to.         *)
LEMMA ReadStage ==
    ASSUME IInv, NEW u \in Users, NEW v \in Users, <<u, v>> \in Ways, Read(u, v),
           NEW st \in Seq(Stage), Carries(u, v, st)
    PROVE  /\ Head(wire[<<u, v>>]) \in Messages /\ st[1] \in Stage /\ st[2] \in Stage
           /\ Leads(st[1], Head(wire[<<u, v>>]), st[2])
           /\ Holds(inFlight'[<<u, v>>], st[2])
           /\ Head(wire[<<u, v>>]).is # "end" => UNCHANGED <<arrived, given, place>>
           /\ Head(wire[<<u, v>>]).is = "end" => Given(u, v, st[1].nth)
<1> USE DEF IInv
<1> DEFINE i == st[1].nth
           m == Head(wire[<<u, v>>])
           file == inFlight[<<u, v>>]
<1>1. wire[<<u, v>>] \in Seq(Messages) /\ wire[<<u, v>>] # <<>>
  BY DEF Read, Typed
<1>2. /\ m \in Messages /\ Len(wire[<<u, v>>]) \in Nat \ {0} /\ wire[<<u, v>>][1] = m
      /\ 1 \in 1..Len(wire[<<u, v>>])
  BY <1>1, HeadTailProperties, EmptySeq
<1>3. /\ Len(st) = Len(wire[<<u, v>>]) + 1
      /\ Leads(st[1], m, st[1 + 1]) /\ Holds(file, st[1])
      /\ st[1].file # NoFile => place[u][v] < st[1].nth
      /\ 1 \in 1..Len(st) /\ 2 \in 1..Len(st)
  <2>1. /\ Len(st) = Len(wire[<<u, v>>]) + 1
        /\ Holds(file, st[1])
        /\ st[1].file # NoFile => place[u][v] < st[1].nth
    BY DEF Carries
  <2>2. Leads(st[1], m, st[1 + 1])
    BY <1>2 DEF Carries
  <2>3. 1 \in 1..Len(st) /\ 2 \in 1..Len(st)
    BY <1>2, <2>1
  <2> QED
    BY <2>1, <2>2, <2>3
<1>4. st[1] \in Stage /\ st[2] \in Stage /\ Leads(st[1], m, st[2]) /\ Sound(u, st[1])
  <2>1. st[1] \in Stage /\ st[2] \in Stage
    BY <1>3
  <2>2. Leads(st[1], m, st[2])
    BY <1>3
  <2>3. Sound(u, st[1])
    BY <1>3 DEF Carries
  <2> QED
    BY <2>1, <2>2, <2>3
<1> HIDE DEF m, file
<1>5. /\ m.is = "head" => inFlight' = [inFlight EXCEPT ![<<u, v>>] = Started(file, m.file)]
      /\ m.is = "chunk" => inFlight' = [inFlight EXCEPT ![<<u, v>>] = Extended(file, m.data)]
      /\ m.is = "end" => inFlight' = [inFlight EXCEPT ![<<u, v>>] = Nothing]
      /\ m.is \in {"head", "chunk", "end"}
  BY <1>2 DEF Read, m, file, Messages
<1>6. Holds(inFlight'[<<u, v>>], st[2])
  <2>1. /\ m.is = "head" => inFlight'[<<u, v>>] = Started(file, m.file)
        /\ m.is = "chunk" => inFlight'[<<u, v>>] = Extended(file, m.data)
        /\ m.is = "end" => inFlight'[<<u, v>>] = Nothing
    BY <1>5 DEF Typed
  <2> QED
    BY <1>2, <1>3, <1>4, <1>5, <2>1, ReadLeads
<1>7. m.is # "end" => UNCHANGED <<arrived, given, place>>
  BY DEF Read, m
<1>8. ASSUME m.is = "end"
      PROVE  /\ Ends(file) /\ file = offered[u][i] /\ file.name \in Names
             /\ i \in 1..Len(offered[u]) /\ i > place[u][v]
             /\ place' = [place EXCEPT ![u][v] = i]
             /\ arrived' = [arrived EXCEPT ![v] = Append(@, [from |-> u, file |-> file])]
             /\ given' = [given EXCEPT ![v] = Append(@, [from |-> u, file |-> file])]
  <2>1. Ends(file) /\ st[1].file \in Files /\ file = Whole(st[1].file)
    BY <1>2, <1>3, <1>4, <1>8, ReadLeads
  <2>2. i \in Nat /\ offered[u] \in Seq(Content) /\ Len(offered[u]) \in Nat
        /\ place[u][v] \in Nat /\ arrived[v] \in Seq(Arrival) /\ given[v] \in Seq(Arrival)
    <3>1. i \in Nat
      BY <1>4 DEF Stage
    <3>2. offered[u] \in Seq(Content)
      BY DEF Typed
    <3> HIDE DEF i
    <3> QED
      BY <3>1, <3>2 DEF Typed
  <2>3. st[1].file # NoFile
    BY <2>1, FilesAssumption
  <2>4. i \in 1..Len(offered[u]) /\ file = offered[u][i] /\ i > place[u][v]
    BY <1>3, <1>4, <2>1, <2>2, <2>3 DEF Sound
  <2>5. OfferOf(u, file) = i
    BY <2>2, <2>4, OfferFound
  <2>6. /\ place' = [place EXCEPT ![u][v] = OfferOf(u, file)]
        /\ arrived' = [arrived EXCEPT ![v] = @ \o <<[from |-> u, file |-> file]>>]
        /\ given' = [given EXCEPT ![v] = @ \o <<[from |-> u, file |-> file]>>]
    BY <1>8, <2>1 DEF Read, m, file
  <2>7. [from |-> u, file |-> file] \in Arrival /\ file.name \in Names
    BY <2>1, WholeIsPartial DEF Arrival
  <2>8. /\ arrived[v] \o <<[from |-> u, file |-> file]>>
              = Append(arrived[v], [from |-> u, file |-> file])
        /\ given[v] \o <<[from |-> u, file |-> file]>>
              = Append(given[v], [from |-> u, file |-> file])
    BY <2>2, <2>7, AppendIsConcat
  <2> QED
    BY <2>1, <2>4, <2>5, <2>6, <2>7, <2>8
<1> QED
  BY <1>2, <1>4, <1>6, <1>7, <1>8 DEF m, file, Given

LEMMA ReadCarries ==
    ASSUME IInv, NEW x \in Users, NEW y \in Users, <<x, y>> \in Ways, Read(x, y)
    PROVE  Carried'
<1>0. Typed /\ Carried
  BY DEF IInv
<1>1. /\ UNCHANGED <<channel, sending, offered>>
      /\ wire' = [wire EXCEPT ![<<x, y>>] = Tail(@)]
      /\ wire[<<x, y>>] # <<>>
      /\ \A w \in Ways : w # <<x, y>> => inFlight'[w] = inFlight[w]
  <2>1. inFlight \in [Ways -> Received]
    BY <1>0 DEF Typed
  <2> QED
    BY <2>1 DEF Read
<1>2. \A u, v \in Users : u # x \/ v # y => place'[u][v] = place[u][v]
  <2>1. place \in [Users -> [Users -> Nat]]
    BY <1>0 DEF Typed
  <2>2. place' = place \/ \E n : place' = [place EXCEPT ![x][y] = n]
    BY DEF Read
  <2> QED
    BY <2>1, <2>2
<1>3. \A z : \A c \in Stage : Sound(z, c) => Sound(z, c)'
  BY <1>1 DEF Sound
<1>4. ASSUME NEW u \in Users, NEW v \in Users, <<u, v>> \in Ways
      PROVE  \E st \in Seq(Stage) : Carries(u, v, st)'
  <2>1. CASE u # x \/ v # y
    <3>1. <<u, v>> # <<x, y>>
      BY <2>1
    <3>2. wire'[<<u, v>>] = wire[<<u, v>>] /\ inFlight'[<<u, v>>] = inFlight[<<u, v>>]
      BY <1>0, <1>1, <1>4, <3>1 DEF Typed
    <3> QED
      BY <1>0, <1>1, <1>2, <1>4, <2>1, <3>2, CarriedKept
  <2>2. CASE u = x /\ v = y
    <3>1. PICK st \in Seq(Stage) : Carries(x, y, st)
      BY <1>0, <1>4, <2>2 DEF Carried
    <3> DEFINE q == wire[<<x, y>>]
               new == Tail(st)
    <3>2. /\ Len(st) = Len(q) + 1 /\ Len(q) \in Nat \ {0} /\ q \in Seq(Messages)
          /\ wire'[<<x, y>>] = Tail(q) /\ q # <<>> /\ st # <<>>
      <4>1. wire \in [Ways -> Seq(Messages)]
        BY <1>0 DEF Typed
      <4>2. q \in Seq(Messages) /\ wire'[<<x, y>>] = Tail(q) /\ q # <<>>
        BY <1>1, <4>1
      <4>3. Len(st) = Len(q) + 1
        BY <3>1 DEF Carries
      <4> HIDE DEF q, new
      <4>4. Len(q) \in Nat \ {0}
        BY <4>2, EmptySeq
      <4>5. st # <<>>
        BY <4>3, <4>4, EmptySeq
      <4> QED
        BY <4>2, <4>3, <4>4, <4>5
    <3>3. /\ new \in Seq(Stage) /\ Len(new) = Len(q)
          /\ \A k \in 1..Len(q) : new[k] = st[k + 1]
          /\ Len(Tail(q)) = Len(q) - 1 /\ \A k \in 1..Len(q) - 1 : Tail(q)[k] = q[k + 1]
      <4> HIDE DEF q
      <4>1. new \in Seq(Stage) /\ Len(new) = Len(st) - 1
            /\ \A k \in 1..Len(new) : new[k] = st[k + 1]
        BY <3>2, HeadTailProperties
      <4>2. Len(Tail(q)) = Len(q) - 1 /\ \A k \in 1..Len(Tail(q)) : Tail(q)[k] = q[k + 1]
        BY <3>2, HeadTailProperties
      <4> HIDE DEF new
      <4> QED
        BY <3>2, <4>1, <4>2
    <3>4. /\ \A k \in 1..Len(q) : Leads(st[k], q[k], st[k + 1])
          /\ \A k \in 1..Len(st) : Sound(x, st[k]) /\ st[k].nth <= st[Len(st)].nth
          /\ Continues(x, y, st[Len(st)])
          /\ place[x][y] <= st[1].nth
          /\ st[1].file # NoFile => place[x][y] < st[1].nth
      BY <3>1 DEF Carries
    <3> HIDE DEF new, q
    <3>5. new[1] = st[2] /\ new[Len(new)] = st[Len(st)]
      <4>1. 1 \in 1..Len(q) /\ Len(q) \in 1..Len(q)
        BY <3>2
      <4>2. new[1] = st[1 + 1] /\ new[Len(q)] = st[Len(q) + 1]
        BY <3>3, <4>1
      <4> QED
        BY <3>2, <3>3, <4>2
    <3>6. Holds(inFlight'[<<x, y>>], new[1])
      BY <3>1, <3>5, ReadStage
    <3>7. place'[x][y] <= new[1].nth /\ (new[1].file # NoFile => place'[x][y] < new[1].nth)
      <4> DEFINE m == Head(wire[<<x, y>>])
      <4>1. PICK s \in Stage, t \in Stage :
               /\ s = st[1] /\ t = st[2] /\ Leads(s, m, t) /\ m \in Messages
               /\ m.is # "end" => UNCHANGED place
               /\ m.is = "end" => Given(x, y, s.nth)
        BY <3>1, ReadStage
      <4> HIDE DEF m
      <4>2. /\ place[x][y] \in Nat /\ s.nth \in Nat /\ t.nth \in Nat
        BY <1>0 DEF Typed, Stage
      <4>3. place[x][y] <= s.nth /\ (s.file # NoFile => place[x][y] < s.nth)
        BY <3>4, <4>1
      <4>4. CASE m.is = "head"
        <5>1. t.nth > s.nth /\ place' = place
          BY <4>1, <4>4 DEF Leads
        <5> QED
          BY <3>5, <4>1, <4>2, <4>3, <5>1
      <4>5. CASE m.is = "chunk"
        <5>1. t.nth = s.nth /\ s.file # NoFile /\ place' = place
          BY <4>1, <4>5 DEF Leads, Stage
        <5> QED
          BY <3>5, <4>1, <4>2, <4>3, <5>1
      <4>6. CASE m.is = "end"
        <5>1. t.nth = s.nth /\ t.file = NoFile
          BY <4>1, <4>6 DEF Leads
        <5>2. place'[x][y] = s.nth
          <6>1. place \in [Users -> [Users -> Nat]]
            BY <1>0 DEF Typed
          <6>2. place' = [place EXCEPT ![x][y] = s.nth]
            BY <4>1, <4>6 DEF Given
          <6> QED
            BY <6>1, <6>2
        <5> QED
          BY <3>5, <4>1, <4>2, <5>1, <5>2
      <4> QED
        BY <4>1, <4>4, <4>5, <4>6 DEF Messages
    <3>8. \A k \in 1..Len(Tail(q)) : Leads(new[k], Tail(q)[k], new[k + 1])
      <4> SUFFICES ASSUME NEW k \in 1..Len(Tail(q))
                   PROVE  Leads(new[k], Tail(q)[k], new[k + 1])
        OBVIOUS
      <4>1. k + 1 \in 1..Len(q) /\ k \in 1..Len(q) /\ k \in 1..Len(q) - 1
        BY <3>2, <3>3
      <4> QED
        BY <3>3, <3>4, <4>1
    <3>9. \A k \in 1..Len(new) : Sound(x, new[k])' /\ new[k].nth <= new[Len(new)].nth
      <4> SUFFICES ASSUME NEW k \in 1..Len(new)
                   PROVE  Sound(x, new[k])' /\ new[k].nth <= new[Len(new)].nth
        OBVIOUS
      <4>1. k + 1 \in 1..Len(st) /\ new[k] = st[k + 1] /\ st[k + 1] \in Stage
        BY <3>2, <3>3
      <4> QED
        BY <1>3, <3>4, <3>5, <4>1
    <3>10. Continues(x, y, new[Len(new)])'
      BY <1>1, <3>4, <3>5 DEF Continues
    <3>11. /\ Len(new) = Len(wire'[<<x, y>>]) + 1
           /\ \A k \in 1..Len(wire'[<<x, y>>]) : Leads(new[k], wire'[<<x, y>>][k], new[k + 1])
      BY <3>2, <3>3, <3>8
    <3>12. \A k \in 1..Len(new) : Sound(x, new[k])'
      BY <3>9
    <3>13. \A k \in 1..Len(new) : new[k].nth <= new[Len(new)].nth
      BY <3>9
    <3>14. Carries(x, y, new)'
      BY <3>3, <3>6, <3>7, <3>10, <3>11, <3>12, <3>13 DEF Carries
    <3> QED
      BY <2>2, <3>3, <3>14
  <2> QED
    BY <2>1, <2>2
<1> QED
  BY <1>4 DEF Carried

-----------------------------------------------------------------------------
(* Saving. *)

(* What is saved next is a file with a name. *)
LEMMA Saved ==
    ASSUME IInv, NEW x \in Users, arrived[x] # <<>>
    PROVE  /\ Head(arrived[x]) \in Arrival /\ Head(arrived[x]).file \in Received
           /\ Head(arrived[x]).file.name \in Names
           /\ Tail(arrived[x]) \in Seq(Arrival)
           /\ \A i \in DOMAIN Tail(arrived[x]) : Tail(arrived[x])[i].file.name \in Names
<1>1. arrived[x] \in Seq(Arrival)
  BY DEF IInv, Typed
<1>2. \A i \in DOMAIN arrived[x] : arrived[x][i].file.name \in Names
  BY DEF IInv, Named
<1> DEFINE a == arrived[x]
<1> HIDE DEF a
<1>3. a \in Seq(Arrival) /\ a # <<>>
  BY <1>1 DEF a
<1>4. /\ Head(a) = a[1] /\ a[1] \in Arrival /\ 1 \in DOMAIN a
      /\ Tail(a) \in Seq(Arrival) /\ Len(Tail(a)) = Len(a) - 1
      /\ \A i \in 1..Len(Tail(a)) : Tail(a)[i] = a[i + 1]
      /\ Len(a) \in Nat
  BY <1>3, HeadTailProperties, EmptySeq
<1>5. a[1].file \in Received
  BY <1>4 DEF Arrival
<1>6. \A i \in DOMAIN Tail(a) : i \in 1..Len(Tail(a)) /\ i + 1 \in DOMAIN a
  BY <1>3, <1>4
<1> QED
  BY <1>2, <1>4, <1>5, <1>6 DEF a

LEMMA SavesCarry ==
    ASSUME IInv, NEW x \in Users, Save(x) \/ SaveFails(x)
    PROVE  Carried'
<1>1. UNCHANGED <<channel, wire, inFlight, sending, offered, place>>
  BY DEF Save, SaveFails, history
<1>2. Carried
  BY DEF IInv
<1> QED
  BY <1>1, <1>2, CarriedKept DEF Carried

-----------------------------------------------------------------------------
(* The rest of the invariant, one action at a time. *)

Rest == Typed /\ Named /\ Offers /\ Closed /\ \A u \in Users : Busy(u)

LEMMA OpenKeeps ==
    ASSUME IInv, NEW p \in Pairs, Open(p)
    PROVE  Rest'
<1>0. Rest
  BY DEF IInv, Rest
<1>1. Typed'
  <2>1. channel' \in [Pairs -> {"none", "open", "broken"}]
    BY <1>0 DEF Open, Rest, Typed
  <2>2. wire' \in [Ways -> Seq(Messages)]
    <3>1. <<>> \in Seq(Messages) /\ wire \in [Ways -> Seq(Messages)]
      BY <1>0 DEF Rest, Typed
    <3> QED
      BY <3>1 DEF Open
  <2>3. inFlight' \in [Ways -> Received]
    <3>1. inFlight \in [Ways -> Received]
      BY <1>0 DEF Rest, Typed
    <3> QED
      BY <3>1, NothingType DEF Open
  <2> QED
    BY <1>0, <2>1, <2>2, <2>3 DEF Open, history, Rest, Typed
<1>2. Named' /\ Offers' /\ \A u \in Users : Busy(u)'
  BY <1>0 DEF Open, history, Rest, Named, Offers, Busy
<1>3. Closed'
  <2> SUFFICES ASSUME NEW q \in Pairs, channel'[q] # "open", NEW w \in Ways, Range(w) = q
               PROVE  wire'[w] = <<>>
    BY DEF Closed
  <2>1. channel'[p] = "open" /\ \A r \in Pairs \ {p} : channel'[r] = channel[r]
    BY <1>0 DEF Open, Rest, Typed
  <2>2. q # p /\ channel[q] # "open"
    BY <2>1
  <2>3. wire'[w] = wire[w]
    BY <2>2 DEF Open
  <2> QED
    BY <1>0, <2>2, <2>3 DEF Rest, Closed
<1> QED
  BY <1>1, <1>2, <1>3 DEF Rest

LEMMA BreakKeeps ==
    ASSUME IInv, NEW p \in Pairs, Break(p)
    PROVE  Rest'
<1>0. Rest
  BY DEF IInv, Rest
<1>1. Typed'
  <2>1. channel' \in [Pairs -> {"none", "open", "broken"}]
    BY <1>0 DEF Break, Rest, Typed
  <2>2. wire' \in [Ways -> Seq(Messages)]
    <3>1. <<>> \in Seq(Messages) /\ wire \in [Ways -> Seq(Messages)]
      BY <1>0 DEF Rest, Typed
    <3> QED
      BY <3>1 DEF Break
  <2> QED
    BY <1>0, <2>1, <2>2 DEF Break, Rest, Typed
<1>2. Named' /\ Offers' /\ \A u \in Users : Busy(u)'
  BY <1>0 DEF Break, Rest, Named, Offers, Busy
<1>3. Closed'
  <2> SUFFICES ASSUME NEW q \in Pairs, channel'[q] # "open", NEW w \in Ways, Range(w) = q
               PROVE  wire'[w] = <<>>
    BY DEF Closed
  <2>1. CASE q = p
    BY <2>1 DEF Break
  <2>2. CASE q # p
    <3>1. channel'[q] = channel[q]
      BY <1>0, <2>2 DEF Break, Rest, Typed
    <3>2. wire'[w] = wire[w]
      BY <2>2 DEF Break
    <3> QED
      BY <1>0, <3>1, <3>2 DEF Rest, Closed
  <2> QED
    BY <2>1, <2>2
<1> QED
  BY <1>1, <1>2, <1>3 DEF Rest

(* Turning to the next peer leaves the sender with the offer he was at. *)
LEMMA TurnBusy ==
    ASSUME NEW x \in Users, NEW f \in Files, NEW left \in SUBSET Peers(x),
           NEW t \in Turns(f, left), sending'[x] = t,
           Len(offered'[x]) > 0, offered'[x][Len(offered'[x])] = Whole(f)
    PROVE  Busy(x)'
<1>1. left \in SUBSET Users
  BY DEF Peers
<1>2. /\ t.left \cup t.to \subseteq left /\ t.left \cap t.to = {} /\ t.next = 0
      /\ t.to = {} \/ \E v \in Users : t.to = {v}
      /\ t.file = NoFile => t = Idle
      /\ t.file # NoFile => t.file = f
  BY <1>1, TurnsTypes
<1>3. Size[f] \in Nat
  BY FilesAssumption
<1> QED
  BY <1>2, <1>3 DEF Busy

LEMMA ShareKeeps ==
    ASSUME IInv, NEW x \in Users, NEW f \in Files, Share(x, f)
    PROVE  Rest'
<1>0. Rest
  BY DEF IInv, Rest
<1>1. PICK t \in Turns(f, Peers(x)) : sending' = [sending EXCEPT ![x] = t]
  BY DEF Share
<1>2. /\ offered' = [offered EXCEPT ![x] = Append(@, Whole(f))]
      /\ Whole(f) \notin Range(offered[x])
      /\ UNCHANGED <<channel, wire, inFlight, arrived, disk, received, given, place, counted>>
  BY DEF Share
<1>3. /\ offered \in [Users -> Seq(Content)] /\ Whole(f) \in Content
      /\ DOMAIN sending = Users
  BY <1>0, WholeIsPartial DEF Rest, Typed
<1>4. /\ offered'[x] = Append(offered[x], Whole(f)) /\ offered[x] \in Seq(Content)
      /\ \A u \in Users \ {x} : offered'[u] = offered[u] /\ sending'[u] = sending[u]
      /\ sending'[x] = t
  BY <1>1, <1>2, <1>3
<1>5. /\ Len(offered[x]) \in Nat /\ Len(offered'[x]) = Len(offered[x]) + 1
      /\ \A i \in 1..Len(offered[x]) : offered'[x][i] = offered[x][i]
      /\ offered'[x][Len(offered[x]) + 1] = Whole(f)
      /\ DOMAIN offered[x] = 1..Len(offered[x])
      /\ DOMAIN offered'[x] = 1..Len(offered[x]) + 1
  BY <1>3, <1>4, AppendProperties
<1>6. Peers(x) \in SUBSET Users
  BY DEF Peers
<1>7. Typed'
  <2>1. t \in [file : Files \cup {NoFile}, left : SUBSET Users, to : SUBSET Users, next : Nat]
    BY <1>6, TurnsTypes
  <2>2. sending' \in [Users -> [file : Files \cup {NoFile}, left : SUBSET Users,
                                to : SUBSET Users, next : Nat]]
    <3>1. sending \in [Users -> [file : Files \cup {NoFile}, left : SUBSET Users,
                                 to : SUBSET Users, next : Nat]]
      BY <1>0 DEF Rest, Typed
    <3> QED
      BY <1>1, <2>1, <3>1
  <2>3. offered' \in [Users -> Seq(Content)]
    <3>1. Append(offered[x], Whole(f)) \in Seq(Content)
      BY <1>3, <1>4
    <3> QED
      BY <1>2, <1>3, <3>1
  <2> QED
    BY <1>0, <1>2, <2>2, <2>3 DEF Rest, Typed
<1>8. Named' /\ Closed'
  BY <1>0, <1>2 DEF Rest, Named, Closed
<1>9. Offers'
  <2>1. ASSUME NEW u \in Users, NEW i \in DOMAIN offered'[u], NEW j \in DOMAIN offered'[u],
               offered'[u][i] = offered'[u][j]
        PROVE  i = j
    <3>1. CASE u # x
      BY <1>0, <1>4, <2>1, <3>1 DEF Rest, Offers
    <3>2. CASE u = x
      <4>1. \A k \in 1..Len(offered[x]) : offered[x][k] # Whole(f)
        BY <1>2, <1>5 DEF Range
      <4>2. \A k, l \in 1..Len(offered[x]) : offered[x][k] = offered[x][l] => k = l
        BY <1>0, <1>5 DEF Rest, Offers
      <4>3. /\ i \in 1..Len(offered[x]) \/ i = Len(offered[x]) + 1
            /\ j \in 1..Len(offered[x]) \/ j = Len(offered[x]) + 1
        BY <1>5, <2>1, <3>2
      <4> QED
        BY <1>5, <2>1, <3>2, <4>1, <4>2, <4>3
    <3> QED
      BY <3>1, <3>2
  <2>2. ASSUME NEW c \in counted
        PROVE  c.nth \in 1..Len(offered'[c.from])
    <3>1. c.from \in Users /\ c.nth \in 1..Len(offered[c.from])
      BY <1>0 DEF Rest, Offers, Typed
    <3> QED
      BY <1>4, <1>5, <3>1
  <2> QED
    BY <1>2, <2>1, <2>2 DEF Offers
<1>10. ASSUME NEW u \in Users
       PROVE  Busy(u)'
  <2>1. CASE u = x
    <3>1. Len(offered'[x]) > 0 /\ offered'[x][Len(offered'[x])] = Whole(f)
      BY <1>5
    <3> QED
      BY <1>4, <2>1, <3>1, TurnBusy
  <2>2. CASE u # x
    BY <1>0, <1>4, <2>2 DEF Rest, Busy
  <2> QED
    BY <2>1, <2>2
<1> QED
  BY <1>7, <1>8, <1>9, <1>10 DEF Rest

LEMMA SendKeeps ==
    ASSUME IInv, NEW x \in Users, Send(x)
    PROVE  Rest'
<1>0. Rest
  BY DEF IInv, Rest
<1> DEFINE f == sending[x].file
           n == sending[x].next
           Sendings == [file : Files \cup {NoFile}, left : SUBSET Users, to : SUBSET Users,
                        next : Nat]
<1>1. PICK y \in sending[x].to :
         /\ channel[{x, y}] = "open"
         /\ wire' = [wire EXCEPT ![<<x, y>>] = Append(@, Message(f, n))]
         /\ \/ /\ IsLast(f, n)
               /\ \E t \in Turns(f, sending[x].left) : sending' = [sending EXCEPT ![x] = t]
               /\ counted' = counted \cup {[from |-> x, to |-> y, nth |-> Len(offered[x])]}
            \/ /\ ~IsLast(f, n)
               /\ sending' = [sending EXCEPT ![x].next = @ + 1]
               /\ UNCHANGED counted
  BY DEF Send
<1>2. UNCHANGED <<channel, inFlight, arrived, disk, received, offered, given, place>>
  BY DEF Send
<1>3. /\ f \in Files /\ n \in Nat /\ y \in Peers(x) /\ Size[f] \in Nat
      /\ Len(offered[x]) \in Nat \ {0} /\ offered[x][Len(offered[x])] = Whole(f)
      /\ n <= Size[f] + 1
  BY Sender
<1>4. <<x, y>> \in Ways /\ y \in Users /\ {x, y} \in Pairs
  BY <1>3, WayOf, PairParts
<1>5. sending \in [Users -> Sendings] /\ sending[x].left \in SUBSET Peers(x)
  BY <1>0 DEF Rest, Typed, Busy
<1> HIDE DEF f, n, Sendings
<1>6. Message(f, n) \in Messages
  BY <1>3 DEF Message, Messages
<1>7. /\ sending' \in [Users -> Sendings] /\ Busy(x)'
      /\ \A u \in Users \ {x} : sending'[u] = sending[u]
  <2>1. CASE IsLast(f, n)
    <3>1. PICK t \in Turns(f, sending[x].left) : sending' = [sending EXCEPT ![x] = t]
      BY <1>1, <2>1
    <3>2. t \in Sendings
      <4>1. sending[x].left \in SUBSET Users
        BY <1>5 DEF Peers
      <4> QED
        BY <1>3, <4>1, TurnsTypes DEF Sendings
    <3>3. sending' \in [Users -> Sendings] /\ sending'[x] = t
          /\ \A u \in Users \ {x} : sending'[u] = sending[u]
      BY <1>5, <3>1, <3>2
    <3>4. Len(offered'[x]) > 0 /\ offered'[x][Len(offered'[x])] = Whole(f)
      BY <1>2, <1>3
    <3> QED
      BY <1>3, <1>5, <3>3, <3>4, TurnBusy
  <2>2. CASE ~IsLast(f, n)
    <3>1. sending' = [sending EXCEPT ![x].next = @ + 1]
      BY <1>1, <2>2
    <3>2. sending' \in [Users -> Sendings] /\ \A u \in Users \ {x} : sending'[u] = sending[u]
      BY <1>5, <3>1 DEF Sendings
    <3>3. /\ sending'[x].file = f /\ sending'[x].left = sending[x].left
          /\ sending'[x].to = sending[x].to /\ sending'[x].next = n + 1
      BY <1>5, <3>1 DEF Sendings, f, n
    <3>4. n + 1 <= Size[f] + 1 /\ f # NoFile
      BY <1>3, <2>2, FilesAssumption DEF IsLast
    <3>5. Busy(x)
      BY <1>0 DEF Rest
    <3> QED
      BY <1>2, <1>3, <3>2, <3>3, <3>4, <3>5 DEF Busy
  <2> QED
    BY <2>1, <2>2
<1>8. Typed'
  <2>1. wire' \in [Ways -> Seq(Messages)]
    <3>1. wire \in [Ways -> Seq(Messages)]
      BY <1>0 DEF Rest, Typed
    <3>2. Append(wire[<<x, y>>], Message(f, n)) \in Seq(Messages)
      BY <1>4, <1>6, <3>1
    <3> QED
      BY <1>1, <3>1, <3>2
  <2>2. counted' \subseteq [from : Users, to : Users, nth : Nat]
    <3>1. counted \subseteq [from : Users, to : Users, nth : Nat]
      BY <1>0 DEF Rest, Typed
    <3> QED
      BY <1>1, <1>3, <1>4, <3>1
  <2> QED
    BY <1>0, <1>2, <1>7, <2>1, <2>2 DEF Rest, Typed, Sendings
<1>9. Named'
  BY <1>0, <1>2 DEF Rest, Named
<1>10. Offers'
  BY <1>0, <1>1, <1>2, <1>3 DEF Rest, Offers
<1>11. Closed'
  <2> SUFFICES ASSUME NEW q \in Pairs, channel'[q] # "open", NEW w \in Ways, Range(w) = q
               PROVE  wire'[w] = <<>>
    BY DEF Closed
  <2>1. w # <<x, y>>
    BY <1>1, <1>2, <1>4, PairParts
  <2>2. wire'[w] = wire[w]
    BY <1>1, <2>1
  <2> QED
    BY <1>0, <1>2, <2>2 DEF Rest, Closed
<1>12. \A u \in Users : Busy(u)'
  <2>1. \A u \in Users \ {x} : Busy(u)'
    BY <1>0, <1>2, <1>7 DEF Rest, Busy
  <2> QED
    BY <1>7, <2>1
<1> QED
  BY <1>8, <1>9, <1>10, <1>11, <1>12 DEF Rest

LEMMA SendFailsKeeps ==
    ASSUME IInv, NEW x \in Users, SendFails(x)
    PROVE  Rest'
<1>0. Rest
  BY DEF IInv, Rest
<1> DEFINE f == sending[x].file
           Sendings == [file : Files \cup {NoFile}, left : SUBSET Users, to : SUBSET Users,
                        next : Nat]
<1>1. PICK y \in sending[x].to, t \in Turns(f, sending[x].left) :
         sending' = [sending EXCEPT ![x] = t]
  BY DEF SendFails
<1>2. UNCHANGED <<channel, wire, inFlight, arrived, disk, received, offered, given, place,
                  counted>>
  BY DEF SendFails, history
<1>3. /\ f \in Files /\ Len(offered[x]) \in Nat \ {0}
      /\ offered[x][Len(offered[x])] = Whole(f)
  BY Sender
<1>4. sending \in [Users -> Sendings] /\ sending[x].left \in SUBSET Peers(x)
  BY <1>0 DEF Rest, Typed, Busy
<1> HIDE DEF f, Sendings
<1>5. t \in Sendings
  <2>1. sending[x].left \in SUBSET Users
    BY <1>4 DEF Peers
  <2> QED
    BY <1>3, <2>1, TurnsTypes DEF Sendings
<1>6. sending' \in [Users -> Sendings] /\ sending'[x] = t
      /\ \A u \in Users \ {x} : sending'[u] = sending[u]
  BY <1>1, <1>4, <1>5
<1>7. Typed' /\ Named' /\ Offers' /\ Closed'
  BY <1>0, <1>2, <1>6 DEF Rest, Typed, Named, Offers, Closed, Sendings
<1>8. Busy(x)'
  <2>1. Len(offered'[x]) > 0 /\ offered'[x][Len(offered'[x])] = Whole(f)
    BY <1>2, <1>3
  <2> QED
    BY <1>3, <1>4, <1>6, <2>1, TurnBusy
<1>9. \A u \in Users \ {x} : Busy(u)'
  BY <1>0, <1>2, <1>6 DEF Rest, Busy
<1> QED
  BY <1>7, <1>8, <1>9 DEF Rest

LEMMA ReadKeeps ==
    ASSUME IInv, NEW x \in Users, NEW y \in Users, <<x, y>> \in Ways, Read(x, y)
    PROVE  Rest'
<1>0. Rest /\ Carried
  BY DEF IInv, Rest
<1>1. PICK st \in Seq(Stage) : Carries(x, y, st)
  BY <1>0 DEF Carried
<1>2. PICK s \in Stage, t \in Stage, m \in Messages :
         /\ s = st[1] /\ t = st[2] /\ m = Head(wire[<<x, y>>])
         /\ Holds(inFlight'[<<x, y>>], t)
         /\ m.is # "end" => UNCHANGED <<arrived, given, place>>
         /\ m.is = "end" => Given(x, y, s.nth)
  BY <1>1, ReadStage
<1>3. /\ channel[{x, y}] = "open" /\ wire[<<x, y>>] # <<>>
      /\ wire' = [wire EXCEPT ![<<x, y>>] = Tail(@)]
      /\ UNCHANGED <<channel, sending, disk, received, offered, counted>>
      /\ \E file : inFlight' = [inFlight EXCEPT ![<<x, y>>] = file]
  BY DEF Read
<1>4. inFlight' \in [Ways -> Received]
  <2>1. inFlight \in [Ways -> Received]
    BY <1>0 DEF Rest, Typed
  <2>2. PICK file : inFlight' = [inFlight EXCEPT ![<<x, y>>] = file]
    BY <1>3
  <2>3. file = inFlight'[<<x, y>>]
    BY <2>1, <2>2
  <2>4. file \in Received
    <3>1. CASE t.file = NoFile
      BY <1>2, <2>3, <3>1, NothingType DEF Holds
    <3>2. CASE t.file # NoFile
      <4>1. t.file \in Files /\ t.next \in Nat
        BY <3>2 DEF Stage
      <4> QED
        BY <1>2, <2>3, <3>2, <4>1, PartialParts DEF Holds
    <3> QED
      BY <3>1, <3>2
  <2> QED
    BY <2>1, <2>2, <2>4
<1>5. wire' \in [Ways -> Seq(Messages)]
  <2>1. wire \in [Ways -> Seq(Messages)]
    BY <1>0 DEF Rest, Typed
  <2>2. Tail(wire[<<x, y>>]) \in Seq(Messages)
    BY <1>3, <2>1, HeadTailProperties
  <2> QED
    BY <1>3, <2>1, <2>2
<1>6. /\ arrived' \in [Users -> Seq(Arrival)] /\ given' \in [Users -> Seq(Arrival)]
      /\ place' \in [Users -> [Users -> Nat]]
      /\ \A u \in Users : \A i \in DOMAIN arrived'[u] : arrived'[u][i].file.name \in Names
  <2>0. /\ arrived \in [Users -> Seq(Arrival)] /\ given \in [Users -> Seq(Arrival)]
        /\ place \in [Users -> [Users -> Nat]] /\ inFlight[<<x, y>>] \in Received
        /\ \A u \in Users : \A i \in DOMAIN arrived[u] : arrived[u][i].file.name \in Names
    BY <1>0 DEF Rest, Typed, Named
  <2>1. CASE m.is # "end"
    BY <1>2, <2>0, <2>1
  <2>2. CASE m.is = "end"
    <3> DEFINE new == [from |-> x, file |-> offered[x][s.nth]]
    <3>1. /\ inFlight[<<x, y>>] = offered[x][s.nth] /\ offered[x][s.nth].name \in Names
          /\ s.nth \in Nat
          /\ place' = [place EXCEPT ![x][y] = s.nth]
          /\ arrived' = [arrived EXCEPT ![y] = Append(@, new)]
          /\ given' = [given EXCEPT ![y] = Append(@, new)]
      BY <1>2, <2>2 DEF Given, Stage
    <3>2. new \in Arrival /\ new.file.name \in Names
      BY <2>0, <3>1 DEF Arrival
    <3> HIDE DEF new
    <3>3. /\ Append(arrived[y], new) \in Seq(Arrival) /\ Append(given[y], new) \in Seq(Arrival)
          /\ \A i \in DOMAIN Append(arrived[y], new) :
                (i \in DOMAIN arrived[y] /\ Append(arrived[y], new)[i] = arrived[y][i])
                \/ Append(arrived[y], new)[i] = new
      <4>1. arrived[y] \in Seq(Arrival) /\ given[y] \in Seq(Arrival)
        BY <2>0
      <4> QED
        BY <3>2, <4>1, AppendProperties
    <3>4. /\ arrived' \in [Users -> Seq(Arrival)] /\ given' \in [Users -> Seq(Arrival)]
          /\ arrived'[y] = Append(arrived[y], new)
          /\ \A u \in Users \ {y} : arrived'[u] = arrived[u]
      BY <2>0, <3>1, <3>3
    <3>5. place' \in [Users -> [Users -> Nat]]
      BY <2>0, <3>1
    <3>6. \A i \in DOMAIN arrived'[y] : arrived'[y][i].file.name \in Names
      BY <2>0, <3>2, <3>3, <3>4
    <3> QED
      BY <2>0, <3>4, <3>5, <3>6
  <2> QED
    BY <2>1, <2>2
<1>7. Typed'
  BY <1>0, <1>3, <1>4, <1>5, <1>6 DEF Rest, Typed
<1>8. Named'
  BY <1>0, <1>3, <1>6 DEF Rest, Named
<1>9. Offers' /\ \A u \in Users : Busy(u)'
  BY <1>0, <1>3 DEF Rest, Offers, Busy
<1>10. Closed'
  <2> SUFFICES ASSUME NEW q \in Pairs, channel'[q] # "open", NEW w \in Ways, Range(w) = q
               PROVE  wire'[w] = <<>>
    BY DEF Closed
  <2>1. w # <<x, y>>
    BY <1>3, PairParts
  <2>2. wire'[w] = wire[w]
    BY <1>3, <2>1
  <2> QED
    BY <1>0, <1>3, <2>2 DEF Rest, Closed
<1> QED
  BY <1>7, <1>8, <1>9, <1>10 DEF Rest

LEMMA SaveKeeps ==
    ASSUME IInv, NEW x \in Users, Save(x)
    PROVE  Rest'
<1>0. Rest
  BY DEF IInv, Rest
<1> DEFINE new == Head(arrived[x])
           name == new.file.name
           rest == Tail(arrived[x])
<1>1. /\ disk' = [disk EXCEPT ![x][name] = new.file]
      /\ received' = [received EXCEPT ![x] = Append(@, new)]
      /\ arrived' = [arrived EXCEPT ![x] = rest] /\ arrived[x] # <<>>
      /\ UNCHANGED <<channel, wire, inFlight, sending, offered, given, place, counted>>
  BY DEF Save, history
<1>2. /\ new \in Arrival /\ new.file \in Received /\ name \in Names /\ rest \in Seq(Arrival)
      /\ \A i \in DOMAIN rest : rest[i].file.name \in Names
  BY <1>1, Saved
<1>3. /\ disk \in [Users -> [Names -> Received]] /\ received \in [Users -> Seq(Arrival)]
      /\ arrived \in [Users -> Seq(Arrival)]
  BY <1>0 DEF Rest, Typed
<1> HIDE DEF new, rest
<1>4. /\ Append(received[x], new) \in Seq(Arrival)
      /\ \A i \in DOMAIN Append(received[x], new) :
            (i \in DOMAIN received[x] /\ Append(received[x], new)[i] = received[x][i])
            \/ Append(received[x], new)[i] = new
  <2>1. received[x] \in Seq(Arrival)
    BY <1>3
  <2> QED
    BY <1>2, <2>1, AppendProperties
<1>5. /\ disk' \in [Users -> [Names -> Received]] /\ received' \in [Users -> Seq(Arrival)]
      /\ arrived' \in [Users -> Seq(Arrival)]
      /\ received'[x] = Append(received[x], new) /\ arrived'[x] = rest
      /\ \A u \in Users \ {x} : received'[u] = received[u] /\ arrived'[u] = arrived[u]
  BY <1>1, <1>2, <1>3, <1>4
<1>6. Typed'
  BY <1>0, <1>1, <1>5 DEF Rest, Typed
<1>7. Named'
  <2>1. \A u \in Users : \A i \in DOMAIN arrived'[u] : arrived'[u][i].file.name \in Names
    BY <1>0, <1>2, <1>5 DEF Rest, Named
  <2>2. \A u \in Users : \A i \in DOMAIN received'[u] : received'[u][i].file.name \in Names
    <3>1. \A i \in DOMAIN received'[x] : received'[x][i].file.name \in Names
      BY <1>0, <1>2, <1>4, <1>5 DEF Rest, Named
    <3> QED
      BY <1>0, <1>5, <3>1 DEF Rest, Named
  <2>3. \A u \in Users, n \in Names : disk'[u][n].name \in {n, NoFile}
    <3>1. \A u \in Users, n \in Names : disk'[u][n] = disk[u][n] \/ disk'[u][n].name = n
      BY <1>1, <1>3
    <3> QED
      BY <1>0, <3>1 DEF Rest, Named
  <2> QED
    BY <2>1, <2>2, <2>3 DEF Named
<1>8. Offers' /\ Closed' /\ \A u \in Users : Busy(u)'
  BY <1>0, <1>1 DEF Rest, Offers, Closed, Busy
<1> QED
  BY <1>6, <1>7, <1>8 DEF Rest

LEMMA SaveFailsKeeps ==
    ASSUME IInv, NEW x \in Users, SaveFails(x)
    PROVE  Rest'
<1>0. Rest
  BY DEF IInv, Rest
<1> DEFINE name == Head(arrived[x]).file.name
           rest == Tail(arrived[x])
<1>1. /\ disk' = disk \/ disk' = [disk EXCEPT ![x][name] = Part(name)]
      /\ arrived' = [arrived EXCEPT ![x] = rest] /\ arrived[x] # <<>>
      /\ UNCHANGED <<channel, wire, inFlight, sending, received, offered, given, place,
                     counted>>
  BY DEF SaveFails, history
<1>2. /\ name \in Names /\ rest \in Seq(Arrival)
      /\ \A i \in DOMAIN rest : rest[i].file.name \in Names
  BY <1>1, Saved
<1>3. /\ disk \in [Users -> [Names -> Received]] /\ arrived \in [Users -> Seq(Arrival)]
  BY <1>0 DEF Rest, Typed
<1> HIDE DEF name, rest
<1>4. Part(name) \in Received /\ Part(name).name = name
  BY <1>2 DEF Part, Received, Pieces
<1>5. /\ disk' \in [Users -> [Names -> Received]] /\ arrived' \in [Users -> Seq(Arrival)]
      /\ arrived'[x] = rest /\ \A u \in Users \ {x} : arrived'[u] = arrived[u]
  <2>1. CASE disk' = disk
    BY <1>1, <1>2, <1>3, <2>1
  <2>2. CASE disk' = [disk EXCEPT ![x][name] = Part(name)]
    <3> DEFINE part == Part(name)
    <3>1. part \in Received
      BY <1>4
    <3> HIDE DEF part
    <3>2. disk' \in [Users -> [Names -> Received]]
      BY <1>2, <1>3, <2>2, <3>1 DEF part
    <3> QED
      BY <1>1, <1>2, <1>3, <3>2
  <2> QED
    BY <1>1, <2>1, <2>2
<1>6. Typed'
  BY <1>0, <1>1, <1>5 DEF Rest, Typed
<1>7. Named'
  <2>1. ASSUME NEW u \in Users, NEW n \in Names
        PROVE  disk'[u][n] = disk[u][n] \/ disk'[u][n].name = n
    <3>1. CASE disk' = disk
      BY <3>1
    <3>2. CASE disk' = [disk EXCEPT ![x][name] = Part(name)]
      <4>1. disk[u] \in [Names -> Received]
        BY <1>3
      <4>2. disk'[u] = IF u = x THEN [disk[x] EXCEPT ![name] = Part(name)] ELSE disk[u]
        BY <1>3, <3>2
      <4> QED
        BY <1>4, <4>1, <4>2
    <3> QED
      BY <1>1, <3>1, <3>2
  <2> QED
    BY <1>0, <1>1, <1>2, <1>5, <2>1 DEF Rest, Named
<1>8. Offers' /\ Closed' /\ \A u \in Users : Busy(u)'
  BY <1>0, <1>1 DEF Rest, Offers, Closed, Busy
<1> QED
  BY <1>6, <1>7, <1>8 DEF Rest

-----------------------------------------------------------------------------
(* The inductive invariant. *)

LEMMA InitIInv == Init => IInv
<1> SUFFICES ASSUME Init PROVE IInv
  OBVIOUS
<1>1. Typed
  BY NothingType DEF Init, Typed, Idle
<1>2. Named /\ Offers /\ Closed
  BY NothingType DEF Init, Named, Offers, Closed
<1>3. \A u \in Users : Busy(u)
  BY DEF Init, Busy, Idle
<1>4. ASSUME NEW u \in Users, NEW v \in Users, <<u, v>> \in Ways
      PROVE  \E st \in Seq(Stage) : Carries(u, v, st)
  <2>1. PICK s \in Stage : s = [file |-> NoFile, next |-> 0, nth |-> 0]
    <3>1. [file |-> NoFile, next |-> 0, nth |-> 0] \in Stage
      BY DEF Stage
    <3> QED
      BY <3>1
  <2> DEFINE st == <<s>>
  <2>2. st \in Seq(Stage) /\ Len(st) = 1 /\ st[1] = s
    OBVIOUS
  <2> HIDE DEF st
  <2>3. wire[<<u, v>>] = <<>> /\ Len(wire[<<u, v>>]) = 0
    BY <1>4 DEF Init
  <2>4. place[u][v] = 0 /\ Len(offered[u]) = 0
    BY DEF Init
  <2>5. Holds(inFlight[<<u, v>>], s)
    BY <1>4, <2>1 DEF Init, Holds
  <2>6. Sound(u, s)
    BY <2>1, <2>4 DEF Sound
  <2>7. Continues(u, v, s)
    BY DEF Init, Idle, Continues
  <2>8. Carries(u, v, st)
    BY <2>1, <2>2, <2>3, <2>4, <2>5, <2>6, <2>7 DEF Carries
  <2> QED
    BY <2>2, <2>8
<1> QED
  BY <1>1, <1>2, <1>3, <1>4 DEF IInv, Carried

LEMMA StutterIInv == IInv /\ UNCHANGED vars => IInv'
<1> SUFFICES ASSUME IInv, UNCHANGED vars PROVE IInv'
  OBVIOUS
<1>1. UNCHANGED <<channel, wire, inFlight, sending, arrived, disk, received, offered, given,
                  place, counted>>
  BY DEF vars, history
<1>2. Rest'
  BY <1>1 DEF IInv, Rest, Typed, Named, Offers, Closed, Busy
<1>3. Carried'
  BY <1>1, CarriedKept DEF IInv, Carried
<1> QED
  BY <1>2, <1>3 DEF IInv, Rest

LEMMA NextIInv == IInv /\ Next => IInv'
<1> SUFFICES ASSUME IInv, Next PROVE Carried' /\ Rest'
  BY DEF IInv, Rest
<1>1. CASE \E p \in Pairs : Open(p)
  BY <1>1, OpenCarries, OpenKeeps
<1>2. CASE \E p \in Pairs : Break(p)
  BY <1>2, BreakCarries, BreakKeeps
<1>3. CASE \E u \in Users : \E f \in Files : Share(u, f)
  BY <1>3, ShareCarries, ShareKeeps
<1>4. CASE \E u \in Users : Send(u)
  BY <1>4, SendCarries, SendKeeps
<1>5. CASE \E u \in Users : SendFails(u)
  BY <1>5, SendFailsCarries, SendFailsKeeps
<1>6. CASE \E u \in Users : Save(u)
  BY <1>6, SavesCarry, SaveKeeps
<1>7. CASE \E u \in Users : SaveFails(u)
  BY <1>7, SavesCarry, SaveFailsKeeps
<1>8. CASE \E w \in Ways : Read(w[1], w[2])
  <2>1. PICK w \in Ways : Read(w[1], w[2])
    BY <1>8
  <2>2. w[1] \in Users /\ w[2] \in Users /\ <<w[1], w[2]>> \in Ways
    BY WayParts
  <2> QED
    BY <2>1, <2>2, ReadCarries, ReadKeeps
<1> QED
  BY <1>1, <1>2, <1>3, <1>4, <1>5, <1>6, <1>7, <1>8 DEF Next

LEMMA Inductive == Spec => []IInv
<1>1. IInv /\ [Next]_vars => IInv'
  BY NextIInv, StutterIInv
<1> QED
  BY InitIInv, <1>1, PTL DEF Spec

LEMMA IInvTypes == IInv => TypeOK
<1> SUFFICES ASSUME IInv PROVE TypeOK
  OBVIOUS
<1>0. Typed /\ Named /\ Offers
  BY DEF IInv
<1>1. channel \in [Pairs -> {"none", "open", "broken"}]
  BY <1>0 DEF Typed
<1>2. ASSUME NEW w \in Ways
      PROVE  /\ inFlight[w].name \in Names \cup {NoFile}
             /\ inFlight[w].name = NoFile => inFlight[w].data = <<>>
  <2>1. w[1] \in Users /\ w[2] \in Users /\ <<w[1], w[2]>> = w
    BY WayParts
  <2>2. PICK st \in Seq(Stage) : Carries(w[1], w[2], st)
    BY <2>1 DEF IInv, Carried
  <2>3. wire[w] \in Seq(Messages) /\ inFlight[w] \in Received
    BY <1>0 DEF Typed
  <2>4. Len(st) = Len(wire[w]) + 1 /\ Holds(inFlight[w], st[1])
    BY <2>1, <2>2 DEF Carries
  <2>5. st[1] \in Stage
    BY <2>3, <2>4
  <2>6. inFlight[w].name = NoFile => inFlight[w] = Nothing
    <3>1. PICK s \in Stage : s = st[1]
      BY <2>5
    <3>2. CASE s.file = NoFile
      BY <2>4, <3>1, <3>2 DEF Holds
    <3>3. CASE s.file # NoFile
      <4>1. s.file \in Files /\ s.next \in Nat
        BY <3>3 DEF Stage
      <4>2. inFlight[w].name = Name[s.file]
        <5>1. inFlight[w] = Partial(s.file, s.next)
          BY <2>4, <3>1, <3>3 DEF Holds
        <5> QED
          BY <5>1 DEF Partial
      <4> QED
        BY <4>1, <4>2, FileNames
    <3> QED
      BY <3>2, <3>3
  <2> QED
    BY <2>3, <2>6 DEF Nothing, Received
<1>3. ASSUME NEW u \in Users
      PROVE  /\ sending[u].file \in Files \cup {NoFile}
             /\ sending[u].left \subseteq Peers(u) /\ Cardinality(sending[u].to) <= 1
             /\ sending[u].next = 0 \/ sending[u].next - 1 \in 0..Size[sending[u].file]
  <2>1. Busy(u)
    BY DEF IInv
  <2>2. sending[u].file \in Files \cup {NoFile} /\ sending[u].next \in Nat
    BY <1>0 DEF Typed
  <2>3. Cardinality(sending[u].to) <= 1
    <3>1. CASE sending[u].to = {}
      BY <3>1, FS_EmptySet
    <3>2. CASE \E v \in Users : sending[u].to = {v}
      BY <3>2, FS_Singleton
    <3> QED
      BY <2>1, <3>1, <3>2 DEF Busy
  <2>4. sending[u].next = 0 \/ sending[u].next - 1 \in 0..Size[sending[u].file]
    <3>1. CASE sending[u].file = NoFile
      BY <2>1, <3>1 DEF Busy, Idle
    <3>2. CASE sending[u].file # NoFile
      <4>1. Size[sending[u].file] \in Nat
        BY <2>2, <3>2, FilesAssumption
      <4> QED
        BY <2>1, <2>2, <3>2, <4>1 DEF Busy
    <3> QED
      BY <3>1, <3>2
  <2> QED
    BY <2>1, <2>2, <2>3, <2>4 DEF Busy
<1>4. \A u \in Users, n \in Names : disk[u][n].name \in {n, NoFile}
  BY <1>0 DEF Named
<1>5. \A c \in counted : c.nth \in 1..Len(offered[c.from])
  BY <1>0 DEF Offers
<1> QED
  BY <1>1, <1>2, <1>3, <1>4, <1>5 DEF TypeOK

(* The event loop sends to one peer at a time, only to those of the call,  *)
(* never more than a file's chunks and its end; what is in flight without  *)
(* a name is empty; and a send is counted for an offer that was made       *)
(* (webrtc_peer.rs:60-103, 324-336; gui.rs:1541-1556).                     *)
THEOREM TypeCorrect == Spec => []TypeOK
  BY Inductive, IInvTypes, PTL

-----------------------------------------------------------------------------
(* What is on the disk. *)

Listed(v, n) == {i \in DOMAIN received[v] : received[v][i].file.name = n}

(* Of the files listed under a name the last one is on the disk, or a part. *)
Newest ==
    \A v \in Users, n \in Names :
        Listed(v, n) # {} =>
            \E i \in Listed(v, n) :
                /\ \A j \in Listed(v, n) : j <= i
                /\ disk[v][n] = received[v][i].file \/ disk[v][n] = Part(n)

LEMMA NewestSaved ==
    ASSUME IInv, Newest, NEW x \in Users, Save(x)
    PROVE  Newest'
<1> DEFINE new == Head(arrived[x])
           name == new.file.name
<1>1. /\ disk' = [disk EXCEPT ![x][name] = new.file]
      /\ received' = [received EXCEPT ![x] = Append(@, new)] /\ arrived[x] # <<>>
  BY DEF Save
<1>2. new \in Arrival /\ new.file \in Received /\ name \in Names
  BY <1>1, Saved
<1>3. disk \in [Users -> [Names -> Received]] /\ received \in [Users -> Seq(Arrival)]
  BY DEF IInv, Typed
<1> HIDE DEF new
<1>4. /\ received'[x] = Append(received[x], new) /\ received[x] \in Seq(Arrival)
      /\ \A u \in Users \ {x} : received'[u] = received[u] /\ disk'[u] = disk[u]
      /\ disk'[x][name] = new.file
      /\ \A n \in Names \ {name} : disk'[x][n] = disk[x][n]
  BY <1>1, <1>2, <1>3
<1>5. /\ Len(received[x]) \in Nat /\ DOMAIN received[x] = 1..Len(received[x])
      /\ DOMAIN received'[x] = 1..Len(received[x]) + 1
      /\ \A i \in 1..Len(received[x]) : received'[x][i] = received[x][i]
      /\ received'[x][Len(received[x]) + 1] = new
  BY <1>2, <1>4, AppendProperties
<1> SUFFICES ASSUME NEW v \in Users, NEW n \in Names, Listed(v, n)' # {}
             PROVE  \E i \in Listed(v, n)' :
                       /\ \A j \in Listed(v, n)' : j <= i
                       /\ disk'[v][n] = received'[v][i].file \/ disk'[v][n] = Part(n)
  BY DEF Newest
<1>6. CASE v # x
  <2>1. Listed(v, n)' = Listed(v, n)
    BY <1>4, <1>6 DEF Listed
  <2> QED
    BY <1>4, <1>6, <2>1 DEF Newest
<1>7. CASE v = x /\ n = name
  <2>1. Len(received[x]) + 1 \in Listed(v, n)'
    BY <1>5, <1>7 DEF Listed
  <2>2. \A j \in Listed(v, n)' : j <= Len(received[x]) + 1
    BY <1>5, <1>7 DEF Listed
  <2> QED
    BY <1>4, <1>5, <1>7, <2>1, <2>2
<1>8. CASE v = x /\ n # name
  <2>1. Listed(v, n)' = Listed(v, n)
    <3>1. \A i \in DOMAIN received'[x] :
             received'[x][i].file.name = n <=> i \in DOMAIN received[x] /\ received[x][i].file.name = n
      BY <1>2, <1>5, <1>8
    <3>2. DOMAIN received[x] \subseteq DOMAIN received'[x]
      BY <1>5
    <3> QED
      BY <1>8, <3>1, <3>2 DEF Listed
  <2>2. PICK i \in Listed(v, n) :
           /\ \A j \in Listed(v, n) : j <= i
           /\ disk[v][n] = received[v][i].file \/ disk[v][n] = Part(n)
    BY <2>1 DEF Newest
  <2>3. received'[v][i] = received[v][i]
    BY <1>5, <1>8, <2>2 DEF Listed
  <2> QED
    BY <1>4, <1>8, <2>1, <2>2, <2>3
<1> QED
  BY <1>6, <1>7, <1>8

LEMMA NewestKept ==
    ASSUME IInv, Newest, UNCHANGED received,
           \/ UNCHANGED disk
           \/ \E x \in Users, name \in Names : disk' = [disk EXCEPT ![x][name] = Part(name)]
    PROVE  Newest'
<1>1. disk \in [Users -> [Names -> Received]]
  BY DEF IInv, Typed
<1>2. \A v \in Users, n \in Names : disk'[v][n] = disk[v][n] \/ disk'[v][n] = Part(n)
  BY <1>1
<1>3. \A v, n : Listed(v, n)' = Listed(v, n)
  BY DEF Listed
<1> QED
  BY <1>2, <1>3 DEF Newest

LEMMA NewestNext ==
    ASSUME IInv, Newest, [Next]_vars
    PROVE  Newest'
<1>1. CASE \E u \in Users : Save(u)
  BY <1>1, NewestSaved
<1>2. CASE \E u \in Users : SaveFails(u)
  <2>1. PICK u \in Users : SaveFails(u)
    BY <1>2
  <2>2. Head(arrived[u]).file.name \in Names
    BY <2>1, Saved DEF SaveFails
  <2> QED
    BY <2>1, <2>2, NewestKept DEF SaveFails
<1>3. CASE UNCHANGED <<disk, received>>
  BY <1>3, NewestKept
<1>4. \/ \E u \in Users : Save(u) \/ SaveFails(u)
      \/ UNCHANGED <<disk, received>>
  BY DEF Next, vars, Open, Break, Share, Send, SendFails, Read
<1> QED
  BY <1>1, <1>2, <1>3, <1>4

LEMMA NewestMeans == IInv /\ Newest => NewestOnDisk
<1> SUFFICES ASSUME IInv, Newest, NEW v \in Users, NEW n \in Names, Listed(v, n) # {}
             PROVE  \/ disk[v][n] = received[v][Max(Listed(v, n))].file
                    \/ disk[v][n] = Part(n)
  BY DEF NewestOnDisk, Listed
<1>1. PICK i \in Listed(v, n) :
         /\ \A j \in Listed(v, n) : j <= i
         /\ disk[v][n] = received[v][i].file \/ disk[v][n] = Part(n)
  BY DEF Newest
<1>2. Listed(v, n) \subseteq Nat
  <2>1. received[v] \in Seq(Arrival)
    BY DEF IInv, Typed
  <2> QED
    BY <2>1 DEF Listed
<1>3. Max(Listed(v, n)) = i
  <2>1. \A z \in Listed(v, n) : (\A y \in Listed(v, n) : z >= y) => z = i
    BY <1>1, <1>2
  <2>2. \A y \in Listed(v, n) : i >= y
    BY <1>1, <1>2
  <2> QED
    BY <2>1, <2>2 DEF Max
<1> QED
  BY <1>1, <1>3

(* The last file listed under a name is the one on the disk, unless a later *)
(* save under that name left a part of a file there: a friend who shares a  *)
(* second file of the name replaces the first, which stays listed           *)
(* (gui.rs:1571-1580).                                                      *)
THEOREM TheNewestIsOnDisk == Spec => []NewestOnDisk
<1>1. Init => Newest
  BY DEF Init, Newest, Listed
<1>2. IInv /\ Newest /\ [Next]_vars => Newest'
  BY NewestNext
<1>3. Spec => [](IInv /\ Newest)
  BY Inductive, <1>1, <1>2, PTL DEF Spec
<1> QED
  BY <1>3, NewestMeans, PTL

-----------------------------------------------------------------------------
(* The refinement of FileDelivery. *)

LEMMA StepDelivers ==
    ASSUME IInv, [Next]_vars
    PROVE  [Delivery!Next]_<<offered, given, place>>
<1>1. CASE \E u \in Users : \E f \in Files : Share(u, f)
  <2>1. PICK u \in Users, f \in Files : Share(u, f)
    BY <1>1
  <2>2. Delivery!Offer(u)
    BY <2>1, WholeIsPartial DEF Share, Delivery!Offer, Content
  <2> QED
    BY <2>2 DEF Delivery!Next
<1>2. CASE \E w \in Ways : Read(w[1], w[2])
  <2>1. PICK w \in Ways : Read(w[1], w[2])
    BY <1>2
  <2>2. PICK u \in Users, v \in Users : <<u, v>> \in Ways /\ Read(u, v) /\ u # v
    <3>1. w[1] \in Users /\ w[2] \in Users /\ <<w[1], w[2]>> \in Ways /\ w[1] # w[2]
      BY WayParts
    <3> QED
      BY <2>1, <3>1
  <2>3. PICK st \in Seq(Stage) : Carries(u, v, st)
    BY <2>2 DEF IInv, Carried
  <2>4. UNCHANGED offered
    BY <2>2 DEF Read
  <2>5. UNCHANGED <<given, place>> \/ Given(u, v, st[1].nth)
    BY <2>2, <2>3, ReadStage
  <2>6. Given(u, v, st[1].nth) => Delivery!Give(u, v)
    BY <2>4 DEF Given, Delivery!Give
  <2> QED
    BY <2>2, <2>4, <2>5, <2>6 DEF Delivery!Next
<1>3. \/ \E u \in Users : \E f \in Files : Share(u, f)
      \/ \E w \in Ways : Read(w[1], w[2])
      \/ UNCHANGED <<offered, given, place>>
  BY DEF Next, vars, history, Open, Break, Send, SendFails, Save, SaveFails
<1> QED
  BY <1>1, <1>2, <1>3

(* A friend is given files whole, each at most once and in the order they   *)
(* were shared, whatever sends failed halfway, whatever calls broke and     *)
(* opened again, and whatever other users share at the same time: the       *)
(* chunks of two files never mix (webrtc_peer.rs:60-103, 324-336).          *)
THEOREM FilesAreDelivered == Spec => DeliversWhole
<1>1. Init => Delivery!Init
  BY DEF Init, Delivery!Init
<1>2. IInv /\ [Next]_vars => [Delivery!Next]_<<offered, given, place>>
  BY StepDelivers
<1> QED
  BY Inductive, <1>1, <1>2, PTL DEF Spec, DeliversWhole, Delivery!Spec
=============================================================================
