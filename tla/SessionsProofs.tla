--------------------------- MODULE SessionsProofs ---------------------------
(***************************************************************************)
(* Theorems about Sessions, for every number of sessions, every hash and   *)
(* every difficulty.                                                       *)
(***************************************************************************)
EXTENDS Sessions, WellFoundedInduction, SequenceTheorems, TLAPS

-----------------------------------------------------------------------------
(* Mining. *)

LEMMA SmallestFound ==
    ASSUME NEW S \in SUBSET Nat, S # {}
    PROVE  Min(S) \in S
<1> DEFINE R == OpToRel(<, Nat)
<1>1. IsWellFoundedOn(R, Nat)
  BY NatLessThanWellFounded
<1> HIDE DEF R
<1>2. PICK x \in S : \A y \in S : ~ (<<y, x>> \in R)
  BY <1>1, WFMin
<1>3. ASSUME NEW y \in S
      PROVE  x <= y
  <2>1. x \in Nat /\ y \in Nat
    OBVIOUS
  <2>2. y < x => <<y, x>> \in R
    BY <2>1 DEF R, OpToRel
  <2> QED
    BY <1>2, <2>1, <2>2
<1> QED
  BY <1>3 DEF Min

(* What the miner comes back with meets the difficulty it was given. *)
LEMMA MinedPasses ==
    ASSUME NEW base \in Bases, NEW bits \in Nat
    PROVE  /\ mine_nick(base, bits) \in Nicks \cup {NoNick}
           /\ mine_nick(base, bits) # NoNick => check_difficulty(mine_nick(base, bits), bits)
<1> DEFINE good == {k \in 0..(MaxAttempts - 1) :
                       leading_zero_bits(Hash[<<base, k>>]) >= bits}
<1>1. CASE bits = 0
  BY <1>1 DEF mine_nick, check_difficulty, Nicks
<1>2. CASE bits # 0 /\ good = {}
  BY <1>2 DEF mine_nick
<1>3. CASE bits # 0 /\ good # {}
  <2>1. Min(good) \in good
    <3>1. good \in SUBSET Nat
      OBVIOUS
    <3> QED
      BY <1>3, <3>1, SmallestFound
  <2>2. mine_nick(base, bits) = <<base, Min(good)>>
    BY <1>3 DEF mine_nick
  <2>3. <<base, Min(good)>> \in Nicks
    BY <2>1 DEF Nicks
  <2>4. leading_zero_bits(Hash[<<base, Min(good)>>]) >= bits
    BY <2>1
  <2> QED
    BY <2>2, <2>3, <2>4 DEF check_difficulty
<1> QED
  BY <1>1, <1>2, <1>3

LEMMA BaseNames == \A n \in Nicks : BaseName(n) \in Bases
  BY DEF Nicks, BaseName

-----------------------------------------------------------------------------
(* The inductive invariant. *)

(* The screens and the miner: there is one miner at a time, it works for    *)
(* the connection that waits, and what it has found is for that connection. *)
AppTyped ==
    /\ name \in Nicks
    /\ hostLink \in Bits \cup {NoLink} /\ mining \in BOOLEAN
    /\ queued \in LinkBits \cup {NoLink} /\ mined \in Nicks \cup {NoNick}
    /\ miners \subseteq [base : Bases, bits : LinkBits]
    /\ required \in [Rooms -> Bits \cup {NoServer}]

OneMiner ==
    /\ ~mining => miners = {} /\ mined = NoNick /\ queued = NoLink
    /\ mined # NoNick => miners = {}
    /\ \A m \in miners : miners = {m} /\ queued = m.bits
    /\ mined # NoNick /\ queued # NoLink => check_difficulty(mined, queued)

AppInv == AppTyped /\ OneMiner

(* The sessions and the servers. *)
SessTyped ==
    /\ sess \in Seq(Sessions) /\ call \in 0..Len(sess) /\ replaced \subseteq DOMAIN sess
    /\ bound \in [Rooms -> SUBSET Nicks] /\ leftover \subseteq Leftovers

(* A connection made from the join screen, at once or after mining, is made *)
(* under a nick that has passed the test of the difficulty in its link.     *)
NicksChecked ==
    \A s \in DOMAIN sess :
        sess[s].checked # 0 => check_difficulty(sess[s].nick, sess[s].checked)

(* The server has accepted a HELLO only of a client that has a nick. *)
Accepted ==
    \A s \in DOMAIN sess :
        /\ sess[s].authed => sess[s].named
        /\ sess[s].at \in {"connecting", "nick"} => ~sess[s].authed

SessInv == SessTyped /\ NicksChecked /\ Accepted /\ LoopsInHand /\ BindingsAlive

IInv == AppInv /\ SessInv

-----------------------------------------------------------------------------
(* How the sessions change. *)

LEMMA NewIsSession ==
    ASSUME NEW room \in Rooms, NEW nick \in Nicks, NEW bits \in LinkBits \cup {0}
    PROVE  NewSession(room, nick, bits) \in Sessions
  BY DEF NewSession, Sessions

(* A session is added, and the call is in its hands. *)
LEMMA StartKeeps ==
    ASSUME SessInv, UNCHANGED <<bound, leftover>>,
           NEW room \in Rooms, NEW nick \in Nicks, NEW bits \in LinkBits \cup {0},
           bits # 0 => check_difficulty(nick, bits),
           Starts(room, nick, bits),
           replaced' = (IF call = 0 THEN replaced ELSE replaced \cup {call})
    PROVE  SessInv'
<1> DEFINE new == NewSession(room, nick, bits)
           n == Len(sess)
<1>1. /\ new \in Sessions /\ new.nick = nick /\ new.checked = bits /\ ~new.authed
  BY NewIsSession DEF NewSession
<1>2. /\ sess \in Seq(Sessions) /\ n \in Nat /\ DOMAIN sess = 1..n
      /\ call \in 0..n /\ replaced \subseteq 1..n
  BY DEF SessInv, SessTyped
<1>3. sess' = Append(sess, new) /\ call' = n + 1
  BY DEF Starts
<1> HIDE DEF new
<1>4. /\ sess' \in Seq(Sessions) /\ Len(sess') = n + 1 /\ DOMAIN sess' = 1..n + 1
      /\ \A s \in 1..n : sess'[s] = sess[s]
      /\ sess'[n + 1] = new
  BY <1>1, <1>2, <1>3, AppendProperties
<1>5. SessTyped'
  <2>1. call' \in 0..Len(sess') /\ replaced' \subseteq DOMAIN sess'
    BY <1>2, <1>3, <1>4
  <2> QED
    BY <1>4, <2>1 DEF SessInv, SessTyped
<1>6. NicksChecked' /\ Accepted'
  <2>1. \A s \in DOMAIN sess' : (s \in DOMAIN sess /\ sess'[s] = sess[s]) \/ sess'[s] = new
    BY <1>2, <1>4
  <2>2. \A s \in DOMAIN sess' :
            sess'[s].checked # 0 => check_difficulty(sess'[s].nick, sess'[s].checked)
    BY <1>1, <2>1 DEF SessInv, NicksChecked
  <2>3. \A s \in DOMAIN sess' :
            /\ sess'[s].authed => sess'[s].named
            /\ sess'[s].at \in {"connecting", "nick"} => ~sess'[s].authed
    BY <1>1, <2>1 DEF SessInv, Accepted
  <2> QED
    BY <2>2, <2>3 DEF NicksChecked, Accepted, check_difficulty
<1>7. LoopsInHand'
  BY <1>2, <1>3, <1>4 DEF SessInv, LoopsInHand
<1>8. BindingsAlive'
  <2>1. \A s \in DOMAIN sess : s \in DOMAIN sess' /\ sess'[s] = sess[s]
    BY <1>2, <1>4
  <2> QED
    BY <2>1 DEF SessInv, BindingsAlive, BackedBy, Room
<1> QED
  BY <1>5, <1>6, <1>7, <1>8 DEF SessInv

LEMMA StutterKeeps ==
    ASSUME SessInv, UNCHANGED <<sess, call, replaced, bound, leftover>>
    PROVE  SessInv'
  BY DEF SessInv, SessTyped, NicksChecked, Accepted, LoopsInHand, BindingsAlive, BackedBy,
         Room, check_difficulty

(* One session goes on to r. *)
LEMMA OneChanges ==
    ASSUME SessTyped, NEW s \in DOMAIN sess, NEW r \in Sessions,
           sess' = [sess EXCEPT ![s] = r]
    PROVE  /\ sess' \in Seq(Sessions) /\ DOMAIN sess' = DOMAIN sess /\ Len(sess') = Len(sess)
           /\ sess'[s] = r /\ \A t \in DOMAIN sess \ {s} : sess'[t] = sess[t]
<1>1. sess \in Seq(Sessions)
  BY DEF SessTyped
<1> QED
  BY <1>1

(* A binding in b is that of session s, once it is r, of another one, or of *)
(* a client left over.                                                      *)
OfLeftover(room, n) == room = Far /\ \E e \in leftover : e.nick = n /\ e.authed

Backed(b, s, r) ==
    /\ b \in [Rooms -> SUBSET Nicks]
    /\ \A room \in Rooms : \A n \in b[room] :
          \/ r.room = room /\ r.nick = n /\ r.authed
          \/ \E t \in DOMAIN sess \ {s} :
                Room(t) = room /\ sess[t].nick = n /\ sess[t].authed
          \/ OfLeftover(room, n)

(* The steps of a session's tasks leave what it is: its room, its nick and  *)
(* the difficulty that was asked for; and none starts a loop that is over.  *)
LEMMA TaskKeeps ==
    ASSUME SessInv, UNCHANGED <<call, replaced, leftover>>,
           NEW s \in DOMAIN sess, NEW r \in Sessions,
           sess' = [sess EXCEPT ![s] = r],
           r.nick = sess[s].nick /\ r.checked = sess[s].checked,
           r.told = sess[s].told /\ (r.loop = "over" \/ r.loop = sess[s].loop \/ sess[s].loop # "over"),
           (r.authed => r.named) /\ (r.at \in {"connecting", "nick"} => ~r.authed),
           Backed(bound', s, r)
    PROVE  SessInv'
<1>1. /\ sess' \in Seq(Sessions) /\ DOMAIN sess' = DOMAIN sess /\ Len(sess') = Len(sess)
      /\ sess'[s] = r /\ \A t \in DOMAIN sess \ {s} : sess'[t] = sess[t]
  BY OneChanges DEF SessInv
<1>2. SessTyped'
  BY <1>1 DEF SessInv, SessTyped, Backed
<1>3. NicksChecked'
  BY <1>1 DEF SessInv, NicksChecked, check_difficulty
<1>4. Accepted'
  BY <1>1 DEF SessInv, Accepted
<1>5. LoopsInHand'
  BY <1>1 DEF SessInv, LoopsInHand
<1>6. BindingsAlive'
  BY <1>1 DEF SessInv, BindingsAlive, BackedBy, Room, Backed, OfLeftover
<1> QED
  BY <1>2, <1>3, <1>4, <1>5, <1>6 DEF SessInv

LEMMA ConnectedKeeps ==
    ASSUME SessInv, NEW s \in DOMAIN sess, Connected(s)
    PROVE  SessInv'
<1>1. sess[s] \in Sessions
  BY DEF SessInv, SessTyped
<1>2. PICK r \in Sessions :
         r = [sess[s] EXCEPT !.at = "nick", !.loop = "running",
                             !.named = sess[s].nick \notin bound[Room(s)]]
  BY <1>1 DEF Sessions
<1>3. /\ sess' = [sess EXCEPT ![s] = r] /\ UNCHANGED <<call, replaced, bound, leftover>>
      /\ sess[s].at = "connecting" /\ sess[s].loop = "connecting"
  BY <1>2 DEF Connected, Session, app, server
<1>4. /\ r.nick = sess[s].nick /\ r.checked = sess[s].checked /\ r.room = sess[s].room
      /\ r.told = sess[s].told /\ r.authed = sess[s].authed /\ r.at = "nick"
  BY <1>1, <1>2 DEF Sessions
<1>5. ~r.authed
  BY <1>3, <1>4 DEF SessInv, Accepted
<1>6. \A room \in Rooms : \A n \in bound'[room] :
          \/ r.room = room /\ r.nick = n /\ r.authed
          \/ \E t \in DOMAIN sess \ {s} :
                Room(t) = room /\ sess[t].nick = n /\ sess[t].authed
          \/ OfLeftover(room, n)
  BY <1>3, <1>4 DEF SessInv, BindingsAlive, BackedBy, OfLeftover, Room
<1>7. bound' \in [Rooms -> SUBSET Nicks]
  BY <1>3 DEF SessInv, SessTyped
<1>8. Backed(bound', s, r)
  BY <1>6, <1>7 DEF Backed
<1> QED
  BY <1>3, <1>4, <1>5, <1>8, TaskKeeps

LEMMA LoopOverKeeps ==
    ASSUME SessInv, NEW s \in DOMAIN sess, ConnectFails(s) \/ LoopEnds(s)
    PROVE  SessInv'
<1>1. sess[s] \in Sessions
  BY DEF SessInv, SessTyped
<1>2. PICK r \in Sessions :
         /\ sess' = [sess EXCEPT ![s] = r]
         /\ r.nick = sess[s].nick /\ r.checked = sess[s].checked /\ r.room = sess[s].room
         /\ r.told = sess[s].told /\ r.authed = sess[s].authed /\ r.named = sess[s].named
         /\ r.loop = "over" /\ (r.at = sess[s].at \/ sess[s].at = "connecting")
  <2>1. CASE ConnectFails(s)
    <3>1. [sess[s] EXCEPT !.at = "lost", !.loop = "over"] \in Sessions
      BY <1>1 DEF Sessions
    <3> QED
      BY <1>1, <2>1, <3>1 DEF ConnectFails, Session, Sessions
  <2>2. CASE LoopEnds(s)
    <3>1. [sess[s] EXCEPT !.loop = "over"] \in Sessions
      BY <1>1 DEF Sessions
    <3> QED
      BY <1>1, <2>2, <3>1 DEF LoopEnds, Session, Sessions
  <2> QED
    BY <2>1, <2>2
<1>3. UNCHANGED <<call, replaced, bound, leftover>>
  BY DEF ConnectFails, LoopEnds, app, server
<1>4. (r.authed => r.named) /\ (r.at \in {"connecting", "nick"} => ~r.authed)
  BY <1>2 DEF SessInv, Accepted
<1>5. \A room \in Rooms : \A n \in bound'[room] :
          \/ r.room = room /\ r.nick = n /\ r.authed
          \/ \E t \in DOMAIN sess \ {s} :
                Room(t) = room /\ sess[t].nick = n /\ sess[t].authed
          \/ OfLeftover(room, n)
  BY <1>2, <1>3 DEF SessInv, BindingsAlive, BackedBy, OfLeftover, Room
<1>6. bound' \in [Rooms -> SUBSET Nicks]
  BY <1>3 DEF SessInv, SessTyped
<1>7. Backed(bound', s, r)
  BY <1>5, <1>6 DEF Backed
<1>8. /\ r.nick = sess[s].nick /\ r.checked = sess[s].checked /\ r.told = sess[s].told
      /\ r.loop = "over" /\ sess' = [sess EXCEPT ![s] = r]
  BY <1>2
<1> QED
  BY <1>3, <1>4, <1>7, <1>8, TaskKeeps

LEMMA HelloKeeps ==
    ASSUME SessInv, NEW s \in DOMAIN sess, Hello(s)
    PROVE  SessInv'
<1> DEFINE accepted == sess[s].named /\ check_difficulty(sess[s].nick, required[Room(s)])
<1>1. sess[s] \in Sessions /\ sess[s].at = "nick" /\ ~sess[s].authed
  BY DEF SessInv, SessTyped, Accepted, Hello
<1>2. PICK r \in Sessions : r = [sess[s] EXCEPT !.at = "hello", !.authed = accepted]
  BY <1>1 DEF Sessions, check_difficulty
<1>3. /\ sess' = [sess EXCEPT ![s] = r] /\ UNCHANGED <<call, replaced, leftover>>
      /\ bound' = [bound EXCEPT ![Room(s)] = IF accepted THEN @ \cup {sess[s].nick} ELSE @]
  BY <1>2 DEF Hello, Session, app
<1> HIDE DEF accepted
<1>4. /\ r.nick = sess[s].nick /\ r.checked = sess[s].checked /\ r.room = sess[s].room
      /\ r.told = sess[s].told /\ r.loop = sess[s].loop /\ r.named = sess[s].named
      /\ r.at = "hello" /\ r.authed = accepted
  BY <1>1, <1>2 DEF Sessions
<1>5. r.authed => r.named
  BY <1>4 DEF accepted
<1>6. bound \in [Rooms -> SUBSET Nicks] /\ Room(s) \in Rooms /\ sess[s].nick \in Nicks
  BY <1>1 DEF SessInv, SessTyped, Sessions, Room
<1>7. bound' \in [Rooms -> SUBSET Nicks]
  BY <1>3, <1>6
<1>8. ASSUME NEW room \in Rooms, NEW n \in bound'[room]
      PROVE  \/ r.room = room /\ r.nick = n /\ r.authed
             \/ \E t \in DOMAIN sess \ {s} :
                   Room(t) = room /\ sess[t].nick = n /\ sess[t].authed
             \/ OfLeftover(room, n)
  <2>1. n \in bound[room] \/ (accepted /\ room = Room(s) /\ n = sess[s].nick)
    BY <1>3, <1>6, <1>8
  <2>2. CASE n \in bound[room]
    BY <1>1, <2>2 DEF SessInv, BindingsAlive, BackedBy, OfLeftover
  <2> QED
    BY <1>4, <2>1, <2>2 DEF Room
<1>9. Backed(bound', s, r)
  BY <1>7, <1>8 DEF Backed
<1>10. r.at \in {"connecting", "nick"} => ~r.authed
  BY <1>4
<1> QED
  BY <1>3, <1>4, <1>5, <1>9, <1>10, TaskKeeps

LEMMA JoinKeeps ==
    ASSUME SessInv, NEW s \in DOMAIN sess, Join(s)
    PROVE  SessInv'
<1>1. sess[s] \in Sessions
  BY DEF SessInv, SessTyped
<1>2. PICK r \in Sessions : r = [sess[s] EXCEPT !.at = "join", !.member = sess[s].named]
  BY <1>1 DEF Sessions
<1>3. sess' = [sess EXCEPT ![s] = r] /\ UNCHANGED <<call, replaced, bound, leftover>>
  BY <1>2 DEF Join, Session, app, server
<1>4. /\ r.nick = sess[s].nick /\ r.checked = sess[s].checked /\ r.room = sess[s].room
      /\ r.told = sess[s].told /\ r.loop = sess[s].loop /\ r.named = sess[s].named
      /\ r.at = "join" /\ r.authed = sess[s].authed
  BY <1>1, <1>2 DEF Sessions
<1>5. r.authed => r.named
  BY <1>4 DEF SessInv, Accepted
<1>6. \A room \in Rooms : \A n \in bound'[room] :
          \/ r.room = room /\ r.nick = n /\ r.authed
          \/ \E t \in DOMAIN sess \ {s} :
                Room(t) = room /\ sess[t].nick = n /\ sess[t].authed
          \/ OfLeftover(room, n)
  BY <1>3, <1>4 DEF SessInv, BindingsAlive, BackedBy, OfLeftover, Room
<1>7. bound' \in [Rooms -> SUBSET Nicks]
  BY <1>3 DEF SessInv, SessTyped
<1>8. Backed(bound', s, r)
  BY <1>6, <1>7 DEF Backed
<1> QED
  BY <1>3, <1>4, <1>5, <1>8, TaskKeeps

(* A client that has gone stays until the server comes to its end.          *)
LEMMA LostKeeps ==
    ASSUME SessInv, NEW s \in DOMAIN sess, ConnectionLost(s)
    PROVE  SessInv'
<1>1. sess[s] \in Sessions
  BY DEF SessInv, SessTyped
<1>2. PICK r \in Sessions : r = [sess[s] EXCEPT !.at = "lost"]
  BY <1>1 DEF Sessions
<1>3. sess' = [sess EXCEPT ![s] = r] /\ UNCHANGED <<call, replaced, bound, leftover>>
  BY <1>2 DEF ConnectionLost, Session, app, server
<1>4. /\ r.nick = sess[s].nick /\ r.checked = sess[s].checked /\ r.room = sess[s].room
      /\ r.told = sess[s].told /\ r.loop = sess[s].loop /\ r.named = sess[s].named
      /\ r.at = "lost" /\ r.authed = sess[s].authed
  BY <1>1, <1>2 DEF Sessions
<1>5. r.authed => r.named
  BY <1>4 DEF SessInv, Accepted
<1>6. \A room \in Rooms : \A n \in bound'[room] :
          \/ r.room = room /\ r.nick = n /\ r.authed
          \/ \E t \in DOMAIN sess \ {s} :
                Room(t) = room /\ sess[t].nick = n /\ sess[t].authed
          \/ OfLeftover(room, n)
  BY <1>3, <1>4 DEF SessInv, BindingsAlive, BackedBy, OfLeftover, Room
<1>7. bound' \in [Rooms -> SUBSET Nicks]
  BY <1>3 DEF SessInv, SessTyped
<1>8. Backed(bound', s, r)
  BY <1>6, <1>7 DEF Backed
<1> QED
  BY <1>3, <1>4, <1>5, <1>8, TaskKeeps

(* The server lets go of the nick of a client that is gone: whoever else is *)
(* bound under it has a connection of his own.                             *)
LEMMA CleanupKeeps ==
    ASSUME SessInv, NEW s \in DOMAIN sess, ServerCleansUp(s)
    PROVE  SessInv'
<1>1. sess[s] \in Sessions
  BY DEF SessInv, SessTyped
<1>2. PICK r \in Sessions :
         r = [sess[s] EXCEPT !.named = FALSE, !.authed = FALSE, !.member = FALSE]
  BY <1>1 DEF Sessions
<1>3. /\ sess' = [sess EXCEPT ![s] = r] /\ UNCHANGED <<call, replaced, leftover>>
      /\ bound' = [bound EXCEPT ![Room(s)] = Released(s, @)]
  BY <1>2 DEF ServerCleansUp, Session, app
<1>4. /\ r.nick = sess[s].nick /\ r.checked = sess[s].checked /\ r.room = sess[s].room
      /\ r.told = sess[s].told /\ r.loop = sess[s].loop /\ ~r.authed
  BY <1>1, <1>2 DEF Sessions
<1>5. bound \in [Rooms -> SUBSET Nicks] /\ Room(s) \in Rooms
  BY <1>1 DEF SessInv, SessTyped, Sessions, Room
<1>6. bound' \in [Rooms -> SUBSET Nicks]
  BY <1>3, <1>5 DEF Released
<1>7. ASSUME NEW room \in Rooms, NEW n \in bound'[room]
      PROVE  \/ \E t \in DOMAIN sess \ {s} :
                    Room(t) = room /\ sess[t].nick = n /\ sess[t].authed
             \/ OfLeftover(room, n)
  <2>1. /\ n \in bound[room]
        /\ room = Room(s) /\ sess[s].named => n # sess[s].nick
    BY <1>3, <1>5, <1>7 DEF Released
  <2>2. CASE OfLeftover(room, n)
    BY <2>2
  <2>3. ASSUME NEW t \in DOMAIN sess, Room(t) = room, sess[t].nick = n, sess[t].authed
        PROVE  t # s
    BY <2>1, <2>3 DEF SessInv, Accepted
  <2> QED
    BY <2>1, <2>2, <2>3 DEF SessInv, BindingsAlive, BackedBy, OfLeftover
<1>8. Backed(bound', s, r)
  BY <1>6, <1>7 DEF Backed
<1> QED
  BY <1>3, <1>4, <1>8, TaskKeeps

LEMMA LeftoverKeeps ==
    ASSUME SessInv, NEW e \in leftover, LeftoverCleanedUp(e)
    PROVE  SessInv'
<1>1. /\ UNCHANGED <<call, replaced, sess>> /\ leftover' \in {leftover, leftover \ {e}}
      /\ bound' = [bound EXCEPT ![Far] = @ \ {e.nick}]
  BY DEF LeftoverCleanedUp, app
<1>2. bound \in [Rooms -> SUBSET Nicks] /\ leftover \subseteq Leftovers
  BY DEF SessInv, SessTyped
<1>3. SessTyped'
  BY <1>1, <1>2 DEF SessInv, SessTyped
<1>4. NicksChecked' /\ Accepted' /\ LoopsInHand'
  BY <1>1 DEF SessInv, NicksChecked, Accepted, LoopsInHand, check_difficulty
<1>5. ASSUME NEW room \in Rooms, NEW n \in bound'[room]
      PROVE  BackedBy(room, n)'
  <2>1. n \in bound[room] /\ (room = Far => n # e.nick)
    BY <1>1, <1>2, <1>5
  <2>2. CASE OfLeftover(room, n)
    BY <1>1, <2>1, <2>2 DEF OfLeftover, BackedBy
  <2>3. CASE ~OfLeftover(room, n)
    BY <1>1, <2>1, <2>3 DEF SessInv, BindingsAlive, BackedBy, OfLeftover, Room
  <2> QED
    BY <2>2, <2>3
<1> QED
  BY <1>3, <1>4, <1>5 DEF SessInv, BindingsAlive

(* The user hangs up, or ends the program. *)
LEMMA DisconnectKeeps ==
    ASSUME SessInv, Disconnect
    PROVE  SessInv'
<1>1. /\ sess \in Seq(Sessions) /\ call \in 1..Len(sess) /\ call' = 0
      /\ sess' = [sess EXCEPT ![call].told = TRUE] /\ UNCHANGED <<replaced, bound, leftover>>
  BY DEF SessInv, SessTyped, Disconnect, server
<1>2. sess[call] \in Sessions /\ call \in DOMAIN sess
  BY <1>1
<1>3. PICK r \in Sessions : r = [sess[call] EXCEPT !.told = TRUE]
  BY <1>2 DEF Sessions
<1>4. sess' = [sess EXCEPT ![call] = r]
  BY <1>1, <1>3
<1>5. /\ sess' \in Seq(Sessions) /\ DOMAIN sess' = DOMAIN sess /\ Len(sess') = Len(sess)
      /\ sess'[call] = r /\ \A t \in DOMAIN sess \ {call} : sess'[t] = sess[t]
  BY <1>2, <1>4, OneChanges DEF SessInv
<1>6. /\ r.nick = sess[call].nick /\ r.checked = sess[call].checked /\ r.told
      /\ r.room = sess[call].room /\ r.authed = sess[call].authed
      /\ r.named = sess[call].named /\ r.at = sess[call].at
  BY <1>2, <1>3 DEF Sessions
<1>7. SessTyped'
  BY <1>1, <1>5 DEF SessInv, SessTyped
<1>8. NicksChecked'
  BY <1>5, <1>6 DEF SessInv, NicksChecked, check_difficulty
<1>9. Accepted'
  BY <1>5, <1>6 DEF SessInv, Accepted
<1>10. LoopsInHand'
  BY <1>1, <1>5, <1>6 DEF SessInv, LoopsInHand
<1>11. BindingsAlive'
  <2>1. \A s \in DOMAIN sess : /\ sess'[s].room = sess[s].room /\ sess'[s].nick = sess[s].nick
                               /\ sess'[s].authed = sess[s].authed
    BY <1>5, <1>6
  <2> QED
    BY <1>1, <1>5, <2>1 DEF SessInv, BindingsAlive, BackedBy, OfLeftover, Room
<1> QED
  BY <1>7, <1>8, <1>9, <1>10, <1>11 DEF SessInv

LEMMA RestartKeeps ==
    ASSUME SessInv, Restart
    PROVE  SessInv'
<1> DEFINE gone == {[nick |-> sess[s].nick, authed |-> sess[s].authed] : s \in Abandoned}
<1>1. /\ sess' = <<>> /\ call' = 0 /\ replaced' = {}
      /\ bound' = [bound EXCEPT ![Own] = {}] /\ leftover' = leftover \cup gone
  BY DEF Restart, ServersGoOn
<1>2. bound \in [Rooms -> SUBSET Nicks] /\ \A s \in DOMAIN sess : sess[s] \in Sessions
  BY DEF SessInv, SessTyped
<1>3. gone \subseteq Leftovers
  BY <1>2 DEF Abandoned, Leftovers, Sessions
<1>4. SessTyped'
  <2> HIDE DEF gone
  <2>1. sess' \in Seq(Sessions) /\ Len(sess') = 0 /\ DOMAIN sess' = {}
    BY <1>1
  <2>2. leftover' \subseteq Leftovers
    BY <1>1, <1>3 DEF SessInv, SessTyped
  <2>3. bound' \in [Rooms -> SUBSET Nicks]
    BY <1>1, <1>2
  <2> QED
    BY <1>1, <2>1, <2>2, <2>3 DEF SessTyped
<1>5. ASSUME NEW room \in Rooms, NEW n \in bound'[room]
      PROVE  BackedBy(room, n)'
  <2>1. room = Far /\ n \in bound[Far]
    BY <1>1, <1>2, <1>5, SessionsAssumption DEF Rooms
  <2>2. CASE OfLeftover(Far, n)
    BY <1>1, <2>1, <2>2 DEF OfLeftover, BackedBy
  <2>3. ASSUME NEW s \in DOMAIN sess, Room(s) = Far, sess[s].nick = n, sess[s].authed
        PROVE  BackedBy(room, n)'
    <3>1. s \in Abandoned
      BY <2>3 DEF Abandoned, SessInv, Accepted
    <3>2. [nick |-> n, authed |-> TRUE] \in gone
      <4>1. sess[s].authed = TRUE
        BY <1>2, <2>3 DEF Sessions
      <4> QED
        BY <2>3, <3>1, <4>1
    <3>3. [nick |-> n, authed |-> TRUE] \in leftover'
      BY <1>1, <3>2
    <3> QED
      BY <2>1, <3>3 DEF BackedBy
  <2> QED
    BY <2>1, <2>2, <2>3 DEF SessInv, BindingsAlive, BackedBy, OfLeftover
<1> QED
  BY <1>1, <1>4, <1>5 DEF SessInv, NicksChecked, Accepted, LoopsInHand, BindingsAlive

-----------------------------------------------------------------------------
(* Every step keeps the invariant. *)

LEMMA TaskStepKeeps ==
    ASSUME IInv, NEW s \in DOMAIN sess, TaskStep(s) \/ ConnectionLost(s) \/ ServerCleansUp(s)
    PROVE  IInv'
<1>1. SessInv'
  BY ConnectedKeeps, LoopOverKeeps, HelloKeeps, JoinKeeps, LostKeeps, CleanupKeeps DEF IInv, TaskStep
<1>2. UNCHANGED <<name, hostLink, mining, queued, miners, mined, required>>
  BY DEF TaskStep, Connected, ConnectFails, Hello, Join, LoopEnds, ConnectionLost,
         ServerCleansUp, app, server
<1>3. AppInv'
  BY <1>2 DEF IInv, AppInv, AppTyped, OneMiner, check_difficulty
<1> QED
  BY <1>1, <1>3 DEF IInv

LEMMA LeftoverStepKeeps ==
    ASSUME IInv, NEW e \in leftover, LeftoverCleanedUp(e)
    PROVE  IInv'
<1>1. SessInv'
  BY LeftoverKeeps DEF IInv
<1>2. UNCHANGED <<name, hostLink, mining, queued, miners, mined, required>>
  BY DEF LeftoverCleanedUp, app
<1>3. AppInv'
  BY <1>2 DEF IInv, AppInv, AppTyped, OneMiner, check_difficulty
<1> QED
  BY <1>1, <1>3 DEF IInv

(* Whoever is not in a call connects. *)
LEMMA ConnectKeeps ==
    ASSUME IInv, InMenu, UNCHANGED <<replaced, bound, leftover>>,
           NEW room \in Rooms, NEW nick \in Nicks, NEW bits \in LinkBits \cup {0},
           bits # 0 => check_difficulty(nick, bits),
           connect_to_server(room, nick, bits)
    PROVE  SessInv'
<1>1. CASE Starts(room, nick, bits)
  <2>1. replaced' = (IF call = 0 THEN replaced ELSE replaced \cup {call})
    BY DEF InMenu
  <2> QED
    BY <1>1, <2>1, StartKeeps DEF IInv
<1>2. CASE NoSound
  BY <1>2, StutterKeeps DEF IInv, NoSound
<1> QED
  BY <1>1, <1>2 DEF connect_to_server

LEMMA UserKeeps ==
    ASSUME IInv, UserStep
    PROVE  IInv'
<1>0. AppTyped /\ OneMiner
  BY DEF IInv, AppInv
<1>1. ASSUME LeaveHostSetup \/ \E n \in TypedNames : SaveSettings(n)
      PROVE  IInv'
  <2>1. SessInv'
    BY <1>1, StutterKeeps DEF IInv, LeaveHostSetup, SaveSettings, server
  <2>2. AppTyped'
    BY <1>0, <1>1, SessionsAssumption DEF AppTyped, LeaveHostSetup, SaveSettings, server
  <2>3. OneMiner'
    BY <1>0, <1>1 DEF OneMiner, LeaveHostSetup, SaveSettings, check_difficulty
  <2> QED
    BY <2>1, <2>2, <2>3 DEF IInv, AppInv
<1>2. ASSUME NEW b \in Bits, StartHosting(b)
      PROVE  IInv'
  <2>1. SessInv'
    BY <1>2, StutterKeeps DEF IInv, StartHosting
  <2>2. AppTyped'
    BY <1>0, <1>2 DEF AppTyped, StartHosting
  <2>3. OneMiner'
    BY <1>0, <1>2 DEF OneMiner, StartHosting, check_difficulty
  <2> QED
    BY <2>1, <2>2, <2>3 DEF IInv, AppInv
<1>3. ASSUME NEW room \in Rooms, NEW bits \in LinkBits \cup {0},
             bits # 0 => check_difficulty(name, bits),
             InMenu, connect_to_server(room, name, bits),
             UNCHANGED <<name, hostLink, mining, queued, miners, mined, replaced, server>>
      PROVE  IInv'
  <2>1. SessInv'
    <3>1. name \in Nicks
      BY <1>0 DEF AppTyped
    <3> QED
      BY <1>3, <3>1, ConnectKeeps DEF server
  <2>2. AppTyped' /\ OneMiner'
    BY <1>0, <1>3 DEF AppTyped, OneMiner, check_difficulty, server
  <2> QED
    BY <2>1, <2>2 DEF IInv, AppInv
<1>4. CASE JoinOwnRoom
  BY <1>3, <1>4 DEF JoinOwnRoom, Rooms
<1>5. CASE \E b \in LinkBits : JoinRoom(b)
  BY <1>3, <1>5 DEF JoinRoom, MayConnect, Rooms
<1>6. CASE \E r \in Rooms : PickRecent(r)
  BY <1>3, <1>6 DEF PickRecent
<1>7. ASSUME NEW b \in LinkBits, JoinRoomMining(b)
      PROVE  IInv'
  <2>1. SessInv'
    BY <1>7, StutterKeeps DEF IInv, JoinRoomMining, server
  <2>2. AppTyped'
    BY <1>0, <1>7, BaseNames DEF AppTyped, JoinRoomMining, server
  <2>3. OneMiner'
    BY <1>0, <1>7 DEF OneMiner, JoinRoomMining, MayConnect, check_difficulty
  <2> QED
    BY <2>1, <2>2, <2>3 DEF IInv, AppInv
<1>8. CASE Disconnect
  <2>1. SessInv'
    BY <1>8, DisconnectKeeps DEF IInv
  <2>2. AppTyped' /\ OneMiner'
    BY <1>0, <1>8 DEF AppTyped, OneMiner, Disconnect, check_difficulty, server
  <2> QED
    BY <2>1, <2>2 DEF IInv, AppInv
<1>9. CASE Restart
  <2>1. SessInv'
    BY <1>9, RestartKeeps DEF IInv
  <2>2. AppTyped' /\ OneMiner'
    BY <1>0, <1>9 DEF AppTyped, OneMiner, Restart, ServersGoOn
  <2> QED
    BY <2>1, <2>2 DEF IInv, AppInv
<1> QED
  BY <1>1, <1>2, <1>4, <1>5, <1>6, <1>7, <1>8, <1>9 DEF UserStep

LEMMA MineKeeps ==
    ASSUME IInv, NEW m \in miners, MineEnds(m)
    PROVE  IInv'
<1>0. AppTyped /\ OneMiner
  BY DEF IInv, AppInv
<1>1. m.base \in Bases /\ m.bits \in LinkBits /\ m.bits \in Nat
  BY <1>0, SessionsAssumption DEF AppTyped
<1>2. /\ mine_nick(m.base, m.bits) \in Nicks \cup {NoNick}
      /\ mine_nick(m.base, m.bits) # NoNick =>
             check_difficulty(mine_nick(m.base, m.bits), m.bits)
  BY <1>1, MinedPasses
<1>3. /\ mined' = mine_nick(m.base, m.bits) /\ miners' = {}
      /\ queued = m.bits /\ mining
      /\ UNCHANGED <<name, hostLink, mining, queued, required>>
  BY <1>0 DEF OneMiner, MineEnds, server
<1>4. AppTyped'
  BY <1>0, <1>2, <1>3 DEF AppTyped
<1>5. OneMiner'
  <2>1. mined' # NoNick => check_difficulty(mined', queued')
    BY <1>2, <1>3
  <2>2. mining' = mining
    BY <1>3
  <2> QED
    BY <1>3, <2>1, <2>2 DEF OneMiner, check_difficulty
<1>6. SessInv'
  BY StutterKeeps DEF IInv, MineEnds, server
<1> QED
  BY <1>4, <1>5, <1>6 DEF IInv, AppInv

LEMMA PollKeeps ==
    ASSUME IInv, Poll
    PROVE  IInv'
<1>0. AppTyped /\ OneMiner /\ SessInv
  BY DEF IInv, AppInv
<1>1. /\ mined # NoNick /\ mined \in Nicks /\ miners = {}
      /\ mined' = NoNick /\ mining' = FALSE /\ name' = mined /\ queued' = NoLink
      /\ UNCHANGED <<hostLink, miners, required, bound, leftover>>
  BY <1>0 DEF Poll, AppTyped, OneMiner, server
<1>2. AppTyped' /\ OneMiner'
  BY <1>0, <1>1 DEF AppTyped, OneMiner, check_difficulty
<1>3. SessInv'
  <2>1. CASE UNCHANGED <<sess, call>>
    <3>1. replaced' = replaced
      BY <2>1 DEF Poll
    <3> QED
      BY <1>0, <1>1, <2>1, <3>1, StutterKeeps
  <2>2. CASE queued # NoLink /\ Starts(Far, mined, queued)
    <3>1. queued \in LinkBits /\ check_difficulty(mined, queued)
      BY <1>0, <1>1, <2>2 DEF AppTyped, OneMiner
    <3>2. replaced' = (IF call = 0 THEN replaced ELSE replaced \cup {call})
      <4>1. call' # call
        BY <1>0, <2>2 DEF Starts, SessInv, SessTyped
      <4> QED
        BY <4>1 DEF Poll
    <3>3. Far \in Rooms
      BY DEF Rooms
    <3> QED
      BY <1>0, <1>1, <2>2, <3>1, <3>2, <3>3, StartKeeps
  <2> QED
    BY <2>1, <2>2 DEF Poll, connect_to_server, NoSound
<1> QED
  BY <1>2, <1>3 DEF IInv, AppInv

LEMMA InitIInv == Init => IInv
<1> SUFFICES ASSUME Init PROVE IInv
  OBVIOUS
<1>1. AppInv
  BY SessionsAssumption DEF Init, AppInv, AppTyped, OneMiner
<1>2. SessInv
  BY DEF Init, SessInv, SessTyped, NicksChecked, Accepted, LoopsInHand, BindingsAlive
<1> QED
  BY <1>1, <1>2 DEF IInv

LEMMA NextIInv == IInv /\ [Next]_vars => IInv'
<1> SUFFICES ASSUME IInv, [Next]_vars PROVE IInv'
  OBVIOUS
<1>1. CASE UNCHANGED vars
  <2>1. SessInv'
    BY <1>1, StutterKeeps DEF IInv, vars, app, server
  <2>2. AppInv'
    BY <1>1 DEF IInv, AppInv, AppTyped, OneMiner, vars, app, server, check_difficulty
  <2> QED
    BY <2>1, <2>2 DEF IInv
<1>2. CASE Next
  BY <1>2, UserKeeps, MineKeeps, PollKeeps, TaskStepKeeps, LeftoverStepKeeps DEF Next, Mine
<1> QED
  BY <1>1, <1>2

LEMMA Inductive == Spec => []IInv
  BY InitIInv, NextIInv, PTL DEF Spec

-----------------------------------------------------------------------------
(* Theorems. *)

(* The user's name is always a nick, the screens, the miner and the bindings *)
(* of the servers have their types, and call_state is one of the sessions of *)
(* this run of the program (gui.rs:102-133, 1109-1122).                     *)
THEOREM TypeCorrect == Spec => []TypeOK
<1>1. IInv => TypeOK
  BY DEF IInv, AppInv, AppTyped, SessInv, SessTyped, TypeOK
<1> QED
  BY Inductive, <1>1, PTL

(* There is never an event loop that nobody can stop: each one has been told *)
(* to end or belongs to the call screen, but those whose call a mined nick  *)
(* has replaced (gui.rs:482-485, 1109-1122, 1825-1845).                     *)
THEOREM EveryLoopInHand == Spec => []LoopsInHand
<1>1. IInv => LoopsInHand
  BY DEF IInv, SessInv
<1> QED
  BY Inductive, <1>1, PTL

(* A nick is bound to this user only for a client of his that said HELLO     *)
(* under it and is still in the server's table, whichever clients had the   *)
(* nick, however they ended and however often the program did: the cleanup  *)
(* leaves no binding behind.  Where no cleanup runs, after a read error, the *)
(* client stays in the table, and the binding with it (irc_server.rs:165,   *)
(* 177-205, irc_client.rs:150-161).                                         *)
THEOREM BindingsBacked == Spec => []BindingsAlive
<1>1. IInv => BindingsAlive
  BY DEF IInv, SessInv
<1> QED
  BY Inductive, <1>1, PTL

(* Whoever connects from the join screen does so under a nick that passes   *)
(* the test of the link's difficulty, whatever he does to his name and to   *)
(* the screens while the miner runs: what the miner finds is for the link   *)
(* that waits for it and for no other (gui.rs:868-924, 1825-1845;           *)
(* pow.rs:112-142).                                                         *)
THEOREM NicksPass == Spec => []NicksChecked
<1>1. IInv => NicksChecked
  BY DEF IInv, SessInv
<1> QED
  BY Inductive, <1>1, PTL

(* So his nick is as strong as the link asks, if a count of leading zero    *)
(* bits bounds the hash as it should.  That is arithmetic of powers of two, *)
(* of which the provers know nothing; MCSessions has TLC evaluate it.       *)
COROLLARY StrongNicks ==
    ASSUME \A nick \in Nicks, bits \in LinkBits : check_difficulty(nick, bits) => Meets(nick, bits)
    PROVE  Spec => []StrongEnough
<1>1. ASSUME IInv, NEW s \in DOMAIN sess, sess[s].checked # 0
      PROVE  Meets(sess[s].nick, sess[s].checked)
  <2>1. sess[s].nick \in Nicks /\ sess[s].checked \in LinkBits
    <3>1. sess[s] \in Sessions
      BY <1>1 DEF IInv, SessInv, SessTyped
    <3> QED
      BY <1>1, <3>1 DEF Sessions
  <2>2. check_difficulty(sess[s].nick, sess[s].checked)
    BY <1>1 DEF IInv, SessInv, NicksChecked
  <2> QED
    BY <2>1, <2>2
<1>2. IInv => StrongEnough
  BY <1>1 DEF StrongEnough
<1> QED
  BY Inductive, <1>2, PTL
=============================================================================
