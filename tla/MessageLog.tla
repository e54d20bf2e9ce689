----------------------------- MODULE MessageLog ------------------------------
(***************************************************************************)
(* The signed chat log of one channel (src/src/persistence.rs), how chat   *)
(* (SIGNED) and the synchronisation of logs (VOIRC_SYNC_REQ and _RESP) feed *)
(* it (src/src/irc_client.rs, src/src/gui.rs), and the limit the embedded  *)
(* server puts on a line.  Two tasks of a client append to its log: the    *)
(* event loop what the user says, the reader what arrives.                 *)
(***************************************************************************)
EXTENDS Naturals, SequencesExt

CONSTANTS
    Nodes,         \* the clients, one nick each
    Times,         \* timestamps; every author has its own clock
    Lengths,       \* lengths of what is said
    Known,         \* the nicks whose key each client knows, all the time
    MaxMsgLen,     \* the longest line the server takes
    MaxMessages,   \* bound: messages created
    MaxStarts,     \* bound: how often programs are started, all together
    DiskMayFail,   \* whether a write can fail
    NL             \* the end of a line of the file

ASSUME BoundAssumption ==
    /\ Times \subseteq Nat \ {0} /\ Times # {}
    /\ Lengths \subseteq Nat
    /\ Known \in [Nodes -> SUBSET Nodes]
    /\ DiskMayFail \in BOOLEAN
    /\ MaxMsgLen \in Nat /\ MaxMessages \in Nat /\ MaxStarts \in Nat

(* "key": whether the signature verifies under the author's own key, under  *)
(* another one the message names for his, or under none.                   *)
SignedMessage ==
    [id : 1..MaxMessages, author : Nodes, timestamp : Times, len : Lengths,
     key : {"own", "other", "none"}]

verify(m) == m.key # "none"

ASSUME FileAssumption == NL \notin SignedMessage

Workers == Nodes \X {"loop", "reader"}
Node(w) == w[1]

VARIABLES
    online,    \* the clients that are running
    messages,  \* MessageLog.messages: the log in memory
    file,      \* the .jsonl file: the texts and line ends written to it
    task,      \* what each worker does
    inbox,     \* lines the server has sent to each client, not read yet
    joined,    \* UserJoined events the event loop has not handled yet
    shown,     \* ids of the messages each client has shown
    count,     \* how many messages have been created
    starts,    \* how many times a client has been started
    torn       \* history: whether a line of the file was ever interrupted

disk == <<file, torn>>
session == <<online, starts>>
vars == <<session, messages, disk, task, inbox, joined, shown, count>>

-----------------------------------------------------------------------------
Idle == [at |-> "idle"]

(* What an append does next, the messages to append, and what follows. *)
Tasks ==
    {Idle} \cup [at : {"text", "newline", "insert"}, todo : Seq(SignedMessage) \ {<<>>},
                 next : {"send", "show", "nothing"}]

(* Mutation: there is always a message to append. *)
LogSome(ms, next) == [at |-> "text", todo |-> ms, next |-> next]

Log(ms, next) == IF ms = <<>> THEN Idle ELSE [at |-> "text", todo |-> ms, next |-> next]

(* The key of a message is the one the client knows its author by, if any. *)
Fits(n, m) == m.author \in Known[n] => m.key = "own"

(* Line lengths, for #general and nicks of five letters: a message has 418  *)
(* bytes around its content.                                               *)
SignedLine(m) == 27 + 418 + m.len
ResponseLine(ms) == FoldLeft(LAMBDA n, m : n + 419 + m.len, 68, ms)

(* The server drops a line that is too long, and relays any other. *)
Relay(to, line, length) ==
    inbox' = [b \in Nodes |-> IF b \in to \cap online /\ length <= MaxMsgLen
                              THEN Append(inbox[b], line) ELSE inbox[b]]

(* The messages of ms that are in S, in their order: SelectSeq, written as  *)
(* a recursive function, which can be reasoned about.                      *)
Those(ms, S) ==
    LET f[i \in 0..Len(ms)] ==
            IF i = 0 THEN <<>>
            ELSE IF ms[i] \in S THEN Append(f[i - 1], ms[i]) ELSE f[i - 1]
    IN  f[Len(ms)]

Later(ms, t) == {m \in ToSet(ms) : m.timestamp > t}

Since(ms, t) == Those(ms, Later(ms, t))

Newest(ms) == IF ms = <<>> THEN 0 ELSE Last(ms).timestamp

(* Mutation: the list is not sorted again. *)
SortedUnder(ms, m) == Append(ms, m)

(* push and the stable sort_by_key. *)
Sorted(ms, m) ==
    Those(ms, ToSet(ms) \ Later(ms, m.timestamp)) \o <<m>> \o Since(ms, m.timestamp)

(* Deduplication by id. *)
Inserted(ms, m) == IF \E i \in DOMAIN ms : ms[i].id = m.id THEN ms ELSE Sorted(ms, m)

Init ==
    /\ online = {}
    /\ messages = [n \in Nodes |-> <<>>]
    /\ file = [n \in Nodes |-> <<>>]
    /\ task = [w \in Workers |-> Idle]
    /\ inbox = [n \in Nodes |-> <<>>]
    /\ joined = [n \in Nodes |-> {}]
    /\ shown = [n \in Nodes |-> {}]
    /\ count = 0
    /\ starts = 0
    /\ torn = [n \in Nodes |-> FALSE]

-----------------------------------------------------------------------------
(* The environment: programs start and end. *)

(* The log of a new program is empty: nothing calls load_channel. *)
Start(n) ==
    /\ n \notin online
    /\ starts < MaxStarts
    /\ online' = online \cup {n}
    /\ starts' = starts + 1
    /\ joined' = [b \in Nodes |-> IF b = n THEN online
                                  ELSE IF b \in online THEN joined[b] \cup {n} ELSE {}]
    /\ UNCHANGED <<messages, disk, task, inbox, shown, count>>

(* The program ends, perhaps in the middle of a line. *)
Stop(n) ==
    /\ n \in online
    /\ online' = online \ {n}
    /\ messages' = [messages EXCEPT ![n] = <<>>]
    /\ torn' = [torn EXCEPT ![n] = @ \/ \E w \in Workers : Node(w) = n /\ task[w].at = "newline"]
    /\ task' = [w \in Workers |-> IF Node(w) = n THEN Idle ELSE task[w]]
    /\ inbox' = [inbox EXCEPT ![n] = <<>>]
    /\ joined' = [joined EXCEPT ![n] = {}]
    /\ shown' = [shown EXCEPT ![n] = {}]
    /\ UNCHANGED <<file, count, starts>>

-----------------------------------------------------------------------------
(* MessageLog::append, one write or one critical section at a time. *)

At(w, s) == task[w].at = s
Message(w) == Head(task[w].todo)

(* After the append, whether it succeeded or not, the caller goes on. *)
Continue(w) ==
    LET n == Node(w)
        m == Message(w)
        after == task[w].next
    IN  /\ task' = [task EXCEPT ![w] = Log(Tail(@.todo), after)]
        /\ shown' = IF after = "nothing" THEN shown ELSE [shown EXCEPT ![n] = @ \cup {m.id}]
        /\ IF after = "send"
           THEN Relay(Nodes \ {n}, [cmd |-> "SIGNED", msg |-> m], SignedLine(m))
           ELSE UNCHANGED inbox

Interrupts(w) == \E v \in Workers : Node(v) = Node(w) /\ v # w /\ At(v, "newline")

(* writeln! writes the text and the end of the line one after the other. *)
WriteText(w) ==
    /\ At(w, "text")
    /\ file' = [file EXCEPT ![Node(w)] = Append(@, Message(w))]
    /\ torn' = [torn EXCEPT ![Node(w)] = @ \/ Interrupts(w)]
    /\ task' = [task EXCEPT ![w].at = "newline"]
    /\ UNCHANGED <<session, messages, inbox, joined, shown, count>>

(* Mutation: write! for writeln!. *)
WriteNothing(w) ==
    /\ At(w, "newline")
    /\ task' = [task EXCEPT ![w].at = "insert"]
    /\ UNCHANGED <<session, messages, disk, inbox, joined, shown, count>>

WriteNewline(w) ==
    /\ At(w, "newline")
    /\ file' = [file EXCEPT ![Node(w)] = Append(@, NL)]
    /\ task' = [task EXCEPT ![w].at = "insert"]
    /\ UNCHANGED <<session, messages, torn, inbox, joined, shown, count>>

(* Mutation: a failed write is ignored. *)
WriteFailsUnnoticed(w) ==
    /\ At(w, "text")
    /\ task' = [task EXCEPT ![w].at = "insert"]
    /\ UNCHANGED <<session, messages, disk, inbox, joined, shown, count>>

(* The disk is full, say: append returns before the insertion. *)
WriteFails(w) ==
    /\ DiskMayFail
    /\ task[w].at \in {"text", "newline"}
    /\ torn' = [torn EXCEPT ![Node(w)] = @ \/ At(w, "newline")]
    /\ Continue(w)
    /\ UNCHANGED <<session, messages, file, joined, count>>

Insert(w) ==
    /\ At(w, "insert")
    /\ messages' = [messages EXCEPT ![Node(w)] = Inserted(@, Message(w))]
    /\ Continue(w)
    /\ UNCHANGED <<session, disk, joined, count>>

-----------------------------------------------------------------------------
(* The event loop. *)

Say(n) ==
    LET w == <<n, "loop">>
    IN  /\ n \in online /\ At(w, "idle")
        /\ count < MaxMessages
        /\ \E t \in Times, l \in Lengths :
              task' = [task EXCEPT ![w] =
                          Log(<<[id |-> count + 1, author |-> n, timestamp |-> t,
                                 len |-> l, key |-> "own"]>>, "send")]
        /\ count' = count + 1
        /\ UNCHANGED <<session, messages, disk, inbox, joined, shown>>

(* UserJoined: ask the peer for what is newer than our newest message. *)
AskToSync(n, b) ==
    /\ n \in online /\ At(<<n, "loop">>, "idle")
    /\ b \in joined[n]
    /\ joined' = [joined EXCEPT ![n] = @ \ {b}]
    /\ Relay({b}, [cmd |-> "SYNC_REQ", from |-> n, to |-> b, since |-> Newest(messages[n])], 73)
    /\ UNCHANGED <<session, messages, disk, task, shown, count>>

-----------------------------------------------------------------------------
(* The reader. *)

Reads(n, cmd) ==
    /\ n \in online /\ At(<<n, "reader">>, "idle")
    /\ inbox[n] # <<>> /\ Head(inbox[n]).cmd = cmd

(* Mutation: the message is logged whether it verifies or not. *)
ReadSignedUnverified(n) ==
    /\ Reads(n, "SIGNED")
    /\ LET m == Head(inbox[n]).msg
       IN  task' = IF Fits(n, m) THEN [task EXCEPT ![<<n, "reader">>] = Log(<<m>>, "show")]
                   ELSE task
    /\ inbox' = [inbox EXCEPT ![n] = Tail(@)]
    /\ UNCHANGED <<session, messages, disk, joined, shown, count>>

ReadSigned(n) ==
    /\ Reads(n, "SIGNED")
    /\ LET m == Head(inbox[n]).msg
       IN  task' = IF Fits(n, m) /\ verify(m)
                   THEN [task EXCEPT ![<<n, "reader">>] = Log(<<m>>, "show")]
                   ELSE task
    /\ inbox' = [inbox EXCEPT ![n] = Tail(@)]
    /\ UNCHANGED <<session, messages, disk, joined, shown, count>>

(* The answer goes to the target of the request, which is the node itself. *)
ReadSyncRequest(n) ==
    /\ Reads(n, "SYNC_REQ")
    /\ LET req == Head(inbox[n])
           ms == Since(messages[n], req.since)
           resp == [cmd |-> "SYNC_RESP", from |-> n, msgs |-> ms]
           rest == [inbox EXCEPT ![n] = Tail(@)]
       IN  inbox' = IF req.from \in Known[n] /\ ResponseLine(ms) <= MaxMsgLen
                    THEN [rest EXCEPT ![req.to] = Append(@, resp)] ELSE rest
    /\ UNCHANGED <<session, messages, disk, task, joined, shown, count>>

(* process_sync_response: append what verifies, under the known key. *)
ReadSyncResponse(n) ==
    /\ Reads(n, "SYNC_RESP")
    /\ LET resp == Head(inbox[n])
           good == Those(resp.msgs, {m \in ToSet(resp.msgs) : Fits(n, m) /\ verify(m)})
       IN  task' = IF resp.from \in Known[n]
                   THEN [task EXCEPT ![<<n, "reader">>] = Log(good, "nothing")]
                   ELSE task
    /\ inbox' = [inbox EXCEPT ![n] = Tail(@)]
    /\ UNCHANGED <<session, messages, disk, joined, shown, count>>

(* A message under the nick n that is not signed with the key of n. *)
SendForeign(n) ==
    /\ count < MaxMessages
    /\ \E l \in Lengths, k \in {"other", "none"} :
          LET m == [id |-> count + 1, author |-> n, timestamp |-> CHOOSE t \in Times : TRUE,
                    len |-> l, key |-> k]
          IN  Relay(Nodes \ {n}, [cmd |-> "SIGNED", msg |-> m], SignedLine(m))
    /\ count' = count + 1
    /\ UNCHANGED <<session, messages, disk, task, joined, shown>>

-----------------------------------------------------------------------------
AppendStep(w) == WriteText(w) \/ WriteNewline(w) \/ Insert(w)

ReadLine(n) == ReadSigned(n) \/ ReadSyncRequest(n) \/ ReadSyncResponse(n)

Environment ==
    \/ \E w \in Workers : WriteFails(w)
    \/ \E n \in Nodes : Start(n) \/ Stop(n) \/ Say(n) \/ SendForeign(n)

Next ==
    \/ Environment
    \/ \E w \in Workers : AppendStep(w)
    \/ \E n \in Nodes : ReadLine(n) \/ \E b \in Nodes : AskToSync(n, b)

(* The tasks of a running program go on. *)
Fairness ==
    /\ \A w \in Workers : WF_vars(AppendStep(w))
    /\ \A n \in Nodes : WF_vars(ReadLine(n)) /\ \A b \in Nodes : WF_vars(AskToSync(n, b))

Spec == Init /\ [][Next]_vars /\ Fairness

-----------------------------------------------------------------------------
(* The logs, the files and the tasks have their types, and no append is     *)
(* under way without a message to append.                                  *)
TypeOK ==
    /\ online \subseteq Nodes
    /\ messages \in [Nodes -> Seq(SignedMessage)]
    /\ file \in [Nodes -> Seq(SignedMessage \cup {NL})]
    /\ task \in [Workers -> Tasks]
    /\ joined \in [Nodes -> SUBSET Nodes]
    /\ shown \in [Nodes -> SUBSET (1..MaxMessages)]
    /\ count \in 0..MaxMessages
    /\ torn \in [Nodes -> BOOLEAN]

(* A log holds each message once and in the order of the authors' clocks,   *)
(* however late, twice or out of order messages come: the next message is   *)
(* chained to the last entries, and the next request starts at the last.    *)
SortedOnce ==
    \A n \in Nodes : \A i, j \in DOMAIN messages[n] :
        i < j => /\ messages[n][i].timestamp <= messages[n][j].timestamp
                 /\ messages[n][i].id # messages[n][j].id

(* What is in memory has been written to the file: a program that ends at   *)
(* any moment, or cannot write, has logged nothing it did not store.        *)
WrittenFirst ==
    \A n \in Nodes : ToSet(messages[n]) \subseteq ToSet(file[n])

(* No message whose signature does not verify reaches the log or its file,  *)
(* by chat or by synchronisation.                                           *)
OnlyVerified ==
    \A n \in Nodes : \A m \in (ToSet(messages[n]) \cup ToSet(file[n])) \ {NL} : verify(m)

(* What load_channel finds: a text is a message if it has a line to itself. *)
Loadable(n) ==
    LET f == file[n]
    IN  {f[i] : i \in {j \in DOMAIN f : /\ f[j] # NL
                                        /\ j = 1 \/ f[j - 1] = NL
                                        /\ j = Len(f) \/ f[j + 1] = NL}}

(* The file of a channel can be loaded again in full unless two appends     *)
(* wrote at once or one was cut off between a text and its line end.        *)
LoadableUnlessTorn ==
    \A n \in Nodes : ~torn[n] => ToSet(file[n]) \ {NL} \subseteq Loadable(n)

-----------------------------------------------------------------------------
(* What comments and docs say and the code does not do. *)

Logged(n, id) == \E i \in DOMAIN messages[n] : messages[n][i].id = id

(* "on reconnect, peers exchange their log tail and merge by timestamp":    *)
(* when b reads a request of a, and each knows the other's key, a comes to  *)
(* have what b has and a lacks.                                             *)
Asks(a, b, id) ==
    /\ inbox[b] # <<>>
    /\ Head(inbox[b]).cmd = "SYNC_REQ" /\ Head(inbox[b]).from = a
    /\ a \in Known[b] /\ b \in Known[a]
    /\ \E i \in DOMAIN messages[b] :
          messages[b][i].id = id /\ messages[b][i].timestamp > Head(inbox[b]).since

LogsMerge ==
    \A a, b \in Nodes : \A id \in 1..MaxMessages :
        Asks(a, b, id) ~> Logged(a, id) \/ ~({a, b} \subseteq online)
=============================================================================
