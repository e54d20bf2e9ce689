----------------------------- MODULE ServerLock ------------------------------
(***************************************************************************)
(* The lock around the state of the embedded server (src/src/irc_server.rs): *)
(* a tokio RwLock, which serves requests first come, first served.  A      *)
(* request that finds others waiting waits behind them, a read too, so     *)
(* that readers cannot starve a writer.  What each handler does with the   *)
(* lock is a sequence of operations: "read" and "write" acquire a guard,   *)
(* "drop" releases the guard taken last.                                   *)
(***************************************************************************)
EXTENDS Naturals, Sequences, FiniteSets

CONSTANTS
    Conns,      \* the tasks of the connections
    Listener,   \* the accept loop
    NoTask

Workers == Conns \cup {Listener}

ASSUME WorkerAssumption == Listener \notin Conns /\ NoTask \notin Workers

VARIABLES
    todo,     \* the lock operations left to each task's handler
    readers,  \* how many read guards each task holds
    writer,   \* the task that holds the write guard
    queue     \* waiting requests, oldest first

lockVars == <<todo, readers, writer, queue>>

Ops == {"read", "write", "drop"}
Requests == [task : Workers, mode : {"read", "write"}]

-----------------------------------------------------------------------------
(* The handlers, one operator per shape; nesting is a guard held meanwhile. *)

Guarded(mode, body) == <<mode>> \o body \o <<"drop">>

ReadSection == Guarded("read", <<>>)
WriteSection == Guarded("write", <<>>)

(* The caps of the accept loop; CAP, USER, PING, PRIVMSG; and send_notice. *)
CapCheck == ReadSection
Query == ReadSection
SendNotice == ReadSection

(* The insertion, NICK, KICK, PART and the cleanup. *)
Update == WriteSection

(* JOIN and VOIRC_POW_SET look first and change afterwards. *)
LookThenChange == ReadSection \o WriteSection

(* handle_hello.  The nick check and the difficulty check send their notice *)
(* while they hold the guard they read the state under.                    *)
HelloUnsigned == SendNotice
HelloMismatch == Guarded("read", SendNotice)
HelloWeak == ReadSection \o Guarded("read", SendNotice)
HelloAccepted == ReadSection \o ReadSection \o WriteSection

Hellos == {HelloUnsigned, HelloMismatch, HelloWeak, HelloAccepted}

Handlers(t) ==
    IF t = Listener THEN {CapCheck} ELSE {Query, Update, LookThenChange} \cup Hellos

-----------------------------------------------------------------------------
Waiting(t) == \E i \in DOMAIN queue : queue[i].task = t

Idle(t) == todo[t] = <<>>

(* Mutation: a Mutex for the RwLock. *)
CompatibleAlone(mode) ==
    mode \in {"read", "write"} /\ writer = NoTask /\ \A t \in Workers : readers[t] = 0

Compatible(mode) ==
    /\ writer = NoTask
    /\ mode = "write" => \A t \in Workers : readers[t] = 0

(* t gets its guard and goes on. *)
Acquire(t, mode) ==
    /\ todo' = [todo EXCEPT ![t] = Tail(@)]
    /\ readers' = IF mode = "read" THEN [readers EXCEPT ![t] = @ + 1] ELSE readers
    /\ writer' = IF mode = "write" THEN t ELSE writer

InitLock ==
    /\ todo = [t \in Workers |-> <<>>]
    /\ readers = [t \in Workers |-> 0]
    /\ writer = NoTask
    /\ queue = <<>>

(* The task reads its next command, or accepts the next socket. *)
Begin(t) ==
    /\ Idle(t)
    /\ \E h \in Handlers(t) : todo' = [todo EXCEPT ![t] = h]
    /\ UNCHANGED <<readers, writer, queue>>

Wants(t, mode) == ~Idle(t) /\ Head(todo[t]) = mode /\ ~Waiting(t)

(* Mutation: a reader overtakes the tasks that wait. *)
RequestBarging(t) ==
    \E mode \in {"read", "write"} :
        /\ Wants(t, mode)
        /\ \/ /\ mode = "read" \/ queue = <<>>
              /\ Compatible(mode)
              /\ Acquire(t, mode)
              /\ UNCHANGED queue
           \/ /\ ~(mode = "read" \/ queue = <<>>) \/ ~Compatible(mode)
              /\ queue' = Append(queue, [task |-> t, mode |-> mode])
              /\ UNCHANGED <<todo, readers, writer>>

(* read().await and write().await: at once, or at the end of the queue. *)
Request(t) ==
    \E mode \in {"read", "write"} :
        /\ Wants(t, mode)
        /\ \/ /\ queue = <<>>
              /\ Compatible(mode)
              /\ Acquire(t, mode)
              /\ UNCHANGED queue
           \/ /\ queue # <<>> \/ ~Compatible(mode)
              /\ queue' = Append(queue, [task |-> t, mode |-> mode])
              /\ UNCHANGED <<todo, readers, writer>>

(* The lock serves the oldest request as soon as it can. *)
Grant ==
    /\ queue # <<>>
    /\ Compatible(Head(queue).mode)
    /\ Acquire(Head(queue).task, Head(queue).mode)
    /\ queue' = Tail(queue)

(* Mutation: a handler forgets an inner guard (the outer one goes for both). *)
DropOnce(t) ==
    /\ Wants(t, "drop")
    /\ todo' = [todo EXCEPT ![t] = <<>>]
    /\ readers' = IF writer = t THEN readers ELSE [readers EXCEPT ![t] = @ - 1]
    /\ writer' = IF writer = t THEN NoTask ELSE writer
    /\ UNCHANGED queue

Drop(t) ==
    /\ Wants(t, "drop")
    /\ todo' = [todo EXCEPT ![t] = Tail(@)]
    /\ readers' = IF writer = t THEN readers ELSE [readers EXCEPT ![t] = @ - 1]
    /\ writer' = IF writer = t THEN NoTask ELSE writer
    /\ UNCHANGED queue

NextLock == Grant \/ \E t \in Workers : Begin(t) \/ Request(t) \/ Drop(t)

(* The lock and the runtime serve whoever can go on; a client may stay silent. *)
Fairness ==
    /\ WF_lockVars(Grant)
    /\ \A t \in Workers : WF_lockVars(Request(t)) /\ WF_lockVars(Drop(t))

SpecLock == InitLock /\ [][NextLock]_lockVars /\ Fairness

-----------------------------------------------------------------------------
(* Each variable has its type, and the queue holds each task once at most. *)
LockTypeOK ==
    /\ todo \in [Workers -> Seq(Ops)]
    /\ readers \in [Workers -> 0..2]
    /\ writer \in Workers \cup {NoTask}
    /\ queue \in Seq(Requests)
    /\ \A i, j \in DOMAIN queue : queue[i].task = queue[j].task => i = j

(* A handler that is through has given every guard back, whichever path it  *)
(* took, and a task that waits to write holds nothing: it could never get   *)
(* past its own guard.                                                      *)
GuardsReturned ==
    \A t \in Workers :
        Idle(t) \/ (Waiting(t) /\ Head(todo[t]) = "write") => readers[t] = 0 /\ writer # t

(* t asks for a second read guard behind a task that waits to write. *)
NestedBehindWriter(t) ==
    /\ readers[t] > 0
    /\ \E i, j \in DOMAIN queue : i < j /\ queue[i].mode = "write" /\ queue[j].task = t

(* Whenever a handler has something left to do, one of them can go on or    *)
(* the oldest request can be granted, unless a nested read is caught behind *)
(* a writer: nothing else in the code makes everyone wait on everyone.      *)
StuckOnlyWhenNested ==
    (\E t \in Workers : ~Idle(t)) /\ (\A t \in Workers : ~NestedBehindWriter(t)) =>
        \/ \E t \in Workers : ~Idle(t) /\ ~Waiting(t)
        \/ queue # <<>> /\ Compatible(Head(queue).mode)

(* The nested read of handle_hello is the only way for the server to hang:  *)
(* as long as none is caught behind a writer, every handler ends, whatever  *)
(* the other connections ask meanwhile.                                     *)
EndsUnlessNested ==
    (\A t \in Workers : []~NestedBehindWriter(t)) => \A t \in Workers : ~Idle(t) ~> Idle(t)
=============================================================================
