---------------------------- MODULE FileTransfer ----------------------------
(***************************************************************************)
(* Sharing files over the data channels of src/src/webrtc_peer.rs, and the *)
(* two arms of the event loop of src/src/gui.rs that send a dropped file   *)
(* to every peer and save what has arrived.  A channel is reliable and     *)
(* ordered while it lives (external: webrtc-rs); a call that broke is made *)
(* again with a new channel.                                               *)
(***************************************************************************)
EXTENDS Integers, FiniteSets, SequencesExt

CONSTANTS
    Users,
    Pairs,         \* the pairs of users who call each other
    Files,
    Name, Size,    \* a file's name, and the number of its 16 KB chunks
    NoFile,
    MaxShares, MaxBreaks, MaxErrors, MaxBadSaves   \* bounds

ASSUME FilesAssumption ==
    /\ Pairs \subseteq {{u, v} : u, v \in Users} /\ \A p \in Pairs : Cardinality(p) = 2
    /\ NoFile \notin Files \cup Range(Name) /\ Size \in [Files -> Nat] /\ DOMAIN Name = Files
    /\ {MaxShares, MaxBreaks, MaxErrors, MaxBadSaves} \subseteq Nat

VARIABLES
    channel,   \* of each pair of users: "none", "open" or "broken"
    wire,      \* messages in the channel, for each direction
    inFlight,  \* in_flight of the receiving end, for each direction
    sending,   \* what the event loop is in the middle of sending
    arrived,   \* file_rx: whole files the event loop has not saved
    disk,      \* the download directory
    received,  \* state.received_files
    shares, breaks, errors, badSaves,
    offered,   \* history: the files a user has shared
    given,     \* history: everything that ever entered arrived
    place,     \* history: the offer each receiver was last given
    counted,   \* history: the sends that returned Ok: [from, to, nth]
    cut        \* history: the sends that a broken call may have cut off

counters == <<shares, breaks, errors, badSaves>>
history == <<offered, given, place, counted, cut>>
vars == <<channel, wire, inFlight, sending, arrived, disk, received, counters, history>>

Ways == {w \in Users \X Users : {w[1], w[2]} \in Pairs}
Peers(u) == {v \in Users : {u, v} \in Pairs}
Names == Range(Name)

(* A file as its receiver sees it, and a file that is sent. *)
Whole(f) == [name |-> Name[f], data |-> [i \in 1..Size[f] |-> <<f, i>>]]
Idle == [file |-> NoFile, left |-> {}, to |-> {}, next |-> 0]
Nothing == [name |-> NoFile, data |-> <<>>]
Part(name) == [name |-> name, data |-> <<<<NoFile, 0>>>>]   \* half written

Init ==
    /\ channel = [p \in Pairs |-> "none"]
    /\ wire = [w \in Ways |-> <<>>] /\ inFlight = [w \in Ways |-> Nothing]
    /\ sending = [u \in Users |-> Idle] /\ arrived = [u \in Users |-> <<>>]
    /\ disk = [u \in Users |-> [n \in Names |-> Nothing]]
    /\ received = [u \in Users |-> <<>>]
    /\ shares = 0 /\ breaks = 0 /\ errors = 0 /\ badSaves = 0
    /\ offered = [u \in Users |-> <<>>] /\ given = [u \in Users |-> <<>>]
    /\ place = [u \in Users |-> [v \in Users |-> 0]]
    /\ counted = {} /\ cut = {}

-----------------------------------------------------------------------------
(* The call: a channel opens, with a fresh buffer at both ends, breaks, and *)
(* opens again when neither event loop is busy sending.                     *)

Open(p) ==
    /\ channel[p] # "open"
    /\ \A u \in p : sending[u] = Idle
    /\ channel' = [channel EXCEPT ![p] = "open"]
    /\ wire' = [w \in Ways |-> IF Range(w) = p THEN <<>> ELSE wire[w]]
    /\ inFlight' = [w \in Ways |-> IF Range(w) = p THEN Nothing ELSE inFlight[w]]
    /\ UNCHANGED <<sending, arrived, disk, received, counters, history>>

(* What is under way is lost, and nobody is told. *)
Break(p) ==
    /\ channel[p] = "open" /\ breaks < MaxBreaks
    /\ breaks' = breaks + 1
    /\ channel' = [channel EXCEPT ![p] = "broken"]
    /\ wire' = [w \in Ways |-> IF Range(w) = p THEN <<>> ELSE wire[w]]
    /\ cut' = cut \cup {c \in counted : {c.from, c.to} = p}
    /\ UNCHANGED <<inFlight, sending, arrived, disk, received, shares, errors, badSaves,
                   offered, given, place, counted>>

-----------------------------------------------------------------------------
(* SendFile: the loop goes through its peers, one at a time. *)

(* The loop turns to a peer it has not come to, in any order, or is done.  *)
Turns(f, left) ==
    IF left = {} THEN {Idle}
    ELSE {[file |-> f, left |-> left \ {v}, to |-> {v}, next |-> 0] : v \in left}

(* The peers in the table, ready or not.  Bound: a user shares a file once. *)
Share(u, f) ==
    /\ sending[u] = Idle /\ shares < MaxShares /\ Whole(f) \notin Range(offered[u])
    /\ shares' = shares + 1
    /\ offered' = [offered EXCEPT ![u] = Append(@, Whole(f))]
    /\ \E s \in Turns(f, Peers(u)) : sending' = [sending EXCEPT ![u] = s]
    /\ UNCHANGED <<channel, wire, inFlight, arrived, disk, received, breaks, errors, badSaves,
                   given, place, counted, cut>>

(* What send_file sends in its nth step. *)
Message(f, n) ==
    IF n = 0 THEN [is |-> "head", file |-> f]
    ELSE IF n <= Size[f] THEN [is |-> "chunk", data |-> <<f, n>>]
    ELSE [is |-> "end"]

IsLast(f, n) == n > Size[f]

Send(u) ==
    /\ \E v \in sending[u].to :
        LET s == sending[u] IN
        /\ channel[{u, v}] = "open"
        /\ wire' = [wire EXCEPT ![<<u, v>>] = Append(@, Message(s.file, s.next))]
        /\ \/ /\ IsLast(s.file, s.next)
              /\ \E t \in Turns(s.file, s.left) : sending' = [sending EXCEPT ![u] = t]
              /\ counted' = counted \cup {[from |-> u, to |-> v, nth |-> Len(offered[u])]}
           \/ /\ ~IsLast(s.file, s.next)
              /\ sending' = [sending EXCEPT ![u].next = @ + 1]
              /\ UNCHANGED counted
    /\ UNCHANGED <<channel, inFlight, arrived, disk, received, counters, offered, given,
                   place, cut>>

(* No channel, or a send that fails: send_file returns early. *)
SendFails(u) ==
    /\ \E v \in sending[u].to :
        \/ channel[{u, v}] # "open" /\ UNCHANGED errors
        \/ channel[{u, v}] = "open" /\ errors < MaxErrors /\ errors' = errors + 1
    /\ \E t \in Turns(sending[u].file, sending[u].left) :
            sending' = [sending EXCEPT ![u] = t]
    /\ UNCHANGED <<channel, wire, inFlight, arrived, disk, received, shares, breaks, badSaves,
                   history>>

-----------------------------------------------------------------------------
(* on_message at v, for the channel to u. *)

(* Mutation: a header names the file and keeps what has come so far. *)
StartedOver(file, f) == [name |-> Name[f], data |-> file.data]

(* A header starts over, whatever was in flight. *)
Started(file, f) == [name |-> Name[f], data |-> <<>>]

(* A chunk is appended when a file is in flight. *)
Extended(file, data) ==
    IF file.name = NoFile THEN file ELSE [file EXCEPT !.data = Append(@, data)]

(* Mutation: a file of no bytes is taken for no file. *)
EndsFull(file) == file.name # NoFile /\ file.data # <<>>

(* FILE_END hands over the file that is in flight, if there is one. *)
Ends(file) == file.name # NoFile

(* The offer with this content, or none: 0. *)
OfferOf(u, file) ==
    Max({i \in 1..Len(offered[u]) : offered[u][i] = file} \cup {0})

Read(u, v) ==
    /\ channel[{u, v}] = "open" /\ wire[<<u, v>>] # <<>>
    /\ wire' = [wire EXCEPT ![<<u, v>>] = Tail(@)]
    /\ LET m == Head(wire[<<u, v>>])  file == inFlight[<<u, v>>] IN
        \/ /\ m.is = "head"
           /\ inFlight' = [inFlight EXCEPT ![<<u, v>>] = Started(file, m.file)]
           /\ UNCHANGED <<arrived, given, place>>
        \/ /\ m.is = "chunk"
           /\ inFlight' = [inFlight EXCEPT ![<<u, v>>] = Extended(file, m.data)]
           /\ UNCHANGED <<arrived, given, place>>
        \/ /\ m.is = "end"
           /\ inFlight' = [inFlight EXCEPT ![<<u, v>>] = Nothing]
           /\ LET whole == IF Ends(file) THEN <<[from |-> u, file |-> file]>> ELSE <<>> IN
                /\ arrived' = [arrived EXCEPT ![v] = @ \o whole]
                /\ given' = [given EXCEPT ![v] = @ \o whole]
           /\ place' = [place EXCEPT ![u][v] = IF Ends(file) THEN OfferOf(u, file) ELSE @]
    /\ UNCHANGED <<channel, sending, disk, received, counters, offered, counted, cut>>

-----------------------------------------------------------------------------
(* The loop saves a file under its name in the download directory. *)

Save(v) ==
    /\ sending[v] = Idle /\ arrived[v] # <<>>
    /\ LET new == Head(arrived[v]) IN
        /\ disk' = [disk EXCEPT ![v][new.file.name] = new.file]
        /\ received' = [received EXCEPT ![v] = Append(@, new)]
    /\ arrived' = [arrived EXCEPT ![v] = Tail(@)]
    /\ UNCHANGED <<channel, wire, inFlight, sending, counters, history>>

(* Mutation: the file is listed whether or not it could be written. *)
SaveFailsListed(v) ==
    /\ sending[v] = Idle /\ arrived[v] # <<>> /\ badSaves < MaxBadSaves
    /\ badSaves' = badSaves + 1
    /\ arrived' = [arrived EXCEPT ![v] = Tail(@)]
    /\ received' = [received EXCEPT ![v] = Append(@, Head(arrived[v]))]
    /\ UNCHANGED <<channel, wire, inFlight, sending, disk, shares, breaks, errors,
                   history>>

(* fs::write fails before the file is opened, or leaves a part of it. *)
SaveFails(v) ==
    /\ sending[v] = Idle /\ arrived[v] # <<>> /\ badSaves < MaxBadSaves
    /\ badSaves' = badSaves + 1
    /\ arrived' = [arrived EXCEPT ![v] = Tail(@)]
    /\ LET name == Head(arrived[v]).file.name IN
        \/ UNCHANGED disk
        \/ disk' = [disk EXCEPT ![v][name] = Part(name)]
    /\ UNCHANGED <<channel, wire, inFlight, sending, received, shares, breaks, errors,
                   history>>

-----------------------------------------------------------------------------
LoopStep(u) == Send(u) \/ SendFails(u) \/ Save(u)

Next ==
    \/ \E p \in Pairs : Open(p) \/ Break(p)
    \/ \E u \in Users : \E f \in Files : Share(u, f)
    \/ \E u \in Users : Send(u) \/ SendFails(u) \/ Save(u) \/ SaveFails(u)
    \/ \E w \in Ways : Read(w[1], w[2])

(* The event loop and the callbacks of an open channel go on. *)
Fairness ==
    /\ \A u \in Users : WF_vars(LoopStep(u))
    /\ \A w \in Ways : WF_vars(Read(w[1], w[2]))

Spec == Init /\ [][Next]_vars /\ Fairness

-----------------------------------------------------------------------------
(* Properties. *)

TypeOK ==
    /\ channel \in [Pairs -> {"none", "open", "broken"}]
    /\ \A w \in Ways : inFlight[w].name \in Names \cup {NoFile}
    /\ \A w \in Ways : inFlight[w].name = NoFile => inFlight[w].data = <<>>
    /\ \A u \in Users :
        /\ sending[u].file \in Files \cup {NoFile}
        /\ sending[u].left \subseteq Peers(u) /\ Cardinality(sending[u].to) <= 1
        /\ sending[u].next = 0 \/ sending[u].next - 1 \in 0..Size[sending[u].file]
        /\ \A n \in Names : disk[u][n].name \in {n, NoFile}
    /\ \A c \in counted : c.nth \in 1..Len(offered[c.from])

(* What every user is given are whole files that the sender shared, each   *)
(* once and in the order they were shared, whatever sends failed halfway   *)
(* and whatever calls broke (webrtc_peer.rs:60-103, 324-336).              *)
Delivery == INSTANCE FileDelivery WITH Content <- {Whole(f) : f \in Files}
DeliversWhole == Delivery!Spec

(* The newest file listed under a name is the one on the disk, unless a    *)
(* later save under that name has failed halfway: an earlier file of the   *)
(* same name, though still listed, is gone (gui.rs:1571-1580).             *)
NewestOnDisk ==
    \A v \in Users, n \in Names :
        LET listed == {i \in DOMAIN received[v] : received[v][i].file.name = n}
        IN  listed # {} =>
                \/ disk[v][n] = received[v][Max(listed)].file
                \/ disk[v][n] = Part(n)

(* A send that was counted as a success reaches the receiver whole, unless *)
(* the call breaks while it is under way: Ok means handed to the channel,  *)
(* not received (gui.rs:1549-1553).                                        *)
CountedArrives ==
    []<>(\A c \in counted : place[c.from][c.to] >= c.nth \/ c \in cut)
=============================================================================
