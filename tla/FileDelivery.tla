---------------------------- MODULE FileDelivery ----------------------------
(***************************************************************************)
(* What sharing a file promises: a user offers files, and a friend is      *)
(* given some of them, each whole, at most once and in the order of the    *)
(* offers.  FileTransfer implements it over data channels.                 *)
(***************************************************************************)
EXTENDS Integers, Sequences

CONSTANTS Users, Content      \* whole files: what is sent and what is given

VARIABLES
    offered,   \* what each user has offered, in order
    given,     \* what each user was given, in order: [from, file]
    place      \* the offer of u that v was last given, 0 for none

Init ==
    /\ offered = [u \in Users |-> <<>>]
    /\ given = [u \in Users |-> <<>>]
    /\ place = [u \in Users |-> [v \in Users |-> 0]]

Offer(u) ==
    /\ \E file \in Content : offered' = [offered EXCEPT ![u] = Append(@, file)]
    /\ UNCHANGED <<given, place>>

Give(u, v) ==
    \E i \in 1..Len(offered[u]) :
        /\ i > place[u][v]
        /\ place' = [place EXCEPT ![u][v] = i]
        /\ given' = [given EXCEPT ![v] = Append(@, [from |-> u, file |-> offered[u][i]])]
        /\ UNCHANGED offered

Next == \E u \in Users : Offer(u) \/ \E v \in Users \ {u} : Give(u, v)

Spec == Init /\ [][Next]_<<offered, given, place>>
=============================================================================
