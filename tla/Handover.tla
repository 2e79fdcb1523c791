------------------------------ MODULE Handover ------------------------------
(***************************************************************************)
(* What the parent of the square-root server promises to the clients: the  *)
(* connections are accepted one after the other in the order in which they *)
(* were asked for, each is handed to one child, and what has been given up *)
(* is never taken up again, by whatever process and after whatever         *)
(* failures. The descriptors and the processes do not matter here.         *)
(***************************************************************************)
EXTENDS Naturals, Sequences

CONSTANT Conns      \* the connections that clients ask for

VARIABLES
    place,      \* where each connection is
    waiting     \* those that have not been accepted, in their order

vars == <<place, waiting>>

Init ==
    /\ place = [c \in Conns |-> "none"]
    /\ waiting = <<>>

Ask(c) ==
    /\ place[c] = "none"
    /\ place' = [place EXCEPT ![c] = "waiting"]
    /\ waiting' = Append(waiting, c)

Take ==
    /\ waiting # <<>>
    /\ \A c \in Conns : place[c] # "accepted"
    /\ place' = [place EXCEPT ![Head(waiting)] = "accepted"]
    /\ waiting' = Tail(waiting)

Hand(c) ==
    /\ place[c] = "accepted"
    /\ place' = [place EXCEPT ![c] = "served"]
    /\ UNCHANGED waiting

\* Connections in some of these places come to their end.
GiveUp(places) ==
    /\ \E gone \in SUBSET {c \in Conns : place[c] \in places} :
         place' = [c \in Conns |-> IF c \in gone THEN "over" ELSE place[c]]
    /\ UNCHANGED waiting

\* The last process has ended.
ShutDown ==
    /\ place' = [c \in Conns |-> IF place[c] = "none" THEN "none" ELSE "over"]
    /\ waiting' = <<>>

Next ==
    \/ \E c \in Conns : Ask(c) \/ Hand(c)
    \/ Take
    \/ GiveUp({"accepted", "served"})
    \/ ShutDown

Spec == Init /\ [][Next]_vars
=============================================================================
