----------------------------- MODULE Membership -----------------------------
(***************************************************************************)
(* What the chat promises to its users, of all rooms and clients together: *)
(* a user is reached in a room from the time when his client has joined it *)
(* until his client leaves it, or one of his name joins or leaves it. What *)
(* others do elsewhere, or in that room under names of their own, does not *)
(* end it, no client leaves a room that it does not count among its own,   *)
(* and one that has ended as it should is reached nowhere. Menus, proxies, *)
(* the servers and what is refused do not matter here.                     *)
(***************************************************************************)
CONSTANTS Clients, Nicks, NickOf, Rooms, Nobody

VARIABLES
    life,       \* of each client: "off", "running", "ended" or "dead"
    own,        \* the rooms each client counts among its own
    reached     \* the client reached in each room under each name, or Nobody

vars == <<life, own, reached>>

Init ==
    /\ life = [c \in Clients |-> "off"]
    /\ own = [c \in Clients |-> {}]
    /\ reached = [r \in Rooms |-> [n \in Nicks |-> Nobody]]

Start(c) ==
    /\ life[c] = "off"
    /\ \E l \in {"running", "dead"} : life' = [life EXCEPT ![c] = l]
    /\ UNCHANGED <<own, reached>>

Enter(c, r) ==
    /\ life[c] = "running"
    /\ own' = [own EXCEPT ![c] = @ \cup {r}]
    /\ reached' = [reached EXCEPT ![r][NickOf[c]] = c]
    /\ UNCHANGED life

\* The room may stay among its own: it was joined twice, or the client exits.
Leave(c, r) ==
    /\ life[c] = "running"
    /\ r \in own[c]
    /\ own' \in {own, [own EXCEPT ![c] = @ \ {r}]}
    /\ reached' = [reached EXCEPT ![r][NickOf[c]] = Nobody]
    /\ UNCHANGED life

End(c) ==
    /\ life[c] = "running"
    /\ \A r \in Rooms, n \in Nicks : reached[r][n] # c
    /\ life' = [life EXCEPT ![c] = "ended"]
    /\ UNCHANGED <<own, reached>>

Die(c) ==
    /\ life[c] = "running"
    /\ life' = [life EXCEPT ![c] = "dead"]
    /\ UNCHANGED <<own, reached>>

Next == \E c \in Clients :
    \/ Start(c) \/ End(c) \/ Die(c)
    \/ \E r \in Rooms : Enter(c, r) \/ Leave(c, r)

Spec == Init /\ [][Next]_vars
=============================================================================
