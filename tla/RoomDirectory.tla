--------------------------- MODULE RoomDirectory ---------------------------
(***************************************************************************)
(* What the server promises as a directory of rooms: a name, once bound to *)
(* a room, stays bound to that very room for as long as the server runs;   *)
(* newChatRoom answers "ok" if and only if it has just bound its name,     *)
(* getRoom answers "ok" if and only if its name is bound. How a factory is *)
(* found, asked and lost is not the directory's concern.                   *)
(***************************************************************************)
CONSTANTS Names, Hosts, Callers, Unbound

VARIABLES
    bound,      \* the host of the room each name is bound to, or Unbound
    request,    \* the call each caller waits for: [op, name]
    reply       \* the outcome of each caller's last call

vars == <<bound, request, reply>>

Init == bound = [n \in Names |-> Unbound]

Bind(c) ==
    /\ request[c].op = "newChatRoom"
    /\ bound[request[c].name] = Unbound
    /\ \E h \in Hosts : bound' = [bound EXCEPT ![request[c].name] = h]
    /\ reply' = [reply EXCEPT ![c] = "ok"]

Find(c) ==
    /\ request[c].op = "getRoom"
    /\ bound[request[c].name] # Unbound
    /\ reply' = [reply EXCEPT ![c] = "ok"]
    /\ UNCHANGED bound

\* A refused lookup means that the name is not bound.
Miss(c) ==
    /\ request[c].op = "getRoom"
    /\ bound[request[c].name] = Unbound
    /\ reply' = [reply EXCEPT ![c] = "NoSuchRoom"]
    /\ UNCHANGED bound

\* A creation refused with NameAlreadyExists means that the name is bound.
Taken(c) ==
    /\ request[c].op = "newChatRoom"
    /\ bound[request[c].name] # Unbound
    /\ reply' = [reply EXCEPT ![c] = "NameAlreadyExists"]
    /\ UNCHANGED bound

\* Any other outcome says nothing about the directory.
Other(c) ==
    /\ request[c].op = "getRooms" \/ reply'[c] \notin {"ok", "NoSuchRoom", "NameAlreadyExists"}
    /\ reply' = [reply EXCEPT ![c] = reply'[c]]
    /\ UNCHANGED bound

\* The server process is gone: no binding and no call survives.
Lose ==
    /\ bound' = [n \in Names |-> Unbound]
    /\ \A c \in Callers : reply'[c] = reply[c] \/ reply'[c] = "ConnectionLost"

Next == (\E c \in Callers : Bind(c) \/ Find(c) \/ Miss(c) \/ Taken(c) \/ Other(c)) \/ Lose

Spec == Init /\ [][Next]_vars
=============================================================================
