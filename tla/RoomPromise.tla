---------------------------- MODULE RoomPromise ----------------------------
(***************************************************************************)
(* What a room promises to its clients, without its two containers: there  *)
(* is one membership, from nicks to the clients that are reached under     *)
(* them. A join that is answered "ok" makes the caller the member of its   *)
(* nick, a Leave that is answered "ok" ends the membership of that nick,   *)
(* and a call that is answered with an exception changes no membership. A  *)
(* posted message is given to each member at most once, and to all of them *)
(* if the post is answered "ok"; nobody joins or leaves meanwhile.         *)
(*                                                                         *)
(* The promise does not say when join and Leave are refused, and it does   *)
(* not speak of listUsers: see ChatRoom.                                   *)
(***************************************************************************)
CONSTANTS Nicks, Clients, Nobody

VARIABLES
    members,    \* the client reached under each nick, or Nobody
    speaker,    \* the client whose message is being distributed, or Nobody
    got,        \* the nicks that have been given that message
    request,    \* the call each client waits for: [op, nick]
    reply       \* the outcome of each client's last call

vars == <<members, speaker, got, request, reply>>

Present == {n \in Nicks : members[n] # Nobody}

Init ==
    /\ members = [n \in Nicks |-> Nobody]
    /\ speaker = Nobody
    /\ got = {}

\* Calls are made and withdrawn from the requests as they please the clients.
Ask(c) ==
    /\ reply'[c] = "none"
    /\ UNCHANGED <<members, speaker, got>>

Quiet(c, op) == speaker = Nobody /\ request[c].op = op

Join(c) ==
    /\ Quiet(c, "join")
    /\ members' = [members EXCEPT ![request[c].nick] = c]
    /\ reply'[c] = "ok"
    /\ UNCHANGED <<speaker, got>>

Leave(c) ==
    /\ Quiet(c, "Leave")
    /\ members' = [members EXCEPT ![request[c].nick] = Nobody]
    /\ reply'[c] = "ok"
    /\ UNCHANGED <<speaker, got>>

LookUp(c) ==
    /\ Quiet(c, "getUser")
    /\ reply'[c] = "ok"
    /\ UNCHANGED <<members, speaker, got>>

Refuse(c) ==
    /\ speaker = Nobody
    /\ reply'[c] \notin {"ok", "none"}
    /\ UNCHANGED <<members, speaker, got>>

BeginPost(c) ==
    /\ Quiet(c, "postMessage")
    /\ speaker' = c
    /\ UNCHANGED <<members, got, request, reply>>

Give(n) ==
    /\ speaker # Nobody
    /\ n \in Present \ got
    /\ got' = got \cup {n}
    /\ UNCHANGED <<members, speaker, request, reply>>

EndPost ==
    /\ speaker # Nobody
    /\ speaker' = Nobody
    /\ reply'[speaker] # "none"
    /\ reply'[speaker] = "ok" => got = Present
    /\ got' = {}
    /\ UNCHANGED members

Next ==
    \/ \E c \in Clients : Ask(c) \/ Join(c) \/ Leave(c) \/ LookUp(c) \/ Refuse(c) \/ BeginPost(c)
    \/ \E n \in Nicks : Give(n)
    \/ EndPost

Spec == Init /\ [][Next]_vars
=============================================================================
