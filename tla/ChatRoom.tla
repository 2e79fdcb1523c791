------------------------------ MODULE ChatRoom ------------------------------
(***************************************************************************)
(* One room of the chat: the servant ChatRoomImpl, the clients that call   *)
(* it, and the users it calls back while it distributes a message.         *)
(*                                                                         *)
(* The servant keeps its participants twice: in the vector `users', which  *)
(* answers listUsers and decides who may join, post, leave and be looked   *)
(* up, and in the map `nickUserDictionary', whose proxies are the ones a   *)
(* posted message is sent to. The rooms of one factory live in one Ice     *)
(* communicator whose server thread pool has one thread (the default; the  *)
(* code sets no property), so a request is dispatched only after the       *)
(* previous one has returned. join, Leave and getUser make no nested call  *)
(* and are one step each; postMessage makes one blocking call per entry    *)
(* of the map, and clients may terminate between two of these calls.       *)
(***************************************************************************)
EXTENDS IceRpc, Integers, Sequences

CONSTANTS
    Nicks,      \* nick names, numbered in the order of std::map<string, ...>
    Clients,    \* client processes; also stands for the UserPrx each one registers
    NickOf,     \* the user name each client was started with
    NullPrx,    \* a null UserPrx, as operator[] of the map default-constructs it
    NoEntry,    \* the map has no entry under a nick
    Nobody      \* no client

ASSUME NicksOrdered  == Nicks \subseteq Int
ASSUME NickOfType    == NickOf \in [Clients -> Nicks]
ASSUME SentinelsDiff == /\ NullPrx \notin Clients /\ NoEntry \notin Clients
                        /\ Nobody \notin Clients  /\ NullPrx # NoEntry

VARIABLES
    users,                \* ChatRoomImpl::users
    nickUserDictionary,   \* ChatRoomImpl::nickUserDictionary
    poster,               \* the caller of the postMessage in progress, or Nobody
    todo,                 \* the keys its iterator has yet to visit
    delivered,            \* the keys whose user has been sent the message of the post in progress
    up,                   \* the client processes that run
    entered,              \* the clients one of whose joins has succeeded
    inOrder,              \* so far whoever left was the one listed first
    request,              \* the call each client waits for
    reply                 \* the outcome of each client's last call

room == <<users, nickUserDictionary>>
loop == <<poster, todo, delivered>>
past == <<entered, inOrder>>     \* history variables: no action reads inOrder
vars == <<users, nickUserDictionary, poster, todo, delivered, up, entered, inOrder,
          request, reply>>

Ops == {"join", "Leave", "getUser", "postMessage"}
NoRequest == [op |-> "none", nick |-> 0]
Requests == [op : Ops, nick : Nicks]

Listed == {users[i] : i \in DOMAIN users}
Keys == {n \in Nicks : nickUserDictionary[n] # NoEntry}
Members == {n \in Nicks : nickUserDictionary[n] \in Clients}

TypeOK ==
    /\ users \in Seq(Nicks)
    /\ nickUserDictionary \in [Nicks -> Clients \cup {NullPrx, NoEntry}]
    /\ poster \in Clients \cup {Nobody}
    /\ todo \subseteq Nicks
    /\ delivered \subseteq Nicks
    /\ up \subseteq Clients
    /\ entered \subseteq Clients
    /\ inOrder \in BOOLEAN
    /\ request \in [Clients -> Requests \cup {NoRequest}]
    /\ reply \in [Clients -> Outcomes \cup {"none"}]

Init ==
    /\ users = <<>>
    /\ nickUserDictionary = [n \in Nicks |-> NoEntry]
    /\ poster = Nobody
    /\ todo = {}
    /\ delivered = {}
    /\ up = Clients
    /\ entered = {}
    /\ inOrder = TRUE
    /\ request = [c \in Clients |-> NoRequest]
    /\ reply = [c \in Clients |-> "none"]

-----------------------------------------------------------------------------
(* The clients. Each has one thread that calls and waits for the reply, and  *)
(* passes its own user name to all calls but getUser. It posts and leaves    *)
(* only if an earlier join succeeded. A process that ends leaves its request *)
(* at the room, which will still dispatch it.                                *)

Call(c, op, n) ==
    /\ c \in up
    /\ request[c] = NoRequest
    /\ op # "getUser" => n = NickOf[c]
    /\ op \in {"Leave", "postMessage"} => c \in entered
    /\ request' = [request EXCEPT ![c] = [op |-> op, nick |-> n]]
    /\ reply' = [reply EXCEPT ![c] = "none"]
    /\ UNCHANGED <<room, loop, up, past>>

Terminate(c) ==
    /\ c \in up
    /\ up' = up \ {c}
    /\ UNCHANGED <<room, loop, past, request, reply>>

-----------------------------------------------------------------------------
(* The servant. *)

\* The dispatch thread is free and takes the request of client c.
Dispatching(c, op) ==
    /\ poster = Nobody
    /\ request[c] # NoRequest
    /\ request[c].op = op

Answer(c, outcome) ==
    /\ request' = [request EXCEPT ![c] = NoRequest]
    /\ reply' = [reply EXCEPT ![c] = outcome]

JoinRefused(c) ==
    /\ Dispatching(c, "join")
    /\ request[c].nick \in Listed
    /\ Answer(c, Received("join", "NameAlreadyExists"))
    /\ UNCHANGED <<room, loop, up, past>>

\* A mutant: join without its scan of the vector.
JoinUnscanned(c) ==
    /\ Dispatching(c, "join")
    /\ users' = Append(users, request[c].nick)
    /\ nickUserDictionary' = [nickUserDictionary EXCEPT ![request[c].nick] = c]
    /\ entered' = entered \cup {c}
    /\ Answer(c, "ok")
    /\ UNCHANGED <<loop, up, inOrder>>

JoinAccepted(c) ==
    /\ Dispatching(c, "join")
    /\ request[c].nick \notin Listed
    /\ users' = Append(users, request[c].nick)
    /\ nickUserDictionary' = [nickUserDictionary EXCEPT ![request[c].nick] = c]
    /\ entered' = entered \cup {c}
    /\ Answer(c, "ok")
    /\ UNCHANGED <<loop, up, inOrder>>

LeaveRefused(c) ==
    /\ Dispatching(c, "Leave")
    /\ request[c].nick \notin Listed
    /\ Answer(c, Received("Leave", "NoSuchUser"))
    /\ UNCHANGED <<room, loop, up, past>>

\* A mutant: Leave without the last of its erases.
LeaveKeepsProxy(c) ==
    /\ Dispatching(c, "Leave")
    /\ request[c].nick \in Listed
    /\ users' = Tail(users)
    /\ inOrder' = (inOrder /\ request[c].nick = Head(users))
    /\ Answer(c, "ok")
    /\ UNCHANGED <<nickUserDictionary, loop, up, entered>>

\* `counter' is users.begin() and is never advanced: the first entry of the
\* vector goes, whoever leaves.
LeaveAccepted(c) ==
    /\ Dispatching(c, "Leave")
    /\ request[c].nick \in Listed
    /\ users' = Tail(users)
    /\ nickUserDictionary' = [nickUserDictionary EXCEPT ![request[c].nick] = NoEntry]
    /\ inOrder' = (inOrder /\ request[c].nick = Head(users))
    /\ Answer(c, "ok")
    /\ UNCHANGED <<loop, up, entered>>

GetUserRefused(c) ==
    /\ Dispatching(c, "getUser")
    /\ request[c].nick \notin Listed
    /\ Answer(c, Received("getUser", "NoSuchUser"))
    /\ UNCHANGED <<room, loop, up, past>>

\* operator[] inserts a null proxy under a nick that is listed but has no entry.
GetUserAccepted(c) ==
    /\ Dispatching(c, "getUser")
    /\ request[c].nick \in Listed
    /\ nickUserDictionary' =
         [nickUserDictionary EXCEPT ![request[c].nick] = IF @ = NoEntry THEN NullPrx ELSE @]
    /\ Answer(c, "ok")
    /\ UNCHANGED <<users, loop, up, past>>

PostRefused(c) ==
    /\ Dispatching(c, "postMessage")
    /\ request[c].nick \notin Listed
    /\ Answer(c, Received("postMessage", "NoSuchUser"))
    /\ UNCHANGED <<room, loop, up, past>>

PostStarts(c) ==
    /\ Dispatching(c, "postMessage")
    /\ request[c].nick \in Listed
    /\ poster' = c
    /\ todo' = Keys
    /\ UNCHANGED <<room, delivered, up, past, request, reply>>

\* The key the iterator of postMessage points to.
AtKey(n) == n \in todo /\ \A m \in todo : n <= m

\* A mutant: the loop goes on without it++.
PostStaysPut(n) ==
    /\ poster # Nobody
    /\ AtKey(n)
    /\ nickUserDictionary[n] \in up
    /\ delivered' = delivered \cup {n}
    /\ UNCHANGED <<room, poster, todo, up, past, request, reply>>

\* it->second->sendMessage(message, fromWho) returns; then it++.
PostDelivers(n) ==
    /\ poster # Nobody
    /\ AtKey(n)
    /\ nickUserDictionary[n] \in up
    /\ delivered' = delivered \cup {n}
    /\ todo' = todo \ {n}
    /\ UNCHANGED <<room, poster, up, past, request, reply>>

\* A mutant: the exception is swallowed and the loop goes on.
PostSkips(n) ==
    /\ poster # Nobody
    /\ AtKey(n)
    /\ nickUserDictionary[n] \notin up
    /\ todo' = todo \ {n}
    /\ UNCHANGED <<room, poster, delivered, up, past, request, reply>>

\* it->second is null or its process is gone: the exception ends the loop.
PostFails(n) ==
    /\ poster # Nobody
    /\ AtKey(n)
    /\ nickUserDictionary[n] \notin up
    /\ Answer(poster, Received("postMessage", IF nickUserDictionary[n] = NullPrx
                                              THEN "NullHandleException"
                                              ELSE "ConnectFailed"))
    /\ poster' = Nobody
    /\ todo' = {}
    /\ delivered' = {}
    /\ UNCHANGED <<room, up, past>>

\* A mutant: the call returns only if its caller is still there.
PostEndsForLivePoster ==
    /\ poster \in up
    /\ todo = {}
    /\ Answer(poster, "ok")
    /\ poster' = Nobody
    /\ delivered' = {}
    /\ UNCHANGED <<room, todo, up, past>>

PostEnds ==
    /\ poster # Nobody
    /\ todo = {}
    /\ Answer(poster, "ok")
    /\ poster' = Nobody
    /\ delivered' = {}
    /\ UNCHANGED <<room, todo, up, past>>

Dispatch(c) ==
    \/ JoinRefused(c)    \/ JoinAccepted(c)
    \/ LeaveRefused(c)   \/ LeaveAccepted(c)
    \/ GetUserRefused(c) \/ GetUserAccepted(c)
    \/ PostRefused(c)    \/ PostStarts(c)

Posting == (\E n \in Nicks : PostDelivers(n) \/ PostFails(n)) \/ PostEnds

Next ==
    \/ \E c \in Clients : \E op \in Ops, n \in Nicks : Call(c, op, n)
    \/ \E c \in Clients : Terminate(c)
    \/ \E c \in Clients : Dispatch(c)
    \/ Posting

Spec == Init /\ [][Next]_vars

(***************************************************************************)
(* The thread of the pool keeps running, and a ready connection is not     *)
(* passed over for ever: the pool serves every connection its selector     *)
(* reported ready before it selects again. A user's servant answers or its *)
(* process is gone, so sendMessage returns. Nothing makes a client call.   *)
(***************************************************************************)
FairSpec == Spec /\ WF_vars(Posting) /\ \A c \in Clients : SF_vars(Dispatch(c))

-----------------------------------------------------------------------------
(* Properties. *)

\* The vector never lists a nick twice, whatever is removed from it: join
\* scans it, and a removal can only shorten it (ChatRoomImpl::join, Leave).
ListedOnce == \A i, j \in DOMAIN users : users[i] = users[j] => i = j

\* While postMessage runs nobody joins, leaves or is looked up: what was
\* visited and what is left are the keys of the map, the visited ones come
\* first, and each of them was a user's proxy (ChatRoomImpl::postMessage).
LoopInv ==
    poster # Nobody =>
        /\ delivered \cup todo = Keys
        /\ delivered \subseteq Members
        /\ \A n \in delivered, m \in todo : n < m

\* As long as everyone who left was the first of the vector, the two copies of
\* the membership agree: listUsers, getUser and the audience of a message are
\* the same set and no null proxy is handed out (ChatRoomImpl::Leave).
InOrderAgrees == inOrder => Listed = Members /\ Keys = Members

\* What the comment in Leave says it does: a Leave that is answered "ok" has
\* removed the nick from `users' too (ChatRoomImpl.cpp:32).
LeaveUnlists ==
    [][\A c \in Clients : LeaveAccepted(c) => request[c].nick \notin Listed']_vars

\* The room keeps the promise of module RoomPromise, where the membership is
\* what the map says: the entries that hold a client's proxy.
Promise == INSTANCE RoomPromise WITH
    members <- [n \in Nicks |-> IF n \in Members THEN nickUserDictionary[n] ELSE Nobody],
    speaker <- poster,
    got     <- delivered

KeepsPromise == Promise!Spec

\* Every call is answered, also those that wait behind a message that is being
\* distributed (one dispatch thread, blocking calls to the users).
CallsAnswered == \A c \in Clients : request[c] # NoRequest ~> request[c] = NoRequest
=============================================================================
