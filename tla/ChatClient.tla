----------------------------- MODULE ChatClient -----------------------------
(***************************************************************************)
(* The chat's client program: the menu in its main thread, the operations  *)
(* behind it, the vector userRooms of the rooms it has joined, what it     *)
(* does when the user chooses to exit, and the exceptions it does not      *)
(* catch, which end the process.                                           *)
(*                                                                         *)
(* An operation is a chain of blocking calls: getRoom at the server, then  *)
(* one call at the room, for a private message a third one at the user.    *)
(* Each is one step, and between two of them other clients run, the server *)
(* or the process of the rooms may end, and a server may be started anew,  *)
(* which knows no room and no factory. The room is the one of module       *)
(* ChatRoom, several of them here, with the loop of postMessage as one     *)
(* step. The factory process is started once.                              *)
(***************************************************************************)
EXTENDS IceRpc, Integers, Sequences

CONSTANTS
    Clients,      \* client processes; also stands for the UserPrx each registers
    Nicks,        \* user names
    NickOf,       \* the name each client was started with
    Rooms,        \* names of rooms
    NullPrx,      \* a null UserPrx
    NoEntry,      \* the map of a room has no entry under a name
    NoRoom,       \* no room has been named
    NoNick,       \* no user has been named
    MaxJoined,    \* bound: how many rooms a client joins without leaving one
    MaxCrashes    \* bound: how often the server or the factory ends

ASSUME NickOfType == NickOf \in [Clients -> Nicks]
ASSUME SentinelsDiffer ==
    /\ NullPrx \notin Clients /\ NoEntry \notin Clients /\ NullPrx # NoEntry
    /\ NoRoom \notin Rooms /\ NoNick \notin Nicks
ASSUME BoundsType == MaxJoined \in Nat /\ MaxCrashes \in Nat

VARIABLES
    serverUp,             \* the server's process runs
    crashes,              \* how often it or the factory has ended
    factoryKnown,         \* the factory is in the server's roomFactoryList
    factoryUp,            \* the process of the factory, with all rooms, runs
    roomList,             \* the rooms the server knows
    users,                \* ChatRoomImpl::users of each room
    nickUserDictionary,   \* ChatRoomImpl::nickUserDictionary of each room
    process,              \* "off", "running", or how the client's process ended
    server,               \* the client's proxy of the server is not null
    userRooms,            \* Client::userRooms
    at                    \* the call the main thread is about to make

serverState == <<serverUp, crashes, factoryKnown, roomList>>
rooms       == <<users, nickUserDictionary>>
environment == <<serverState, factoryUp>>
vars        == <<serverUp, crashes, factoryKnown, factoryUp, roomList, users,
                 nickUserDictionary, process, server, userRooms, at>>

\* The operations of the menu, a private message taken apart into its listUsers
\* ("names") and the rest ("getUser"), and the two loops of an exit.
Ops == {"newChatRoom", "getRooms", "join", "listUsers", "Leave", "postMessage", "names",
        "getUser", "disconnect", "destroy"}

\* Where the main thread is: in the menu, before a call of the server, of the
\* room or of the user, asking whom to write to, or past the loops of an exit.
Points == [pc      : {"menu", "server", "room", "user", "whom", "done"},
           op      : Ops \cup {"none"},
           room    : Rooms \cup {NoRoom},
           place   : Nat,
           counter : Nat,
           names   : SUBSET Nicks,
           nick    : Nicks \cup {NoNick},
           prx     : Clients \cup {NullPrx}]

At(pc, op, r, i, j, ns, n, prx) ==
    [pc |-> pc, op |-> op, room |-> r, place |-> i, counter |-> j, names |-> ns,
     nick |-> n, prx |-> prx]
Menu               == At("menu", "none", NoRoom, 1, 1, {}, NoNick, NullPrx)
Asking(op, r)      == At("server", op, r, 1, 1, {}, NoNick, NullPrx)
Looping(op, r, i, j) == At("server", op, r, i, j, {}, NoNick, NullPrx)
Choosing(r, ns)    == At("whom", "names", r, 1, 1, ns, NoNick, NullPrx)
Writing(r, n)      == At("server", "getUser", r, 1, 1, {}, n, NullPrx)
Finishing          == At("done", "destroy", NoRoom, 1, 1, {}, NoNick, NullPrx)

TypeOK ==
    /\ serverUp \in BOOLEAN
    /\ crashes \in 0 .. MaxCrashes
    /\ factoryKnown \in BOOLEAN
    /\ factoryUp \in BOOLEAN
    /\ roomList \subseteq Rooms
    /\ users \in [Rooms -> Seq(Nicks)]
    /\ nickUserDictionary \in [Rooms -> [Nicks -> Clients \cup {NullPrx, NoEntry}]]
    /\ process \in [Clients -> {"off", "running", "ended", "terminated", "killed"}]
    /\ server \in [Clients -> BOOLEAN]
    /\ userRooms \in [Clients -> Seq(Rooms)]
    /\ at \in [Clients -> Points]

Init ==
    /\ serverUp = TRUE
    /\ crashes = 0
    /\ factoryKnown = TRUE
    /\ factoryUp = TRUE
    /\ roomList = {}
    /\ users = [r \in Rooms |-> <<>>]
    /\ nickUserDictionary = [r \in Rooms |-> [n \in Nicks |-> NoEntry]]
    /\ process = [c \in Clients |-> "off"]
    /\ server = [c \in Clients |-> FALSE]
    /\ userRooms = [c \in Clients |-> <<>>]
    /\ at = [c \in Clients |-> Menu]

-----------------------------------------------------------------------------
(* What the handlers of the client catch, and where it goes on after that.   *)

Running == {c \in Clients : process[c] = "running"}

\* An Ice::UnknownException is caught with the classes derived from it.
Catches ==
    [ newChatRoom |-> {"NameAlreadyExists"} \cup UnknownExceptions,
      getRooms    |-> {},
      join        |-> {"NoSuchRoom", "NickNotAvailable"} \cup UnknownExceptions,
      listUsers   |-> {"NoSuchRoom"} \cup UnknownExceptions,
      names       |-> {"NoSuchRoom"} \cup UnknownExceptions,
      getUser     |-> {"NoSuchUser", "NoSuchRoom"},
      postMessage |-> {"NoSuchRoom", "NoSuchUser"},
      Leave       |-> {"NoSuchUser"} \cup UnknownExceptions,
      disconnect  |-> {"NoSuchUser"} \cup UnknownExceptions,
      destroy     |-> {} ]

\* The entries of userRooms with name r, from place i on.
Places(c, r, i) == {k \in DOMAIN userRooms[c] : i <= k /\ userRooms[c][k] = r}

\* leaveRoom's loop goes on to the next entry of the same name.
LeavingFrom(c, r, i) ==
    IF Places(c, r, i) = {} THEN Menu
    ELSE Looping("Leave", r, CHOOSE k \in Places(c, r, i) : \A m \in Places(c, r, i) : k <= m, 1)

\* A mutant: the destructor destroys the communicator and no more.
DestroyingNothing(c, i) == Finishing

\* The destructor's loop, from place i on.
DestroyingFrom(c, i) ==
    IF i > Len(userRooms[c]) THEN Finishing
    ELSE Looping("destroy", userRooms[c][i], i, i)

\* A mutant: the loop runs until `counter' has passed the last room.
DisconnectingWhile(c, i, j) ==
    IF j > Len(userRooms[c]) THEN DestroyingFrom(c, 1)
    ELSE Looping("disconnect", userRooms[c][j], j, j)

\* disconnect's loop: the iterator is at place i, and userRooms.at(counter), with
\* counter = j - 1, is the room to leave. The destructor follows.
DisconnectingFrom(c, i, j) ==
    IF i > Len(userRooms[c]) THEN DestroyingFrom(c, 1)
    ELSE Looping("disconnect", userRooms[c][j], i, j)

\* After a handler has reported the failure of the call the client was in.
Resumed(c) ==
    CASE at[c].op = "names"      -> Choosing(at[c].room, {})
      [] at[c].op = "Leave"      -> LeavingFrom(c, at[c].room, at[c].place + 1)
      [] at[c].op = "disconnect" -> DisconnectingFrom(c, at[c].place + 1, at[c].counter)
      [] OTHER                   -> Menu

Goes(c, place) == at' = [at EXCEPT ![c] = place]

\* The call fails with exc. An exception without a handler leaves main() or the
\* destructor, and the process with it; the destructor does not run then.
Fails(c, exc) ==
    /\ IF exc \in Catches[at[c].op]
       THEN Goes(c, Resumed(c)) /\ UNCHANGED process
       ELSE process' = [process EXCEPT ![c] = "terminated"] /\ UNCHANGED at
    /\ UNCHANGED <<environment, rooms, server, userRooms>>

-----------------------------------------------------------------------------
(* The start, and the menu. *)

\* The constructor: checkedCast of the server's proxy, whose failure is reported
\* and leaves it null, then createUser, which ends the process if the port it
\* has picked is taken.
Starts(c) ==
    /\ process[c] = "off"
    /\ \E p \in {"running", "terminated"} : process' = [process EXCEPT ![c] = p]
    /\ server' = [server EXCEPT ![c] = serverUp]
    /\ UNCHANGED <<environment, rooms, userRooms, at>>

\* The choices of the menu. Leave and postMessage make no call if userRooms has
\* no entry of that name.
Chosen(c) ==
    {Asking("getRooms", NoRoom)}
      \cup {Asking(op, r) : op \in {"newChatRoom", "listUsers", "names"}, r \in Rooms}
      \cup {Asking("join", r) : r \in {q \in Rooms : Len(userRooms[c]) < MaxJoined}}
      \cup {LeavingFrom(c, r, 1) : r \in Rooms}
      \cup {Asking("postMessage", r) : r \in {q \in Rooms : Places(c, q, 1) # {}}}
      \cup {DisconnectingFrom(c, 1, 1)}

Chooses(c) ==
    /\ c \in Running
    /\ at[c].pc = "menu"
    /\ \E place \in Chosen(c) : Goes(c, place)
    /\ UNCHANGED <<environment, rooms, process, server, userRooms>>

\* The name typed for a private message need not be one that was listed.
Addresses(c) ==
    /\ c \in Running
    /\ at[c].pc = "whom"
    /\ \E n \in Nicks : Goes(c, IF n \in at[c].names THEN Writing(at[c].room, n) ELSE Menu)
    /\ UNCHANGED <<environment, rooms, process, server, userRooms>>

-----------------------------------------------------------------------------
(* The calls at the server. *)

CallsServer(c) == c \in Running /\ at[c].pc = "server"

ServerAnswers(c) == server[c] /\ serverUp

ServerCallFails(c) ==
    /\ CallsServer(c)
    /\ ~ServerAnswers(c)
    /\ Fails(c, IF server[c] THEN "ConnectFailed" ELSE "NullHandleException")

ListsRooms(c) ==
    /\ CallsServer(c) /\ ServerAnswers(c)
    /\ at[c].op = "getRooms"
    /\ Goes(c, Menu)
    /\ UNCHANGED <<environment, rooms, process, server, userRooms>>

CreatesRoom(c) ==
    /\ CallsServer(c) /\ ServerAnswers(c)
    /\ at[c].op = "newChatRoom"
    /\ at[c].room \notin roomList
    /\ factoryKnown /\ factoryUp
    /\ roomList' = roomList \cup {at[c].room}
    /\ Goes(c, Menu)
    /\ UNCHANGED <<serverUp, crashes, factoryKnown, factoryUp, rooms, process, server,
                   userRooms>>

\* How the server's newChatRoom can fail: the name is taken, no factory is known,
\* the one that is cannot be reached, or fails itself (ChatServer's FactoryFails
\* and FactoryFailsLate; the name may be created later).
CreationFailures(r) ==
    IF r \in roomList THEN {"NameAlreadyExists"}
    ELSE IF ~factoryKnown THEN {"const char*"}
    ELSE {"UnknownLocalException"} \cup (IF factoryUp THEN RequestFailures ELSE {})

\* A request failure that comes from the factory has no handler in createRoom.
CreationFails(c) ==
    /\ CallsServer(c) /\ ServerAnswers(c)
    /\ at[c].op = "newChatRoom"
    /\ \E exc \in CreationFailures(at[c].room) : Fails(c, Received("newChatRoom", exc))

\* getRoom, the first call of every other operation.
GetsRoom(c) ==
    /\ CallsServer(c) /\ ServerAnswers(c)
    /\ at[c].op \notin {"getRooms", "newChatRoom"}
    /\ at[c].room \in roomList
    /\ at' = [at EXCEPT ![c].pc = "room"]
    /\ UNCHANGED <<environment, rooms, process, server, userRooms>>

RoomUnknown(c) ==
    /\ CallsServer(c) /\ ServerAnswers(c)
    /\ at[c].op \notin {"getRooms", "newChatRoom"}
    /\ at[c].room \notin roomList
    /\ Fails(c, Received("getRoom", "NoSuchRoom"))

-----------------------------------------------------------------------------
(* The calls at the room. *)

Listed(r) == {users[r][i] : i \in DOMAIN users[r]}

CallsRoom(c, op) == c \in Running /\ at[c].pc = "room" /\ at[c].op = op /\ factoryUp

RoomGone(c) ==
    /\ c \in Running
    /\ at[c].pc = "room"
    /\ ~factoryUp
    /\ Fails(c, "ConnectFailed")

\* A mutant: the room that was joined is not noted.
JoinsUnnoted(c) ==
    LET r == at[c].room IN
    /\ CallsRoom(c, "join")
    /\ NickOf[c] \notin Listed(r)
    /\ users' = [users EXCEPT ![r] = Append(@, NickOf[c])]
    /\ nickUserDictionary' = [nickUserDictionary EXCEPT ![r][NickOf[c]] = c]
    /\ Goes(c, Menu)
    /\ UNCHANGED <<environment, process, server, userRooms>>

Joins(c) ==
    LET r == at[c].room IN
    /\ CallsRoom(c, "join")
    /\ NickOf[c] \notin Listed(r)
    /\ users' = [users EXCEPT ![r] = Append(@, NickOf[c])]
    /\ nickUserDictionary' = [nickUserDictionary EXCEPT ![r][NickOf[c]] = c]
    /\ userRooms' = [userRooms EXCEPT ![c] = Append(@, r)]
    /\ Goes(c, Menu)
    /\ UNCHANGED <<environment, process, server>>

JoinRefused(c) ==
    /\ CallsRoom(c, "join")
    /\ NickOf[c] \in Listed(at[c].room)
    /\ Fails(c, Received("join", "NameAlreadyExists"))

\* A mutant: Leave erases the entry of the vector and keeps that of the map.
RoomUnlists(c, r) ==
    /\ users' = [users EXCEPT ![r] = Tail(@)]
    /\ UNCHANGED nickUserDictionary

\* A mutant: Leave erases the first user from both containers.
RoomForgetsFirst(c, r) ==
    /\ users' = [users EXCEPT ![r] = Tail(@)]
    /\ nickUserDictionary' = [nickUserDictionary EXCEPT ![r][Head(users[r])] = NoEntry]

\* Leave erases the first entry of the vector, whoever leaves.
RoomForgets(c, r) ==
    /\ users' = [users EXCEPT ![r] = Tail(@)]
    /\ nickUserDictionary' = [nickUserDictionary EXCEPT ![r][NickOf[c]] = NoEntry]

Without(s, i) == SubSeq(s, 1, i - 1) \o SubSeq(s, i + 1, Len(s))

\* Leave of the menu, accepted.
LeavesRoom(c) ==
    /\ CallsRoom(c, "Leave")
    /\ NickOf[c] \in Listed(at[c].room)
    /\ RoomForgets(c, at[c].room)
    /\ userRooms' = [userRooms EXCEPT ![c] = Without(@, at[c].place)]
    /\ Goes(c, Menu)
    /\ UNCHANGED <<environment, process, server>>

\* Leave in the loop of disconnect, which keeps userRooms as it is.
Disconnects(c) ==
    /\ CallsRoom(c, "disconnect")
    /\ NickOf[c] \in Listed(at[c].room)
    /\ RoomForgets(c, at[c].room)
    /\ Goes(c, DisconnectingFrom(c, at[c].place + 1, at[c].counter + 1))
    /\ UNCHANGED <<environment, process, server, userRooms>>

\* Leave in the loop of the destructor.
LeavesAgain(c) ==
    /\ CallsRoom(c, "destroy")
    /\ NickOf[c] \in Listed(at[c].room)
    /\ RoomForgets(c, at[c].room)
    /\ Goes(c, DestroyingFrom(c, at[c].place + 1))
    /\ UNCHANGED <<environment, process, server, userRooms>>

LeaveRefused(c) ==
    /\ \E op \in {"Leave", "disconnect", "destroy"} : CallsRoom(c, op)
    /\ NickOf[c] \notin Listed(at[c].room)
    /\ Fails(c, Received("Leave", "NoSuchUser"))

ListsUsers(c) ==
    /\ \E op \in {"listUsers", "names"} : CallsRoom(c, op)
    /\ Goes(c, IF at[c].op = "names" THEN Choosing(at[c].room, Listed(at[c].room)) ELSE Menu)
    /\ UNCHANGED <<environment, rooms, process, server, userRooms>>

\* Whoever the loop of postMessage calls back: the values of the map.
Audience(r) == {nickUserDictionary[r][n] : n \in Nicks} \ {NoEntry}

Posts(c) ==
    /\ CallsRoom(c, "postMessage")
    /\ NickOf[c] \in Listed(at[c].room)
    /\ Audience(at[c].room) \subseteq Running
    /\ Goes(c, Menu)
    /\ UNCHANGED <<environment, rooms, process, server, userRooms>>

\* The room refuses the message, or one of its users cannot be called back.
PostFails(c) ==
    /\ CallsRoom(c, "postMessage")
    /\ IF NickOf[c] \notin Listed(at[c].room)
       THEN Fails(c, Received("postMessage", "NoSuchUser"))
       ELSE /\ ~(Audience(at[c].room) \subseteq Running)
            /\ Fails(c, Received("postMessage", "ConnectFailed"))

\* A mutant: the room hands out the proxy of whoever it lists first.
FindsFirst(c) ==
    LET r == at[c].room n == users[r][1] IN
    /\ CallsRoom(c, "getUser")
    /\ at[c].nick \in Listed(r)
    /\ at' = [at EXCEPT ![c].pc  = "user",
                        ![c].prx = IF nickUserDictionary[r][n] = NoEntry THEN NullPrx
                                   ELSE nickUserDictionary[r][n]]
    /\ UNCHANGED <<environment, rooms, process, server, userRooms>>

\* A mutant: find(name)->second, whether or not there is such an entry.
FindsEntry(c) ==
    LET r == at[c].room n == at[c].nick IN
    /\ CallsRoom(c, "getUser")
    /\ n \in Listed(r)
    /\ at' = [at EXCEPT ![c].pc = "user", ![c].prx = nickUserDictionary[r][n]]
    /\ UNCHANGED <<environment, rooms, process, server, userRooms>>

\* getUser, which inserts a null proxy under a listed nick without an entry.
FindsUser(c) ==
    LET r == at[c].room n == at[c].nick IN
    /\ CallsRoom(c, "getUser")
    /\ n \in Listed(r)
    /\ nickUserDictionary' =
         [nickUserDictionary EXCEPT ![r][n] = IF @ = NoEntry THEN NullPrx ELSE @]
    /\ at' = [at EXCEPT ![c].pc = "user", ![c].prx = nickUserDictionary'[r][n]]
    /\ UNCHANGED <<environment, users, process, server, userRooms>>

UserUnknown(c) ==
    /\ CallsRoom(c, "getUser")
    /\ at[c].nick \notin Listed(at[c].room)
    /\ Fails(c, Received("getUser", "NoSuchUser"))

-----------------------------------------------------------------------------
(* The private message, the end of an exit, and what ends processes. *)

WritesTo(c) ==
    /\ c \in Running
    /\ at[c].pc = "user"
    /\ IF at[c].prx \in Running
       THEN /\ Goes(c, Menu)
            /\ UNCHANGED <<environment, rooms, process, server, userRooms>>
       ELSE Fails(c, IF at[c].prx = NullPrx THEN "NullHandleException" ELSE "ConnectFailed")

\* The communicator is destroyed, main() returns.
Ends(c) ==
    /\ c \in Running
    /\ at[c].pc = "done"
    /\ process' = [process EXCEPT ![c] = "ended"]
    /\ UNCHANGED <<environment, rooms, server, userRooms, at>>

Killed(c) ==
    /\ c \in Running
    /\ process' = [process EXCEPT ![c] = "killed"]
    /\ UNCHANGED <<environment, rooms, server, userRooms, at>>

\* Nothing of the server is stored.
ServerEnds ==
    /\ serverUp
    /\ crashes < MaxCrashes
    /\ serverUp' = FALSE
    /\ crashes' = crashes + 1
    /\ roomList' = {}
    /\ factoryKnown' = FALSE
    /\ UNCHANGED <<factoryUp, rooms, process, server, userRooms, at>>

ServerStarts ==
    /\ ~serverUp
    /\ serverUp' = TRUE
    /\ UNCHANGED <<crashes, factoryKnown, factoryUp, roomList, rooms, process, server,
                   userRooms, at>>

\* The factory's process is killed, with all its rooms. One that is stopped
\* unregisters first.
FactoryEnds ==
    /\ factoryUp
    /\ crashes < MaxCrashes
    /\ factoryUp' = FALSE
    /\ crashes' = crashes + 1
    /\ factoryKnown' \in {factoryKnown, factoryKnown /\ ~serverUp}
    /\ UNCHANGED <<serverUp, roomList, rooms, process, server, userRooms, at>>

-----------------------------------------------------------------------------
AtServer(c) ==
    \/ ServerCallFails(c) \/ ListsRooms(c)
    \/ CreatesRoom(c)     \/ CreationFails(c)
    \/ GetsRoom(c)        \/ RoomUnknown(c)

AtRoom(c) ==
    \/ RoomGone(c)
    \/ Joins(c)      \/ JoinRefused(c)
    \/ LeavesRoom(c) \/ Disconnects(c) \/ LeavesAgain(c) \/ LeaveRefused(c)
    \/ ListsUsers(c)
    \/ Posts(c)      \/ PostFails(c)
    \/ FindsUser(c)  \/ UserUnknown(c)

Proceeds(c) == AtServer(c) \/ AtRoom(c) \/ WritesTo(c) \/ Ends(c)

Next ==
    \/ \E c \in Clients : Starts(c) \/ Chooses(c) \/ Addresses(c)
    \/ \E c \in Clients : Proceeds(c)
    \/ \E c \in Clients : Killed(c)
    \/ ServerEnds \/ ServerStarts \/ FactoryEnds

Spec == Init /\ [][Next]_vars

(***************************************************************************)
(* A call that the main thread has begun returns or fails: the server and  *)
(* the rooms answer (CallsAnswered of modules ChatServer and ChatRoom), and *)
(* the run time reports a peer that is gone. Nothing makes the user choose. *)
(***************************************************************************)
FairSpec == Spec /\ \A c \in Clients : WF_vars(Proceeds(c))

-----------------------------------------------------------------------------
(* Properties. *)

\* A client that runs and can be written to in a room has that room in
\* userRooms, from where leaveRoom and an exit find it, although a Leave may
\* erase another user's entry, the same room may be joined twice and two clients
\* may share a name (Client.cpp:80 and 161, ChatRoomImpl.cpp:20 and 37).
Known ==
    \A c \in Running, r \in Rooms :
        nickUserDictionary[r][NickOf[c]] = c => Places(c, r, 1) # {}

\* A client that exits without an exception is in no room's map any more: no
\* later message is posted to its process, although disconnect goes on after a
\* Leave that failed (Client.cpp:31-36 and 133-150).
EndsWithoutTrace ==
    \A c \in Clients : process[c] = "ended" =>
        \A r \in Rooms, n \in Nicks : nickUserDictionary[r][n] # c

\* disconnect never reads userRooms past its end, and has left every room its
\* counter has passed (Client.cpp:137-143).
LeftSoFar ==
    \A c \in Running : at[c].op = "disconnect" =>
        /\ at[c].counter \in DOMAIN userRooms[c]
        /\ at[c].room = userRooms[c][at[c].counter]
        /\ \A k \in 1 .. at[c].counter - 1 :
             nickUserDictionary[userRooms[c][k]][NickOf[c]] # c

\* A private message goes to a user of the name that was typed, whatever became
\* of the list it was chosen from (Client.cpp:196-198).
TargetIsNamed ==
    \A c \in Running : at[c].pc = "user" =>
        at[c].prx = NullPrx \/ NickOf[at[c].prx] = at[c].nick

Life(c) == IF process[c] \in {"terminated", "killed"} THEN "dead" ELSE process[c]

Own(c) == {userRooms[c][k] : k \in DOMAIN userRooms[c]}

ReachedAs(r, n) ==
    IF nickUserDictionary[r][n] \in Clients THEN nickUserDictionary[r][n] ELSE NoEntry

\* A user is reached in a room until his own client leaves it or one of his name
\* joins or leaves it: not what Leave erases from the vector, nor the proxies that
\* getUser inserts, nor the two loops of an exit change that of anybody else
\* (ChatRoomImpl.cpp:14-43, Client.cpp:31-36, 73-78, 133-150 and 156-163).
Users == INSTANCE Membership
           WITH life    <- [c \in Clients |-> Life(c)],
                own     <- [c \in Clients |-> Own(c)],
                reached <- [r \in Rooms |-> [n \in Nicks |-> ReachedAs(r, n)]],
                Nobody  <- NoEntry

UsersReached == Users!Spec

\* An exit comes to an end, whether or not its rooms can be left.
ExitEnds ==
    \A c \in Clients : at[c].op \in {"disconnect", "destroy"} ~> c \notin Running

\* What the menu says of choice 0: it exits, and main() returns its status, as
\* long as the rooms are there to be left (Menu.cpp:14, client_runner.cpp:45).
ExitReturns ==
    [][\A c \in Clients : LeaveRefused(c) /\ at[c].op = "destroy" => c \in Running']_vars
=============================================================================
