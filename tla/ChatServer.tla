----------------------------- MODULE ChatServer -----------------------------
(***************************************************************************)
(* The server and the room factories: the servant ChatServerImpl, the      *)
(* servants ChatRoomFactoryImpl it calls, and the factory processes that   *)
(* register themselves with it.                                            *)
(*                                                                         *)
(* The server keeps the names of its rooms in the vector `roomList', their *)
(* proxies in the map `nameChatDictionary' and the proxies of the          *)
(* factories in `roomFactoryList'. Its communicator has one dispatch       *)
(* thread, so its operations exclude each other, but newChatRoom blocks in *)
(* a call to every factory and then in a call to one of them, and any      *)
(* process may end between two of its steps. Nothing is stored: a server   *)
(* that is started again knows no room and no factory, and a factory that  *)
(* is registered once does not register again.                             *)
(*                                                                         *)
(* A member of Factories is one factory process, with the one Factory      *)
(* object that main() registers. A room is named by its factory and its    *)
(* name, which is also the name of its object adapter.                     *)
(***************************************************************************)
EXTENDS IceRpc, Integers, Sequences, FiniteSets

CONSTANTS
    Names,         \* room names
    Factories,     \* factory processes, also the proxies they register
    Callers,       \* clients of the server
    NoRoom,        \* nameChatDictionary has no entry under a name
    NullPrx,       \* a null ChatRoomPrx, as operator[] of the map constructs it
    NoName,        \* no room name
    Nobody,        \* no caller
    MaxCrashes     \* bound: how often the server process dies

ASSUME SentinelsDiffer ==
    /\ NoRoom \notin Factories /\ NullPrx \notin Factories /\ NoRoom # NullPrx
    /\ NoName \notin Names /\ Nobody \notin Callers
ASSUME MaxCrashesType == MaxCrashes \in Nat

VARIABLES
    up,                  \* the server process runs
    crashes,             \* how often it has died
    roomList,            \* ChatServerImpl::roomList, the names only
    nameChatDictionary,  \* ChatServerImpl::nameChatDictionary
    roomFactoryList,     \* ChatServerImpl::roomFactoryList
    stage,               \* where the newChatRoom in progress is
    creator,             \* its caller, or Nobody
    index,               \* its loop variable, counted from 1
    min_index,           \* the factory it has settled on so far
    goneThen,            \* the factories that were gone when it was dispatched
    process,             \* the life of each factory process
    main,                \* the call to the server its main thread is in
    job,                 \* the name in the newChatRoom call it has to execute, or NoName
    adapters,            \* the rooms whose adapters live in it
    orphans,             \* those of them whose creation failed; no action reads it
    request,             \* the call each caller waits for
    reply                \* the outcome of each caller's last call

registry == <<roomList, nameChatDictionary, roomFactoryList>>
creation == <<stage, creator, index, min_index, goneThen>>
server   == <<up, crashes, registry, creation>>
hosts    == <<process, main, job, adapters, orphans>>
calls    == <<request, reply>>
vars     == <<up, crashes, roomList, nameChatDictionary, roomFactoryList, stage, creator,
              index, min_index, goneThen, process, main, job, adapters, orphans,
              request, reply>>

Ops == {"newChatRoom", "getRoom", "getRooms"}
NoRequest == [op |-> "none", name |-> NoName]
Requests == [op : Ops, name : Names]

Named == {roomList[i] : i \in DOMAIN roomList}
Registered == {roomFactoryList[i] : i \in DOMAIN roomFactoryList}

\* The adapter of a factory's servant is active: its process runs and its
\* communicator has not been shut down.
Serving(f) == process[f] = "serving"

TypeOK ==
    /\ up \in BOOLEAN
    /\ crashes \in 0 .. MaxCrashes
    /\ roomList \in Seq(Names)
    /\ nameChatDictionary \in [Names -> Factories \cup {NoRoom, NullPrx}]
    /\ roomFactoryList \in Seq(Factories)
    /\ stage \in {"idle", "count", "ask", "made"}
    /\ creator \in Callers \cup {Nobody}
    /\ index \in Nat
    /\ min_index \in Nat
    /\ goneThen \subseteq Factories
    /\ process \in [Factories -> {"off", "serving", "stopped", "gone"}]
    /\ main \in [Factories -> {"none", "registerFactory", "unregisterFactory"}]
    /\ job \in [Factories -> Names \cup {NoName}]
    /\ adapters \in [Factories -> SUBSET Names]
    /\ orphans \in [Factories -> SUBSET Names]
    /\ request \in [Callers -> Requests \cup {NoRequest}]
    /\ reply \in [Callers -> Outcomes \cup TransportFailures \cup {"none"}]

Init ==
    /\ up = TRUE
    /\ crashes = 0
    /\ roomList = <<>>
    /\ nameChatDictionary = [n \in Names |-> NoRoom]
    /\ roomFactoryList = <<>>
    /\ stage = "idle"
    /\ creator = Nobody
    /\ index = 1
    /\ min_index = 1
    /\ goneThen = {}
    /\ process = [f \in Factories |-> "off"]
    /\ main = [f \in Factories |-> "none"]
    /\ job = [f \in Factories |-> NoName]
    /\ adapters = [f \in Factories |-> {}]
    /\ orphans = [f \in Factories |-> {}]
    /\ request = [c \in Callers |-> NoRequest]
    /\ reply = [c \in Callers |-> "none"]

-----------------------------------------------------------------------------
(* The callers. *)

Call(c, op, n) ==
    /\ request[c] = NoRequest
    /\ up
    /\ request' = [request EXCEPT ![c] = [op |-> op, name |-> n]]
    /\ reply' = [reply EXCEPT ![c] = "none"]
    /\ UNCHANGED <<server, hosts>>

CallFails(c) ==
    /\ request[c] = NoRequest
    /\ ~up
    /\ reply' = [reply EXCEPT ![c] = "ConnectFailed"]
    /\ UNCHANGED <<server, hosts, request>>

-----------------------------------------------------------------------------
(* The factory processes. *)

\* A mutant: a factory registers again, as one that lost its server might.
FactoryRegistersAgain(f) ==
    /\ process[f] \in {"off", "serving"}
    /\ main[f] = "none"
    /\ process' = [process EXCEPT ![f] = IF up THEN "serving" ELSE "gone"]
    /\ main' = [main EXCEPT ![f] = IF up THEN "registerFactory" ELSE "none"]
    /\ UNCHANGED <<server, calls, job, adapters, orphans>>

\* Without a server the constructor leaves a null proxy, and registering
\* through it ends the process.
FactoryStarts(f) ==
    /\ process[f] = "off"
    /\ process' = [process EXCEPT ![f] = IF up THEN "serving" ELSE "gone"]
    /\ main' = [main EXCEPT ![f] = IF up THEN "registerFactory" ELSE "none"]
    /\ UNCHANGED <<server, calls, job, adapters, orphans>>

\* waitForShutdown returns once no request is being executed; then the
\* destructor calls the server, and an exception in it ends the process.
FactoryStops(f) ==
    /\ Serving(f)
    /\ main[f] = "none"
    /\ job[f] = NoName
    /\ process' = [process EXCEPT ![f] = IF up THEN "stopped" ELSE "gone"]
    /\ main' = [main EXCEPT ![f] = IF up THEN "unregisterFactory" ELSE "none"]
    /\ UNCHANGED <<server, calls, job, adapters, orphans>>

\* The process is killed. A call it has sent to the server stays there.
FactoryDies(f) ==
    /\ process[f] \in {"serving", "stopped"}
    /\ process' = [process EXCEPT ![f] = "gone"]
    /\ job' = [job EXCEPT ![f] = NoName]
    /\ UNCHANGED <<server, calls, main, adapters, orphans>>

-----------------------------------------------------------------------------
(* The server, between two newChatRoom calls. *)

Free == up /\ stage = "idle"

Dispatching(c, op) == Free /\ request[c] # NoRequest /\ request[c].op = op

Answer(c, outcome) ==
    /\ request' = [request EXCEPT ![c] = NoRequest]
    /\ reply' = [reply EXCEPT ![c] = outcome]

RegisterFactory(f) ==
    /\ Free
    /\ main[f] = "registerFactory"
    /\ roomFactoryList' = Append(roomFactoryList, f)
    /\ main' = [main EXCEPT ![f] = "none"]
    /\ UNCHANGED <<up, crashes, roomList, nameChatDictionary, creation, process, job,
                   adapters, orphans, calls>>

\* The loop of unregisterFactory erases every entry equal to f; there is at
\* most one (RegisteredOnce).
Without(s, f) ==
    LET i == CHOOSE i \in DOMAIN s : s[i] = f
    IN  IF \E j \in DOMAIN s : s[j] = f
        THEN SubSeq(s, 1, i - 1) \o SubSeq(s, i + 1, Len(s))
        ELSE s

\* The factory's destructor returns, and with it main().
UnregisterFactory(f) ==
    /\ Free
    /\ main[f] = "unregisterFactory"
    /\ roomFactoryList' = Without(roomFactoryList, f)
    /\ main' = [main EXCEPT ![f] = "none"]
    /\ process' = [process EXCEPT ![f] = "gone"]
    /\ UNCHANGED <<up, crashes, roomList, nameChatDictionary, creation, job, adapters,
                   orphans, calls>>

GetRooms(c) ==
    /\ Dispatching(c, "getRooms")
    /\ Answer(c, "ok")
    /\ UNCHANGED <<server, hosts>>

GetRoomRefused(c) ==
    /\ Dispatching(c, "getRoom")
    /\ request[c].name \notin Named
    /\ Answer(c, Received("getRoom", "NoSuchRoom"))
    /\ UNCHANGED <<server, hosts>>

\* operator[] would insert a null proxy under a name without an entry.
GetRoomAccepted(c) ==
    /\ Dispatching(c, "getRoom")
    /\ request[c].name \in Named
    /\ nameChatDictionary' =
         [nameChatDictionary EXCEPT ![request[c].name] = IF @ = NoRoom THEN NullPrx ELSE @]
    /\ Answer(c, "ok")
    /\ UNCHANGED <<up, crashes, roomList, roomFactoryList, creation, hosts>>

NameTaken(c) ==
    /\ Dispatching(c, "newChatRoom")
    /\ request[c].name \in Named
    /\ Answer(c, Received("newChatRoom", "NameAlreadyExists"))
    /\ UNCHANGED <<server, hosts>>

NoFactory(c) ==
    /\ Dispatching(c, "newChatRoom")
    /\ request[c].name \notin Named
    /\ roomFactoryList = <<>>
    /\ Answer(c, Received("newChatRoom", "There is no room factories."))
    /\ UNCHANGED <<server, hosts>>

\* A mutant: newChatRoom without its scan of roomList.
CreationUnscanned(c) ==
    /\ Dispatching(c, "newChatRoom")
    /\ roomFactoryList # <<>>
    /\ stage' = "count"
    /\ creator' = c
    /\ index' = 1
    /\ min_index' = 1
    /\ goneThen' = {f \in Factories : process[f] = "gone"}
    /\ UNCHANGED <<up, crashes, registry, hosts, calls>>

CreationStarts(c) ==
    /\ Dispatching(c, "newChatRoom")
    /\ request[c].name \notin Named
    /\ roomFactoryList # <<>>
    /\ stage' = "count"
    /\ creator' = c
    /\ index' = 1
    /\ min_index' = 1
    /\ goneThen' = {f \in Factories : process[f] = "gone"}
    /\ UNCHANGED <<up, crashes, registry, hosts, calls>>

-----------------------------------------------------------------------------
(* The server, inside newChatRoom. *)

\* getNumberOfRooms is roomList.size() of the factory, and no operation of
\* ChatRoomFactoryImpl adds to its roomList.
NumberOfRooms(f) == 0

Chosen == roomFactoryList[min_index]

\* `min' is 0 and stays 0: the loop keeps the last factory with any rooms.
Counts ==
    /\ stage = "count"
    /\ index <= Len(roomFactoryList)
    /\ Serving(roomFactoryList[index])
    /\ min_index' = IF 0 < NumberOfRooms(roomFactoryList[index]) THEN index ELSE min_index
    /\ index' = index + 1
    /\ UNCHANGED <<up, crashes, registry, stage, creator, goneThen, hosts, calls>>

\* A nested call failed, and newChatRoom with it.
Abandons(exc) ==
    /\ Answer(creator, Received("newChatRoom", exc))
    /\ stage' = "idle"
    /\ creator' = Nobody
    /\ UNCHANGED <<up, crashes, registry, index, min_index, goneThen>>

\* A mutant: a factory that does not answer is passed over.
CountSkips ==
    /\ stage = "count"
    /\ index <= Len(roomFactoryList)
    /\ ~Serving(roomFactoryList[index])
    /\ min_index' = IF min_index = index /\ index < Len(roomFactoryList)
                    THEN index + 1 ELSE min_index
    /\ index' = index + 1
    /\ UNCHANGED <<up, crashes, registry, stage, creator, goneThen, hosts, calls>>

\* A mutant: a factory that does not answer is called again.
CountRetries ==
    /\ stage = "count"
    /\ index <= Len(roomFactoryList)
    /\ ~Serving(roomFactoryList[index])
    /\ UNCHANGED vars

CountFails ==
    /\ stage = "count"
    /\ index <= Len(roomFactoryList)
    /\ ~Serving(roomFactoryList[index])
    /\ Abandons("ConnectFailed")
    /\ UNCHANGED hosts

Asks ==
    /\ stage = "count"
    /\ index > Len(roomFactoryList)
    /\ stage' = "ask"
    /\ job' = IF Serving(Chosen) THEN [job EXCEPT ![Chosen] = request[creator].name] ELSE job
    /\ UNCHANGED <<up, crashes, registry, creator, index, min_index, goneThen, process,
                   main, adapters, orphans, calls>>

\* A mutant: the server gives up on a factory that is slow to answer.
AskGivesUp ==
    /\ stage = "ask"
    /\ Abandons("ConnectFailed")
    /\ UNCHANGED hosts

\* The factory that was asked cannot be reached, or ended before it answered.
AskFails ==
    /\ stage = "ask"
    /\ ~Serving(Chosen)
    /\ Abandons("ConnectFailed")
    /\ UNCHANGED hosts

Awaited(f) == stage = "ask" /\ f = Chosen

\* The room gets a port, an adapter with a name of its own, and a proxy. The
\* answer reaches the server if it still waits for it.
FactoryCreates(f) ==
    /\ Serving(f)
    /\ job[f] # NoName
    /\ job[f] \notin adapters[f]
    /\ adapters' = [adapters EXCEPT ![f] = @ \cup {job[f]}]
    /\ job' = [job EXCEPT ![f] = NoName]
    /\ stage' = IF Awaited(f) THEN "made" ELSE stage
    /\ UNCHANGED <<up, crashes, registry, creator, index, min_index, goneThen, process,
                   main, orphans, calls>>

\* Line 9 throws, and there is no adapter: the random port is taken, or the
\* adapter's name is. The server catches UnknownLocalException.
FactoryFails(f) ==
    /\ Serving(f)
    /\ job[f] # NoName
    /\ job' = [job EXCEPT ![f] = NoName]
    /\ IF Awaited(f)
       THEN \E exc \in {"SocketError", "AlreadyRegistered"} :
                Abandons(Received("factoryNewChatRoom", exc))
       ELSE UNCHANGED <<server, calls>>
    /\ UNCHANGED <<process, main, adapters, orphans>>

\* Line 10, 12 or 13 throws, and nothing destroys the adapter of line 9. The name
\* does not parse (`@', two `/'), or checkedCast does not get through, or finds no
\* servant under the identity that is left of a name with a `:'. The text of a
\* name is abstracted: any name may fail here, and any may not.
FactoryFailsLate(f) ==
    /\ Serving(f)
    /\ job[f] # NoName
    /\ job[f] \notin adapters[f]
    /\ adapters' = [adapters EXCEPT ![f] = @ \cup {job[f]}]
    /\ orphans' = [orphans EXCEPT ![f] = @ \cup {job[f]}]
    /\ job' = [job EXCEPT ![f] = NoName]
    /\ IF Awaited(f)
       THEN \E exc \in {"ParseError", "ConnectFailed", "ObjectNotExistException"} :
                Abandons(Received("factoryNewChatRoom", exc))
       ELSE UNCHANGED <<server, calls>>
    /\ UNCHANGED <<process, main>>

\* A mutant: the proxy is not entered in the map.
RoomListedUnmapped ==
    /\ stage = "made"
    /\ roomList' = Append(roomList, request[creator].name)
    /\ Answer(creator, "ok")
    /\ stage' = "idle"
    /\ creator' = Nobody
    /\ UNCHANGED <<up, crashes, nameChatDictionary, roomFactoryList, index, min_index,
                   goneThen, hosts>>

RoomListed ==
    /\ stage = "made"
    /\ roomList' = Append(roomList, request[creator].name)
    /\ nameChatDictionary' = [nameChatDictionary EXCEPT ![request[creator].name] = Chosen]
    /\ Answer(creator, "ok")
    /\ stage' = "idle"
    /\ creator' = Nobody
    /\ UNCHANGED <<up, crashes, roomFactoryList, index, min_index, goneThen, hosts>>

-----------------------------------------------------------------------------
(* The server process. *)

\* Every call that waits at the server fails, and a factory's main thread does
\* not survive the failure of its call.
ServerDies ==
    /\ up
    /\ crashes < MaxCrashes
    /\ up' = FALSE
    /\ crashes' = crashes + 1
    /\ roomList' = <<>>
    /\ nameChatDictionary' = [n \in Names |-> NoRoom]
    /\ roomFactoryList' = <<>>
    /\ stage' = "idle"
    /\ creator' = Nobody
    /\ index' = 1
    /\ min_index' = 1
    /\ goneThen' = {}
    /\ request' = [c \in Callers |-> NoRequest]
    /\ reply' = [c \in Callers |-> IF request[c] = NoRequest THEN reply[c] ELSE "ConnectionLost"]
    /\ process' = [f \in Factories |-> IF main[f] = "none" THEN process[f] ELSE "gone"]
    /\ main' = [f \in Factories |-> "none"]
    /\ job' = [f \in Factories |-> IF main[f] = "none" THEN job[f] ELSE NoName]
    /\ UNCHANGED <<adapters, orphans>>

ServerStarts ==
    /\ ~up
    /\ up' = TRUE
    /\ UNCHANGED <<crashes, registry, creation, hosts, calls>>

-----------------------------------------------------------------------------
Dispatch(c) ==
    \/ GetRooms(c)
    \/ GetRoomRefused(c) \/ GetRoomAccepted(c)
    \/ NameTaken(c) \/ NoFactory(c) \/ CreationStarts(c)

Creating == Counts \/ CountFails \/ Asks \/ AskFails \/ RoomListed

FactoryDispatch(f) == FactoryCreates(f) \/ FactoryFails(f) \/ FactoryFailsLate(f)

Registering(f) == RegisterFactory(f) \/ UnregisterFactory(f)

Next ==
    \/ \E c \in Callers : \E op \in Ops, n \in Names : Call(c, op, n)
    \/ \E c \in Callers : CallFails(c)
    \/ \E c \in Callers : Dispatch(c)
    \/ \E f \in Factories : FactoryStarts(f) \/ FactoryStops(f) \/ FactoryDies(f)
    \/ \E f \in Factories : Registering(f)
    \/ \E f \in Factories : FactoryDispatch(f)
    \/ Creating
    \/ ServerDies
    \/ ServerStarts

Spec == Init /\ [][Next]_vars

(***************************************************************************)
(* The dispatch threads of the server and of a factory keep running while  *)
(* their processes do, and a connection that is ready is not passed over   *)
(* for ever. No process has to start, stop, die or call.                   *)
(***************************************************************************)
FairSpec ==
    /\ Spec
    /\ WF_vars(Creating)
    /\ \A c \in Callers : SF_vars(Dispatch(c))
    /\ \A f \in Factories : SF_vars(Registering(f)) /\ WF_vars(FactoryDispatch(f))

-----------------------------------------------------------------------------
(* Properties. *)

\* Although newChatRoom looks for the name before it calls the factories and
\* lists it after they have answered, no name is listed twice
\* (ChatServerImpl::newChatRoom, ChatServerImpl.cpp:23-27 and 45).
NamesListedOnce == \A i, j \in DOMAIN roomList : roomList[i] = roomList[j] => i = j

\* A factory is never in the list twice, although its process may outlive the
\* server it registered with, stop, or die with its call under way
\* (Factory.cpp:11, ChatServerImpl.cpp:70-75).
RegisteredOnce ==
    \A i, j \in DOMAIN roomFactoryList : roomFactoryList[i] = roomFactoryList[j] => i = j

\* Every listed name leads getRoom to a room that was created under it to the
\* end, and no other name leads anywhere (ChatServerImpl.cpp:45-46 and 61-63).
ListedIsHosted ==
    \A n \in Names :
        IF n \in Named
        THEN /\ nameChatDictionary[n] \in Factories
             /\ n \in adapters[nameChatDictionary[n]] \ orphans[nameChatDictionary[n]]
        ELSE nameChatDictionary[n] = NoRoom

\* A factory the server knows has an adapter for each room the server lists under
\* it, for the one whose creation has not been listed yet, and for no others but
\* those whose creation failed in the factory itself after its line 9
\* (ChatServerImpl.cpp:39-46, ChatRoomFactoryImpl.cpp:9-16).
HostedIsListed ==
    \A f \in Registered : \A n \in adapters[f] :
        \/ n \in orphans[f]
        \/ n \in Named /\ nameChatDictionary[n] = f
        \/ stage = "made" /\ Chosen = f /\ n = request[creator].name

\* The three notes of a room, in the server's list, in its map and among the
\* adapters of a factory, agree whichever of newChatRoom's calls fails and
\* whichever process ends: the one thing that leaves a room the server does not
\* list is a factory that fails between its lines 9 and 16, and such a room is
\* never listed afterwards (ChatServerImpl.cpp:21-52, ChatRoomFactoryImpl.cpp:4-17).
RoomsWhole == ListedIsHosted /\ HostedIsListed

\* Whoever was registered, stopped or restarted, a factory is asked for a room
\* whose adapter it has already only if its earlier creation of that room failed
\* with the adapter made: createObjectAdapterWithEndpoints refuses no other name
\* as in use (ChatRoomFactoryImpl.cpp:9).
OnlyOrphansMetAgain ==
    \A f \in Factories : job[f] \in adapters[f] => job[f] \in orphans[f]

\* One crashed factory is enough: a newChatRoom that finds a factory in the list
\* that is gone already never lists its room (ChatServerImpl.cpp:35, where every
\* factory is called, and no operation removes one that does not answer).
DeadFactoryBlocks == [][RoomListed => Registered \cap goneThen = {}]_vars

\* The server implements the directory of module RoomDirectory, where a name is
\* bound by its entry in nameChatDictionary.
Directory == INSTANCE RoomDirectory WITH
    Hosts   <- Factories,
    Unbound <- NoRoom,
    bound   <- nameChatDictionary

ImplementsDirectory == Directory!Spec

\* Every call to the server is answered, whichever factories die while it is
\* served, and whether or not the server dies.
CallsAnswered == \A c \in Callers : request[c] # NoRequest ~> request[c] = NoRequest

\* A factory that has called the server gets on.
FactoriesProceed == \A f \in Factories : main[f] # "none" ~> main[f] = "none"

\* What the comment in newChatRoom says of the choice: it is the minimum of the
\* factories by their number of rooms (ChatServerImpl.cpp:32).
LeastLoadedAsked ==
    stage = "ask" /\ Serving(Chosen) =>
        \A f \in Registered :
            Serving(f) => Cardinality(adapters[Chosen] \ orphans[Chosen])
                             <= Cardinality(adapters[f] \ orphans[f])
=============================================================================
