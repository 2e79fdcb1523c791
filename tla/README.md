# A verification development of the RSO programs

The repository holds two distributed programs that share no code.

* `src/ice_2/`: a chat in C++ over ZeroC Ice 3.7. One server process keeps the
  directory of chat rooms, factory processes host the rooms, client processes
  join rooms, post to them and call each other.
* `src/homework 1/`: a square-root and time server over TCP in C, and its
  two-threaded client.

This directory models both: the chat's rooms, server, factories, clients and the
generated code their calls go through, and the square-root program's sessions,
transfer loops and processes. TLC checks the models on small instances; TLAPS
checks the theorems, which hold for every instance.

## 1. Inventory

| Component | Source | State | Operations | Modelled in |
|---|---|---|---|---|
| chat room servant | `Shared/ChatRoomImpl.*` | `users` (vector of nicks), `nickUserDictionary` (nick to `UserPrx`) | `join`, `Leave`, `getUser`, `postMessage`, `listUsers` | `ChatRoom`, `RoomPromise` |
| user servant | `Shared/UserImpl.*` | name | `sendMessage`, `sendPrivateMessage` | `ChatRoom`, `ChatClient` |
| chat server servant | `Shared/ChatServerImpl.*` | `roomList`, `nameChatDictionary`, `roomFactoryList` | `newChatRoom`, `getRooms`, `getRoom`, `registerFactory`, `unregisterFactory` | `ChatServer`, `RoomDirectory` |
| room factory servant | `Shared/ChatRoomFactoryImpl.*` | `roomList` (never filled), the object adapters of its communicator | `newChatRoom`, `getNumberOfRooms` | `ChatServer` |
| room factory process | `RoomFactory/*` | its proxy of the server, two communicators | constructor, `registerRoomFactory`, destructor | `ChatServer` |
| chat server process | `Server/server_runner.cpp` | the one servant | start, end | `ChatServer` |
| generated code and exceptions | `ice/chat.ice`, generated `chat.h`, `chat.cpp` | none | proxies, skeletons, dispatch tables, type ids; what the caller receives for what the servant throws | `IceStubs`, `IceCall`, `RemoteCall`, `IceRpc` |
| chat client | `Client/Client.*` | `userRooms`, its proxies | create, join, list, post, private message, leave, exit | `ChatClient`, `Membership` |
| client menu | `Client/Menu.*`, `client_runner.cpp` | none | reads a choice, calls the client | `ChatClient` (`Chosen`) |
| ports | `Shared/PortsUtil.h` | random generator | `getRandomPort` | a taken port is a failure |
| square-root server | `homework 1/server.c` | a parent, one child per connection | accept and fork; dispatch of two requests; `read_wrapper`, `write_wrapper` | `SqrtServer`, `Handover`; `SqrtSession`; `TransferLoop`, `WholeMessage` |
| square-root client | `homework 1/client.c` | two counters, `should_run`, `sockfd`, shared by two threads | send a request, receive an answer, end; the wrappers | `SqrtSession`, `AnswerQueue`; `TransferLoop` |
| build files | `Makefile`, `killer.sh` | none | none | not modelled |

### How the components interact

A client calls the server (`newChatRoom`, `getRooms`, `getRoom`) and then the
room it got a proxy of (`join`, `postMessage`, `Leave`, `getUser`,
`listUsers`). The room calls the clients back: `postMessage` calls
`sendMessage` on one user after the other and waits for each. A factory calls
the server once when it starts and once in its destructor; the server calls all
factories (`getNumberOfRooms`) and then one (`newChatRoom`) while it serves a
client's `newChatRoom`. All calls are synchronous. The code sets no Ice
property, so there is one dispatch thread per communicator and no time limit on
a call. Nothing is stored on disk.

The square-root client sends requests from its main thread and does not wait:
a second thread reads the answers from the same connection and compares the
identifier in each with a counter that the main thread increments. The server
forks one process per connection, which reads a request, answers it and reads
on.

### What is hard here

* A call that contains other calls: `newChatRoom` decides that a name is free
  before, and lists it after, calls to every factory; `postMessage` holds an
  iterator into the map across calls to every user. Any of the called processes
  may end in between, and so may the caller.
* One fact kept twice: `users` and `nickUserDictionary` in a room, `roomList`
  and `nameChatDictionary` in the server, and the room's adapter in the factory
  that neither of them can see.
* Processes that disappear and are started again: nobody tells the server that
  a factory has gone, and nobody tells a factory that the server was restarted.
* Exceptions that are not declared in `chat.ice`, which change their type on
  the way to the caller.
* Two threads that share counters, a flag and a descriptor without a lock, and
  a stream without message boundaries on which several requests are under way.
* Failures of a read that the caller ignores, or cannot see because -1 is kept
  in an unsigned integer.
* An exit that makes the same calls twice, in a loop of its own and in a
  destructor, where an exception ends the process.
* Descriptors that two processes share after a fork.

### What makes each component correct

* Room: no nick is listed twice; the two containers agree; the iterator of a
  post stays valid; a post reaches every member at most once, and all of them if
  it is answered normally; every call is answered.
* Server and factories: no name is listed twice; a listed name leads to the
  room that was created under it to the end; no other room is left at a factory
  that may be asked again, and no factory is asked for an adapter name it uses,
  but for the rooms it failed to complete itself; no factory is registered
  twice; every call is answered.
* Client: `userRooms` has every room in which the user can be written to; exit
  ends, and one that ends without an exception leaves nothing of the client
  behind; a private message goes to the user whose name was typed.
* Calls: the function that was named runs at most once, on the arguments the
  caller passed, in the order they were passed, and its outcome reaches the
  caller; every call ends.
* Square-root session: every read starts where the part it expects starts;
  answers come in the order of the requests; the client refuses no answer that
  carries the identifier it sent; every request is answered unless a process
  ends; a child process ends after its client.
* Transfer loops: they move exactly the bytes they were asked for, each to its
  place, or report failure, and end when the connection has.
* Square-root server: one process holds a connection; every connection is
  accepted; the port is free again when the processes have gone.

The `hazards` list of `PROJECT.json` has these at their lines.

## 2. Modules

    IceRpc                exceptions as the caller receives them
      IceStubs            the generated tables and functions
        IceCall           calls through them                      RemoteCall     what a call promises
          MCIceCall         IceCallProofs
      ChatRoom            the room, its clients, the calls back   RoomPromise    what it promises
        MCChatRoom        ChatRoomProofs
      ChatServer          the server, the factories, the callers  RoomDirectory  what it promises
        MCChatServer      ChatServerProofs
      ChatClient          clients, rooms and the server           Membership     what users are promised
        MCChatClient      ChatClientProofs

    SqrtServer            the parent: accept, fork, descriptors   Handover       what it promises
      SqrtServerProofs
    SqrtSession           one connection: two threads, one child  AnswerQueue    what it promises
      MCSqrtSession       SqrtSessionProofs, SqrtOrderProofs
    TransferLoop          read_wrapper and write_wrapper          WholeMessage   what they promise
      MCTransferLoop      TransferLoopProofs

An `MC` module gives names to the values of the constants and is what TLC runs; a
`Proofs` module extends the module it is about. The levels meet in what the
lower one shows and the upper one assumes: `ChatRoom` and `ChatServer` take a
call as the one step at the callee that `IceCall` shows it to be; `ChatClient`
has every call answered, which `CallsAnswered` of the other two shows;
`SqrtSession` moves whole parts or fails, which is `MovesWhole` of `TransferLoop`,
and has one child per connection, which are `OwnConnection` and `HandsOver` of
`SqrtServer`.

### IceRpc

`Received(op, exc)` is the exception the caller of `op` catches when the
servant throws `exc`. A declared user exception (`Throws`, from the throws
clauses of `chat.ice`) arrives as it is; the generated `end_*` functions of
`chat.cpp` turn any other user exception into `Ice::UnknownUserException`; the
runtime of the servant turns a local exception into
`Ice::UnknownLocalException` and the rest (newChatRoom throws a C string) into
`Ice::UnknownException`. These three share the base the callers catch. A local
exception of the group `RequestFailures` (no such object) arrives as it is, and
no caller has a handler for it.

### ChatRoom

Variables `users` and `nickUserDictionary` are the members of `ChatRoomImpl`.
Nicks are integers because the map iterates in key order. An entry of the map is
a client (whose proxy it holds), `NullPrx` or `NoEntry`; `operator[]` in
`getUser` turns the last into the second. `poster`, `todo` and `delivered` are
the post in progress: who called, the keys the iterator has yet to reach, the
keys whose user was called. `request` and `reply` are the one call each client
can have under way. `entered` restricts the clients as `Client.cpp` does: they
post and leave only in rooms they have been admitted to, and they pass their own
name. A client of the model may go on after any outcome; the real one ends
after some of them (`sendMessageToRoom` does not catch an unknown exception),
which is one of the behaviours `Terminate` allows. `inOrder` is a history
variable and no action reads it.

| Action | Code |
|---|---|
| `JoinRefused`, `JoinAccepted` | `join`, lines 8-16 |
| `LeaveRefused`, `LeaveAccepted` | `Leave`, lines 18-37 |
| `GetUserRefused`, `GetUserAccepted` | `getUser`, lines 39-48 |
| `PostRefused`, `PostStarts` | `postMessage`, lines 50-63 |
| `PostDelivers`, `PostFails`, `PostEnds` | one turn of the loop of lines 64-68; its end |
| `Call`, `Terminate` | the client's calls; the end of its process |

`join`, `Leave` and `getUser` call nobody and run on the one dispatch thread,
so each is one step. `postMessage` is cut at each `sendMessage`. A client that
has ended with a request under way does not take it back.

The rooms of one factory share a dispatch thread. A room that waits for another
one sees only delay, so one room is modelled; a message to a user whose process
runs is answered, because `sendMessage` only prints and the client's
communicator has a dispatch thread that does nothing else.

`LeaveAccepted` removes the head of `users` whoever leaves: the iterator
`counter` of line 21 is `users.begin()` and is never advanced. This is what the
code does, and the properties are stated about the code as it is.

### ChatServer

`roomList`, `nameChatDictionary` and `roomFactoryList` are the members of
`ChatServerImpl`. `stage`, `creator`, `index` and `min_index` are the
newChatRoom in progress, cut at each nested call: `count` while it asks the
factories for their number of rooms, `ask` while it waits for one of them to
create the room, `made` when the proxy has arrived. `goneThen` remembers which
factories had ended when it was dispatched and no action reads it. For every
factory, `process` is `off`, `serving`, `stopped` (its communicator is shut
down, its destructor runs) or `gone`, `main` the call its main thread is in, `job` the
room it has been asked for, `adapters` the rooms whose adapters it has, `orphans`
those of them whose creation failed; no action reads `orphans`. A member
of `Factories` is one run of the program, so a restarted factory is another
member: its ports and its adapters are new, and it knows nothing of the old one.

| Action | Code |
|---|---|
| `FactoryStarts`, `FactoryStops`, `FactoryDies` | `Factory.cpp` 4-39; the end of the process |
| `RegisterFactory`, `UnregisterFactory` | `ChatServerImpl.cpp` 70-75, 77-87 |
| `GetRooms`, `GetRoomRefused`, `GetRoomAccepted` | 54-56, 58-68 |
| `NameTaken`, `NoFactory`, `CreationStarts` | `newChatRoom`, lines 21-34 |
| `Counts`, `CountFails` | the loop of lines 34-38 |
| `Asks`, `AskFails` | the call of lines 39-40 |
| `FactoryCreates` | `ChatRoomFactoryImpl.cpp` 4-17 |
| `FactoryFails` | its line 9 throws, and there is no adapter |
| `FactoryFailsLate` | its line 10, 12 or 13 throws, and the adapter stays |
| `RoomListed` | lines 45-51 |
| `ServerDies`, `ServerStarts` | the process of `server_runner.cpp` |

Decisions a reader may want to question:

* `NumberOfRooms` is 0: `getNumberOfRooms` returns the size of a list that no
  operation of the factory extends. `min` in the loop is 0 and is never
  assigned, so `min_index` stays at the first factory.
* `unregisterFactory` erases every equal entry in its loop, `Without` the first
  one. They are the same while no factory is listed twice, which is
  `RegisteredOnce`, proved below.
* `FactoryFailsLate` does not look at the text of the name. In the code the names
  that fail there for their text are those with two `/` (line 10), with `@` or an
  unknown endpoint behind a `:` (line 12), and those of which a `:` leaves another
  identity (line 13); `checkedCast` may also fail because it is a call. The model
  lets any name fail so, any number of times, a superset. Nothing destroys the
  adapter, and the factory refuses the name (line 9) from then on.
* The two `Factory` objects that `main` constructs and never registers hold a
  null proxy; unregistering it finds no entry and they are left out.
* A factory's second communicator, in which the rooms live, belongs to the same
  process and ends with it.
* A request that a process has sent stays at its destination when the process
  ends: the server may register a factory that is already gone.

### ChatClient

`ChatRoom` and `ChatServer` each have callers that call in any order. Here the
caller is the program: `process`, `server` (the proxy may be null after a failed
start), `userRooms`, and `at`, the place of the main thread: in the menu, or
before the next call of an operation, with the loop variables of the loops that
`leaveRoom`, `disconnect` and the destructor run over `userRooms`. The other side
is composed into the module: `users` and `nickUserDictionary` of each room,
`roomList`, whether the server runs, whether it knows the one factory and whether
that runs. A private message is three calls, `getRoom`, `getUser` and
`sendPrivateMessage`, after a `listUsers`; between any two of them the other
clients run and processes end.

| Action | Code (`Client.cpp` if not named) |
|---|---|
| `Starts` | `Client::Client`, `createUser`, lines 7-28 |
| `Chooses`, `Chosen` | `client_runner.cpp` 18-50, `Menu.cpp` 17-28 |
| `ListsRooms`, `CreatesRoom`, `CreationFails` | `printListAllRooms`, `createRoom` |
| `GetsRoom`, `RoomUnknown`, `ServerCallFails`, `RoomGone` | the calls every other operation starts with, and their failures |
| `Joins`, `JoinRefused` | `joinToRoom`, 69-88 |
| `LeavesRoom`, `LeaveRefused` | `leaveRoom`, 152-172 |
| `ListsUsers` | `printUsersInRoom`, `getUsersInRoom`, 90-115 |
| `Posts`, `PostFails` | `sendMessageToRoom`, 211-237 |
| `Addresses`, `FindsUser`, `UserUnknown`, `WritesTo` | `sendPrivateMessageToUser`, 174-209 |
| `Disconnects`, `LeavesAgain`, `Ends` | `disconnect`, 133-150; the destructor, 31-40; the end of `main` |
| `Killed`, `ServerEnds`, `ServerStarts`, `FactoryEnds` | the ends of the processes |

`Catches` has the handlers of each operation. `Fails` goes on after the handler
(`Resumed`) or ends the process: an exception nobody catches leaves `main` or a
destructor, and C++ then calls `terminate`. So do a refused post
(`UnknownUserException`, for which `sendMessageToRoom` has no handler) and a
lost server. `LeavingFrom`, `DisconnectingFrom` and `DestroyingFrom` are the three
loops as they are: `leaveRoom` tries every entry of the name until one succeeds,
`disconnect` moves its iterator always and its `counter` only after a success.
`CreationFailures` has what `newChatRoom` can throw at the server: the name is
taken, there is no factory, or the factory fails as in `ChatServer`. Its
`ObjectNotExistException` arrives as itself and `createRoom` does not catch it.

`postMessage` is one step here, and its cut into calls is in `ChatRoom`. The
factory is started once, since `ChatServer` has the ones that are started again.

### IceStubs, IceCall and RemoteCall

`IceStubs` is the code `slice2cpp` generated from `chat.ice`, as tables. A
parameter stands for itself in them: the proxy's functions list the parameters
in the order they are declared, `Halves` in the order `_iceI_begin_*` writes
them, `Skeletons` in the order `_iceD_*` reads them and passes them on,
`Servant` in the order the servant's function has them. `Halves` and `Skeletons`
also say whether a result is written and read, and which user exceptions an `end_*`
function rethrows. `Dispatch` is, for each interface, the sorted table of
operation names and the cases of the `switch` that its index selects;
`LowerBound` is the binary search, and finds a name only where the table is
sorted. It is a recursive function of the number of entries left, which gives a
function of the first of them, so that a proof can reason about it.

`IceCall` makes calls through these tables: `Begins` writes a request and
`Ends` reads the reply; `Dispatches` looks the function up and reads the
arguments, `Returns` and `Throwing` end it (`Requests` and `Replies` are what can
be on the wire, `Ended` what a function can end with); `ConnectionBreaks`, `ProcessEnds`
and `ProcessRestarts` are the failures, and a request goes out a second time if
its mode lets the run time do so. `RemoteCall` is the promise: the invocation
that was asked for is run at most once, and what it ended with reaches the
caller as `IceRpc` says, unless the transport fails.

### SqrtSession

`counter`, `should_run` and `sockfd` are the globals of `client.c`. `main` is
where the main thread is: between a request and the next (`menu`), between the
write of a request and the increment of its counter (`root`, `date`), or on its
way out. `receiver` is where the second thread is: before its loop, at the
header, at the switch, at the body, or past the loop; `header` is its buffer.
`child` and `serving` are the server's child process. `toServer` and `toClient` are
the two directions of the connection, as the parts that one `read_wrapper` reads; a
`write_wrapper` sends all parts of a message. `sent`, `shown` and `babbled` record
what the user asked for and was shown, and no action decides by `shown` or
`babbled`; `Len(sent)` is compared with the bound only. `asked` in an answer's
header is the identifier of its request; it is not sent and no action reads it.

| Action | Code |
|---|---|
| `Sends`, `SendFails`, `CountsRequest` | `client.c` 269-313, 142-168 |
| `ChoosesEnd`, `Leaves` | `client.c` 85-100 |
| `ReadsHeader`, `ReadHeaderFails` | `client.c` 177-186, 103-140 |
| `ExitsOnId`, `ExitsOnCode`, `Accepts` | `client.c` 191-211 |
| `ShowsAnswer`, `ShowsGarbage`, `ExitsOnLength` | `client.c` 225-267 |
| `ChildReadsHeader`, `ChildReadsNumber`, `ChildAnswers`, `ChildReadFails` | `server.c` 90-115, 202-221, 184-266, 123-149 |
| `ChildDies`, `Resets` | the end of the child; what TCP does with data under way to a closed end |

The identifier the child takes is a value of `StackValues`: line 98 of
`server.c` reads 32 bytes past the variable, which is undefined behaviour. A
failed read leaves the receiver's buffer as it was; the model lets it hold
any code and identifier, a superset of the stale header it usually is. After the
end of the connection the receiver may go round and print what its buffer
holds for ever: `ShowsGarbage` keeps no count of it.

Several requests from one client are the interesting load; connections do not
share anything, so one is modelled. The `default` branch of the server's switch
is not: no client sends a third code, and `InStep` shows that no number is taken
for one.

### TransferLoop

One behaviour is one call of one of the four wrappers. `total`, `total_left` and
`pointer` are its variables, in the server of type `size_t`, so that what `read`
returns is taken modulo `Modulus`: -1 becomes the largest number and the test for
a negative one is never true (`server.c` 128-141). `link` is the connection as a
system call finds it, `arrived` what has reached the socket, some of the next
message included; `moved` records which place of the buffer each byte of the
stream went to. `Moves` is a call that moves from one byte to all it was asked
for; `EndOfFile`, `ReportsReset`, `BadDescriptor`, `Interrupted` and `BrokenPipe`
are the calls that move nothing; `ServerReads`, `ServerWrites`, `ClientReads` and
`ClientWrites` are what the loops do with the value. Descriptor -1 occurs in the
server's `read_wrapper` only, after a failed `accept`.

### SqrtServer

`parent` is the statement the parent is at (`accept`, `fork`, `close`),
`client_sockfd` its variable, `parentHolds` and `childHolds` the connections each
process has a descriptor of, `queue` the connections the kernel keeps for
`accept`. A failed `accept` is reported and forked for all the same
(`AcceptFails`, `server.c` 76-84); a failed `fork` returns -1, which the parent
takes for a child it has (`ForkFails`, 86-118). A child inherits the listening
socket, so the port stays in use until the last one has ended (`Listening`), and
a server that is started before that ends at `bind`.

### The abstract specifications

`RemoteCall` is described above with the calls.

`RoomPromise` is a room without its containers: one membership, changed by a
join or a Leave that is answered normally and by nothing else, and a message
that is given to each member at most once. `ChatRoom` implements it with
`members` read off the map. `users` cannot play that part: after a Leave out of
turn it is not the membership in any sense.

`RoomDirectory` is the server without the factories: `newChatRoom` answers
normally exactly when it has bound a name that was not bound, a bound name keeps
its room, `getRoom` finds exactly the bound names, and all is lost when the
server process ends. `ChatServer` implements it with `bound` as
`nameChatDictionary`.

`AnswerQueue` is the user's view of the square-root client: answers in the order
of the requests, each at most once; something else only once the processes are
no longer connected, and no true answer after it.

`Membership` is the chat as its users see it, over all rooms and clients: who is
reached under which name in which room, and which rooms a client has of its own.
`ChatClient` implements it with `reached` read off the map of each room (an entry
with a null proxy reaches nobody, so `getUser` changes nothing) and `own` off
`userRooms`. It has no vector: what `Leave` erases from `users` decides who may
still leave or post, and whom a Leave takes out of the map is its caller alone.
Each turn of `leaveRoom`, `disconnect` and the destructor is a `Leave` here, of a
room that the client has; a death in any of them is a `Die`, and `End` is the exit
that has left everything. Since names may be shared, one of the same name can end
the membership of another, and the specification says so.

`WholeMessage` is what a caller of the wrappers sees: the start of its message in
place, growing, until it has all of it or is told of a failure, and never a failure
once all was moved. `TransferLoop` implements it with `buffer` as `moved` and `ending`
as `outcome`; the counters, the calls that move nothing and those that only report an
error are steps nobody sees.

`Handover` is what the parent promises to the clients of the square-root server:
connections are accepted in their order, one at a time, each goes to one child at
most, and one that was given up stays so. `SqrtServer` implements it with the place
of a connection read off the queue and the descriptors of all processes. A failed
`accept` with its child that never ends, a failed `fork`, and the parent's own copy
of the descriptor do not show in it.

## 3. Properties

| Property | What would have to go wrong for it to fail |
|---|---|
| Room | |
| `ListedOnce` | a join after some sequence of out-of-turn leaves finds no trace of a nick that is listed |
| `LoopInv` | the map changes under the iterator of a post; a message is sent to a key twice, or after a null proxy |
| `InOrderAgrees` | the containers of the room diverge without anybody leaving out of turn |
| `KeepsPromise` | a post is answered normally although a member missed it; an exception is answered after the membership has changed |
| `CallsAnswered` | a client that ends in the middle of a post blocks the room for ever |
| Server | |
| `NamesListedOnce` | two creations of one name overlap |
| `RoomsWhole` | the server gives up a creation that the factory completes, lists one that failed there, or its list, its map and the factory's adapters disagree about a room in another way; its halves are `ListedIsHosted` and `HostedIsListed`, and the rooms the factory itself failed to complete (`orphans`) are excepted by the second |
| `OnlyOrphansMetAgain` | a factory is asked for a room it completed earlier, for this server or one before it |
| `RegisteredOnce` | a factory registers with a server that has it already |
| `DeadFactoryBlocks` | a creation succeeds although a factory of the list had died: the property states a limit of the code, that one dead factory ends all creation |
| `ImplementsDirectory` | `getRoom` refuses a name whose creation was answered normally, or the other way round |
| `CallsAnswered`, `FactoriesProceed` | a factory that dies inside a creation keeps the server waiting |
| Client | |
| `Known` | after another user's Leave, a second join and a Leave of one's own, a room the user is written to in has dropped out of `userRooms`, and no exit will leave it |
| `EndsWithoutTrace` | an exit passes over a room after a Leave that failed, and later posts to that room fail on a process that is gone |
| `LeftSoFar` | `disconnect` reads `userRooms` past its end, or its counter passes a room that was not left |
| `TargetIsNamed` | a user is replaced or leaves between `listUsers` and `getUser` and the message goes to somebody of another name. It compares names only: a user who has ended, or was replaced by one of the same name, passes |
| `UsersReached` | a Leave takes another user out of a room, a lookup or another room's exit changes whom a room reaches, a client leaves a room it has no note of, or one that failed to leave counts as ended |
| `ExitEnds` | the loops of an exit retry a room for ever |
| Calls | |
| `CallKept` | arguments are read in another order than written, a name leads to another function, a request runs twice after a broken connection, an exception arrives as another one |
| `CallsEnd` | a function without a result sends no reply; a broken connection leaves a caller waiting |
| Square-root program | |
| `InStep` | one side reads a part too few or too many, and takes a number for a header |
| `RefusesOnlyForeignIds` | an answer that overtakes the increment of its counter ends the client |
| `AnswersInOrder` | an answer is shown for the wrong request, twice, or after the end of the connection |
| `RequestsAnswered` | a request of one kind is left unanswered while both processes run on |
| `ChildFollows` | a child process outlives its client in some state of its loop |
| `ReturnsAll` | a wrapper reports success before it has moved everything, or failure after; or the read on descriptor -1 ends (it never does: its child goes on for ever) |
| `MovesWhole` | after a short read or an unseen -1 a byte lands beside its place, a byte of the next message is taken, or a failure is reported after the last byte has been moved |
| `LoopEnds` | the end of the file, or an error that an unsigned integer hides, is read again and again |
| `OwnConnection` | the parent keeps a descriptor and later children inherit it |
| `HandsOver` | a connection is accepted out of order, goes to two children, or is open in some process again after it was given up |
| `ConnectionsAccepted` | the parent waits for a process to become free, or for a failed accept |
| `PortFreed` | an orphaned child keeps the listening socket after its client has gone |

Every one of them, and the type invariant of each module, fails for a small
change of the code, named with the property in the `mutants` of `PROJECT.json`
and defined in front of the definition it changes, under the comment "A mutant".

## 4. Runs and bounds

| Run | Instance | States | Shows |
|---|---|---|---|
| `room` | 2 clients with names of their own, fairness | 13,944 | all of the room's properties |
| `server` | 2 names, 2 callers, 2 factories, 2 ends of the server | 1,247,076 | the server's safety properties |
| `server_live` | 1 name, 2 callers, 1 factory, 1 end, fairness | 8,170 | `CallsAnswered`, `FactoriesProceed` |
| `client` | 2 clients, 1 room, 2 joins, 1 end of server or factory, fairness | 235,716 | all of the client's properties |
| `call` | one call of each of the 18 operations, `ice_isA` included, on every argument list, 1 end, fairness | 7,999 | `CallKept`, `CallsEnd` |
| `sqrt` | 2 requests, 2 numbers, identifiers 0, 1 and 9 on the stack, fairness | 86,856 | all of the session's properties |
| `transfer` | messages of 0, 1, 3 and 5 bytes, a `size_t` of 4 bits, 3 failures, fairness | 2,249 | all of the loops' properties |
| `accept` | 3 connections, 2 processes, a queue of 2, fairness | 13,170 | all of the parent's properties |
| `leave_unlists`, `least_loaded`, `sqrt_id`, `exit_returns` | the least that shows it | | findings, section 7 |

Why these are enough. Every safety property of these runs is also a theorem
(section 6), so the instance has to be large enough only to fire every action
and let the mutants fail. A theorem does not depend on
it: `room` has no two users of one name and no three entries under the iterator,
the theorems have. What the instances decide are the properties that are not
proved:

* `room` and `server_live` (liveness): what can block a call is one other call, so
  two callers suffice; a factory that dies blocks by itself.
* `client` (`ExitEnds`): the loops run over `userRooms`, which has two entries for
  one room (`MaxJoined` bounds it), the case in which iterator and counter part.
* `call`: calls do not share anything but the dispatch thread, and one call
  meets every state of the connection; two values tell two arguments apart, and
  no operation has more than two.
* `sqrt` (liveness): two requests overlap, one of them under way to the server
  while the other is under way back.
* `accept` (liveness): a full queue, a failed accept with a child that never
  ends, and no process left.

The bounds on counters are `MaxCrashes`, `MaxRequests`, `MaxJoined`, `MaxErrors`
and `Behind`; they cut behaviours off and add none. The program itself bounds none
of the sets. Symmetry is used in `server` and `least_loaded` for room names, callers
and factories, which nothing orders; `least_loaded` checks an invariant, and the two
action properties of `server` do not tell one of these values from another.

No deadlock is checked where the system may really stop: all clients have ended,
a connection has lost its two ends, a wrapper has returned, all calls are made. The
server runs do check it: callers never end.

## 5. Fairness

* Room: the dispatch thread runs (`WF` of the loop of a post, which is enabled
  until it is over) and no connection with a request is passed over for ever (`SF`
  of a client's dispatch, which is disabled whenever a post is under way). The Ice
  thread pool serves every connection its selector reported before it selects
  again.
* Server: the same of the server's dispatch thread and of the factories'.
* Client: a call that has begun returns or fails (`WF` of `Proceeds`), which is what
  the two modules above show and what Ice does when a connection is lost. The user
  need not choose anything.
* Calls: the dispatch thread goes on as long as its process runs, replies arrive
  while the connection holds, a caller ends what it has begun.
* Session: each thread that is not blocked in a read runs on, and the child
  process too.
* Transfer loop: a system call that need not wait for the peer returns. The peer
  need not send or close.
* Parent: it runs on; `accept` returns a connection that waits (`SF`, since a
  failure may come first); a child reads the end of its connection.

Nobody has to call, to stop, to die, to be killed or to be started anywhere.

## 6. Proofs

The theorems hold for every value of the constants that the named assumptions
admit: nicks are integers (`NicksOrdered`), sentinels for "none" are not members
of the sets they stand beside (`SentinelsDiff`, `SentinelsDiffer`, `NoneDiffer`,
`NotConns`, `NothingApart`), bounds are natural numbers, and a buffer together with the failures
counted is shorter than the address space (`ModulusLarge`).

Room (`ChatRoomProofs`):

* `TypeCorrect`: inductive together with `LoopIdle` (no post, nothing left to
  visit), which `PostStarts` needs because it does not reset `delivered`.
* `NicksListedOnce`: `join` scans before it appends, `Tail` keeps the rest apart.
* `LoopUndisturbed`: `LoopInv`. Inductive with types and `LoopIdle`: the actions
  that change the map need `poster = Nobody`, and the post passes over the keys
  from the least one up.
* `CopiesAgree`: `InOrderAgrees`. Inductive with `ListedOnce`: the head of the
  vector occurs in it once, so removing it removes exactly the nick.
* `RoomKeepsPromise`: `Spec => Promise!Spec`, from `LoopInv`: at the end of a
  loop `delivered` is `Keys` and a subset of `Members`, so all of them were
  given the message.

Server (`ChatServerProofs`):

* `TypeCorrect`: types together with `CreationInv`: a creation in progress has a
  caller, that caller still waits with `newChatRoom`, the name is unlisted, the
  indices are inside the list.
* `FactoriesLive` and `FactoriesRegisteredOnce`: a factory that is off has not
  called; one that registers is not in the list yet; one that is in it is
  there once.
* `JobsAwaited`: a job at a factory the server knows is the one it waits for.
  Jobs that outlived their server are at factories the new server never hears of.
* `RoomsListedOnce`, `RoomsAgree` (`RoomsWhole`), `OrphansMetAgain`
  (`OnlyOrphansMetAgain`): from the above; `HostedIsListed` carries the room that
  is made and not listed through the stage `made`. What a failed creation leaves
  is an orphan from the step that makes it, and a room of which
  a factory has an adapter is created there no more, so that no orphan is listed.
* `DeadFactoriesBlock`: the loop has passed every factory before it asks, and a
  factory that is gone stays gone, so one that was gone at the start is not
  passed.
* `ServerImplementsDirectory`: `Spec => Directory!Spec`; `ListedIsHosted` makes
  "listed" and "bound" the same.

Client (`ChatClientProofs`): one invariant, `Inductive`, for `RoomsKnown`, `NoTrace`,
`CounterInside`, `TargetNamed` and `TypeCorrect`. `EndsWithoutTrace` speaks of clients
that have ended, so it needs what the loops before the end have established:
`Sound` relates the place of the main thread to `userRooms` and the rooms' maps (all
entries before the counter of `disconnect`, or before the place in the
destructor, are left). That a room that was left stays left needs that nobody
else makes an entry with this client's proxy (`Named`: an entry holds a client
of its own name). That nothing is left behind in a room that is not in
`userRooms` is `Noted`, `Known` for clients in any state. `disconnect` may skip the
last rooms, and the destructor does not: `NoTrace` holds because it ends without
an exception only if each of its Leaves succeeded. `UsersStayReached` is `Spec => Users!Spec`: that a Leave is of a
room the client has is `Sound` in each of the three loops, and that nobody is reached
any more at the end is `Noted` and `Left`; a second entry of the room in `userRooms`
may stay behind the first (`WithoutRange`).
`leaveRoom`'s next entry is a least number, whose existence rests on
well-founded inclusion of finite sets (`Least`).

Calls (`IceCallProofs`), for every set of values and of types called:

* `BinarySearchFinds`: in a table sorted without repetition, of any length, the
  search for a name that is in it ends at that name. The interval it narrows
  always holds the name (`SearchDivides`); that it gets there is an argument by
  the least length for which it would not, since the library's induction is out
  of the prover's reach. That the function exists is an induction over no state
  of the program, and is proved the same way (`SearchExists`).
* `DispatchFindsNamed`: the four tables of `chat.cpp` are sorted, and their
  `switch` has each operation at the place of its name, so every operation of an
  interface is dispatched to its own skeleton.
* `TypeCorrect` and `CallKeepsPromise` (`Spec => Promise!Spec`), from `IInv`: a
  request on the way is the one its call was begun with (`Requested`), and is there
  with the call neither run nor answered, unless it is `ice_isA`, the one mode
  the run time sends again (`Unasked`, `Served`, `Replied`); a function has the
  arguments the caller passed, in its own order (`RanAsCalled`); a reply carries
  what the function ended with, through the four orders in which a parameter list
  is written (`Completed`).

Square-root session (`SqrtSessionProofs`): `Inductive` for `EndsInStep`,
`RefusesForeign` and `TypeCorrect`. `InStep` looks at the first part of each
direction only; `ServerInStep` and `ClientInStep` say for the whole stream which
part follows which. `Reached` says that no identifier, wherever it is, exceeds
the counter it came from, and `Counted` that the counters count `sent`.

`SqrtOrderProofs`: `OrderKeptToUser` is `Spec => Answers!Spec`. The invariant
follows a request through the program: the first of `sent` are shown, the next
have answers under way (`AnswersLined`: two parts each, so the place in the
stream gives the place in `sent`), the next is with the child (`TaskLined`), the
last are on their way to it (`RequestsLined`: they have one part or two, so a
function from the parts to the places in `sent` takes the place of a sum).

Transfer loops (`TransferLoopProofs`): `Inductive` for `MovedInPlace` (what has been
moved is the start of the message; the runs see it as part of `MovesWhole`),
`MovedAll` and `TypeCorrect`. `Counted` relates the counters to the state of the connection:
exact while it can move bytes, one off once it is down, as far off as there
were failures where there never was one. So the pointer that an unseen -1 sends
in front of the buffer is never used again. It also says that a connection goes
down only with bytes of the message left, without which `WrapperKeepsPromise`
(`Spec => Message!Spec`) could not exclude a failure after the last byte.

Parent (`SqrtServerProofs`): `OneHolder` and `TypeCorrect`. `Placed` adds where a
connection can be: once in the queue and then with nobody, past it with the
parent until `fork` has returned. From it follows `ServerHandsOver`
(`Spec => Clients!Spec`): `OnePlace` makes the cases of `Place` exclude each other,
after which every step moves one connection on, or some of them to their end
(`KeptOrOver`).

Only model-checked:

* liveness (`CallsAnswered`, `FactoriesProceed`, `ExitEnds`, `CallsEnd`,
  `RequestsAnswered`, `ChildFollows`, `LoopEnds`, `ConnectionsAccepted`,
  `PortFreed`): fairness and ENABLED are outside the prover's reach;
* the findings, which are counterexamples.

## 7. Findings

Each of these has a run that ends in the counterexample.

* `Leave` erases the first of `users` whoever leaves (`ChatRoomImpl.cpp:33`); its
  comment says that it removes from both containers. The second of two users
  leaves: the first is not listed any more and cannot post or leave, the
  second stays listed without an entry. A `getUser` of that nick then enters a
  null proxy in the map and the next post ends in an exception there.
* `newChatRoom` always asks the first factory, although the comment above the
  loop speaks of the least loaded one.
* The square-root server takes the identifier from beyond the buffer
  (`server.c:98`, with the comment "copy the memory from the buffer"), so an
  answer may carry another identifier than its request; the client ends if it
  is above its counter.
* Exit of the client, once it has joined a room: `disconnect` leaves every room
  and keeps `userRooms`, the destructor leaves them again, the room refuses, and
  the exception leaves the destructor (`Client.cpp:35`). `main` never returns its
  status.

Seen while modelling and part of the models, without a run of their own:

* `join` throws `NameAlreadyExists` where `chat.ice:26` declares
  `NickNotAvailable`. The client receives `UnknownUserException`; its handler for
  `NickNotAvailable` never runs and the one for `UnknownException` does.
* `postMessage` declares no exception (`chat.ice:27`) and throws `NoSuchUser`. The
  handler for it in `sendMessageToRoom`, with the text for this case, never runs:
  the exception that arrives ends the client.
* A creation that fails in the factory after its line 9 leaves the adapter, on its
  port, with the servant (line 10 aside) and no entry at the server. The name
  is free for the server and taken at that factory: the same `newChatRoom` again
  ends in `AlreadyRegisteredException` at line 9, and, since the server always
  asks the first factory, does so as long as that factory is the first.
  `RoomsWhole` and `OnlyOrphansMetAgain` say that nothing else has this effect.
* A nick that was dropped from `users` by another user's Leave can be joined again
  while its entry is in the map. The new proxy replaces the old one, whose user
  receives nothing from then on; `RoomPromise` and `Membership` permit it.
* The branch for a failed read in the server's `read_wrapper` (`server.c:137`) is
  never taken, since the result is kept in a `size_t` (`server.c:128`). On a
  connection this delays the end of the child by one call; on descriptor -1,
  which the child has after a failed `accept`, it never ends.

## 8. Plan

The modules of the first plan are written: rooms, server, clients, calls, the
square-root program's sessions, loops and processes, each with its proofs as
far as the prover reaches. What is left, in this order:

1. `ChatSystem`: the loop of `postMessage` and the stages of `newChatRoom` in one
   composition with the clients of `ChatClient`, which now has both as single
   steps. The state space grows with the product, so this asks for a proof that
   `ChatRoom` and `ChatServer` implement the part of `ChatClient` that stands for
   them rather than for a run.
2. Several factories and a factory that is started again, in `ChatClient`.

## 9. Not modelled

* The callback classes and asynchronous overloads of `chat.h` (lines 2318-4519),
  which no program of the repository uses, and the branch of `chat.h` and `chat.cpp`
  for the C++11 mapping, which the build does not compile.
* Marshalling byte by byte: an argument or a result is one value, and what the
  tables decide is its place among the others.
* The end of standard input: `Menu.cpp:18` then repeats the last choice for ever.
  The model's user chooses what he likes, which includes that, and does not have to.
* Printing, the console, the names of files and users as strings; `getName` of
  rooms and users, which changes nothing.
* A `bind` of the square-root server that fails because an old connection of the
  port is in TIME_WAIT; `PortFreed` is about the descriptors that keep the port.
* The distribution of random ports, square roots, dates and byte orders.
* Time limits on calls and connections, which the code does not set, and a network
  that loses messages between processes that both run: both programs use TCP, where
  a loss that lasts is a broken connection, and that is modelled (`IceCall`,
  `TransferLoop`; elsewhere as the end of the peer).
* Build files.
