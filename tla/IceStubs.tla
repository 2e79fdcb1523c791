------------------------------ MODULE IceStubs ------------------------------
(***************************************************************************)
(* The code slice2cpp generated from chat.ice: for each of the four        *)
(* interfaces the proxy class a caller uses (Proxy), the two halves of its *)
(* functions, which write the arguments and read the result (Begins,       *)
(* Ends), the skeleton's functions, which read the arguments and write the *)
(* result (Skeletons), the functions a servant has to define (Servant),    *)
(* and the tables by which a request finds its skeleton function.          *)
(*                                                                         *)
(* A parameter stands for itself in every table, so a table that lists the *)
(* parameters of an operation gives the order in which they are declared,  *)
(* written, read or passed on. Only the C++98 mapping is compiled.         *)
(***************************************************************************)
EXTENDS IceRpc, Integers, Sequences

Types == {"User", "ChatRoom", "ChatRoomFactory", "ChatServer"}

Result == "result"    \* stands for the result among the things that are written and read

-----------------------------------------------------------------------------
(* The proxy classes: the parameters of each operation. An invocation is     *)
(* end_op(_iceI_begin_op(...)); with begin_op a caller may end it later.     *)

UserProxy ==
    [ sendMessage        |-> <<"message", "fromWho">>,
      sendPrivateMessage |-> <<"message", "fromWho">> ]

ChatRoomProxy ==
    [ listUsers   |-> <<>>,
      join        |-> <<"nick", "who">>,
      postMessage |-> <<"message", "fromWho">>,
      getUser     |-> <<"name">>,
      Leave       |-> <<"name">> ]

ChatRoomFactoryProxy ==
    [ newChatRoom      |-> <<"name">>,
      getNumberOfRooms |-> <<>> ]

ChatServerProxy ==
    [ getRooms          |-> <<>>,
      getRoom           |-> <<"name">>,
      newChatRoom       |-> <<"name">>,
      registerFactory   |-> <<"crf">>,
      unregisterFactory |-> <<"crf">> ]

\* What every proxy inherits and checkedCast calls.
ObjectProxy == [ ice_isA |-> <<"id">> ]

ProxyOf == [ User |-> UserProxy, ChatRoom |-> ChatRoomProxy,
             ChatRoomFactory |-> ChatRoomFactoryProxy, ChatServer |-> ChatServerProxy ]

\* The operations declared by a type, and all it has.
Declared(t) == DOMAIN ProxyOf[t]
Operations(t) == Declared(t) \cup DOMAIN ObjectProxy
ParametersOf(t, op) == IF op \in Declared(t) THEN ProxyOf[t][op] ELSE ObjectProxy[op]

-----------------------------------------------------------------------------
(* _iceI_begin_op writes the arguments; end_op reads the result, if there is *)
(* one, and rethrows the user exceptions it lists.                           *)

Half(writes, reads, rethrows) == [writes |-> writes, reads |-> reads, rethrows |-> rethrows]

UserHalves ==
    [ sendMessage        |-> Half(<<"message", "fromWho">>, <<>>, {}),
      sendPrivateMessage |-> Half(<<"message", "fromWho">>, <<>>, {}) ]

ChatRoomHalves ==
    [ listUsers   |-> Half(<<>>, <<Result>>, {}),
      join        |-> Half(<<"nick", "who">>, <<>>, {"NickNotAvailable"}),
      postMessage |-> Half(<<"message", "fromWho">>, <<>>, {}),
      getUser     |-> Half(<<"name">>, <<Result>>, {"NoSuchUser"}),
      Leave       |-> Half(<<"name">>, <<>>, {}) ]

ChatRoomFactoryHalves ==
    [ newChatRoom      |-> Half(<<"name">>, <<Result>>, {}),
      getNumberOfRooms |-> Half(<<>>, <<Result>>, {}) ]

\* A mutant: begin_registerFactory without the write of its argument.
ChatServerHalvesUnwritten ==
    [ getRooms          |-> Half(<<>>, <<Result>>, {}),
      getRoom           |-> Half(<<"name">>, <<Result>>, {"NoSuchRoom"}),
      newChatRoom       |-> Half(<<"name">>, <<Result>>, {"NameAlreadyExists"}),
      registerFactory   |-> Half(<<>>, <<>>, {}),
      unregisterFactory |-> Half(<<"crf">>, <<>>, {}) ]

ChatServerHalves ==
    [ getRooms          |-> Half(<<>>, <<Result>>, {}),
      getRoom           |-> Half(<<"name">>, <<Result>>, {"NoSuchRoom"}),
      newChatRoom       |-> Half(<<"name">>, <<Result>>, {"NameAlreadyExists"}),
      registerFactory   |-> Half(<<"crf">>, <<>>, {}),
      unregisterFactory |-> Half(<<"crf">>, <<>>, {}) ]

HalvesOf == [ User |-> UserHalves, ChatRoom |-> ChatRoomHalves,
              ChatRoomFactory |-> ChatRoomFactoryHalves, ChatServer |-> ChatServerHalves ]

Halves(t, op) ==
    IF op \in Declared(t) THEN HalvesOf[t][op] ELSE Half(<<"id">>, <<Result>>, {})

-----------------------------------------------------------------------------
(* The skeletons: _iceD_op reads the arguments, passes them on to the        *)
(* servant's function and writes what it returns.                            *)

Skeleton(reads, passes, writes) == [reads |-> reads, passes |-> passes, writes |-> writes]

UserSkeletons ==
    [ sendMessage        |-> Skeleton(<<"message", "fromWho">>, <<"message", "fromWho">>, <<>>),
      sendPrivateMessage |-> Skeleton(<<"message", "fromWho">>, <<"message", "fromWho">>, <<>>) ]

\* A mutant: _iceD_postMessage reads its two strings in the other order.
ChatRoomSkeletonsSwapped ==
    [ listUsers   |-> Skeleton(<<>>, <<>>, <<Result>>),
      join        |-> Skeleton(<<"nick", "who">>, <<"nick", "who">>, <<>>),
      postMessage |-> Skeleton(<<"fromWho", "message">>, <<"message", "fromWho">>, <<>>),
      getUser     |-> Skeleton(<<"name">>, <<"name">>, <<Result>>),
      Leave       |-> Skeleton(<<"name">>, <<"name">>, <<>>) ]

ChatRoomSkeletons ==
    [ listUsers   |-> Skeleton(<<>>, <<>>, <<Result>>),
      join        |-> Skeleton(<<"nick", "who">>, <<"nick", "who">>, <<>>),
      postMessage |-> Skeleton(<<"message", "fromWho">>, <<"message", "fromWho">>, <<>>),
      getUser     |-> Skeleton(<<"name">>, <<"name">>, <<Result>>),
      Leave       |-> Skeleton(<<"name">>, <<"name">>, <<>>) ]

ChatRoomFactorySkeletons ==
    [ newChatRoom      |-> Skeleton(<<"name">>, <<"name">>, <<Result>>),
      getNumberOfRooms |-> Skeleton(<<>>, <<>>, <<Result>>) ]

ChatServerSkeletons ==
    [ getRooms          |-> Skeleton(<<>>, <<>>, <<Result>>),
      getRoom           |-> Skeleton(<<"name">>, <<"name">>, <<Result>>),
      newChatRoom       |-> Skeleton(<<"name">>, <<"name">>, <<Result>>),
      registerFactory   |-> Skeleton(<<"crf">>, <<"crf">>, <<>>),
      unregisterFactory |-> Skeleton(<<"crf">>, <<"crf">>, <<>>) ]

SkeletonsOf == [ User |-> UserSkeletons, ChatRoom |-> ChatRoomSkeletons,
                 ChatRoomFactory |-> ChatRoomFactorySkeletons,
                 ChatServer |-> ChatServerSkeletons ]

SkeletonOf(t, op) ==
    IF op \in Declared(t) THEN SkeletonsOf[t][op] ELSE Skeleton(<<"id">>, <<"id">>, <<Result>>)

-----------------------------------------------------------------------------
(* The servant classes: the parameters of the functions a servant defines.   *)

UserServant ==
    [ sendMessage |-> <<"message", "fromWho">>, sendPrivateMessage |-> <<"message", "fromWho">> ]

ChatRoomServant ==
    [ listUsers |-> <<>>, join |-> <<"nick", "who">>, postMessage |-> <<"message", "fromWho">>,
      getUser |-> <<"name">>, Leave |-> <<"name">> ]

ChatRoomFactoryServant == [ newChatRoom |-> <<"name">>, getNumberOfRooms |-> <<>> ]

ChatServerServant ==
    [ getRooms |-> <<>>, getRoom |-> <<"name">>, newChatRoom |-> <<"name">>,
      registerFactory |-> <<"crf">>, unregisterFactory |-> <<"crf">> ]

ServantOf == [ User |-> UserServant, ChatRoom |-> ChatRoomServant,
               ChatRoomFactory |-> ChatRoomFactoryServant, ChatServer |-> ChatServerServant ]

ServantParameters(t, op) == IF op \in Declared(t) THEN ServantOf[t][op] ELSE <<"id">>

-----------------------------------------------------------------------------
(* The type ids and the tables of operation names, both searched by binary   *)
(* search, which finds a name only where the table is sorted.                *)

\* The order of std::string on the names that occur.
Alphabet ==
    <<"::Ice::Object", "::chat::ChatRoom", "::chat::ChatRoomFactory", "::chat::ChatServer",
      "::chat::User", "Leave", "getNumberOfRooms", "getRoom", "getRooms", "getUser",
      "ice_id", "ice_ids", "ice_isA", "ice_ping", "join", "listUsers", "newChatRoom",
      "postMessage", "registerFactory", "sendMessage", "sendPrivateMessage",
      "unregisterFactory">>

Rank == [s \in {Alphabet[i] : i \in DOMAIN Alphabet} |->
            CHOOSE i \in DOMAIN Alphabet : Alphabet[i] = s]
Before(s, r) == Rank[s] < Rank[r]

\* std::lower_bound: the place of the first entry that is not before s; from[count]
\* searches so many entries, from the place on that it is given.
LowerBound(table, s) ==
    LET from[count \in Nat] ==
          LET half == count \div 2
          IN  [first \in Nat |->
                 IF count = 0 THEN first
                 ELSE IF Before(table[first + half], s)
                      THEN from[count - half - 1][first + half + 1]
                      ELSE from[half][first]]
    IN  from[Len(table)][1]

\* What std::binary_search tells, and std::equal_range if it is not empty.
Found(table, s) ==
    LET i == LowerBound(table, s)
    IN  i <= Len(table) /\ ~Before(s, table[i])

UserIds == <<"::Ice::Object", "::chat::User">>
ChatRoomIds == <<"::Ice::Object", "::chat::ChatRoom">>
ChatRoomFactoryIds == <<"::Ice::Object", "::chat::ChatRoomFactory">>
ChatServerIds == <<"::Ice::Object", "::chat::ChatServer">>

IdsOf == [ User |-> UserIds, ChatRoom |-> ChatRoomIds,
           ChatRoomFactory |-> ChatRoomFactoryIds, ChatServer |-> ChatServerIds ]

TypeIds == {IdsOf[t][2] : t \in Types}
StaticId(t) == IdsOf[t][2]
IsA(t, id) == Found(IdsOf[t], id)

\* The table of names, and the functions in the order of the switch's cases.
UserDispatch ==
    [ all   |-> <<"ice_id", "ice_ids", "ice_isA", "ice_ping", "sendMessage",
                  "sendPrivateMessage">>,
      cases |-> <<"ice_id", "ice_ids", "ice_isA", "ice_ping", "sendMessage",
                  "sendPrivateMessage">> ]

\* A mutant: the operations in the order of chat.ice, the inherited ones last.
ChatRoomDispatchUnsorted ==
    [ all   |-> <<"listUsers", "join", "postMessage", "getUser", "Leave", "ice_id", "ice_ids",
                  "ice_isA", "ice_ping">>,
      cases |-> <<"listUsers", "join", "postMessage", "getUser", "Leave", "ice_id", "ice_ids",
                  "ice_isA", "ice_ping">> ]

ChatRoomDispatch ==
    [ all   |-> <<"Leave", "getUser", "ice_id", "ice_ids", "ice_isA", "ice_ping", "join",
                  "listUsers", "postMessage">>,
      cases |-> <<"Leave", "getUser", "ice_id", "ice_ids", "ice_isA", "ice_ping", "join",
                  "listUsers", "postMessage">> ]

ChatRoomFactoryDispatch ==
    [ all   |-> <<"getNumberOfRooms", "ice_id", "ice_ids", "ice_isA", "ice_ping",
                  "newChatRoom">>,
      cases |-> <<"getNumberOfRooms", "ice_id", "ice_ids", "ice_isA", "ice_ping",
                  "newChatRoom">> ]

ChatServerDispatch ==
    [ all   |-> <<"getRoom", "getRooms", "ice_id", "ice_ids", "ice_isA", "ice_ping",
                  "newChatRoom", "registerFactory", "unregisterFactory">>,
      cases |-> <<"getRoom", "getRooms", "ice_id", "ice_ids", "ice_isA", "ice_ping",
                  "newChatRoom", "registerFactory", "unregisterFactory">> ]

DispatchOf == [ User |-> UserDispatch, ChatRoom |-> ChatRoomDispatch,
                ChatRoomFactory |-> ChatRoomFactoryDispatch, ChatServer |-> ChatServerDispatch ]

\* OperationNotExistException is thrown for a name that is not found.
Exists(t, op) == Found(DispatchOf[t].all, op)
Function(t, op) == DispatchOf[t].cases[LowerBound(DispatchOf[t].all, op)]

-----------------------------------------------------------------------------
(* A user exception travels as its type id. The receiver throws the class    *)
(* that was registered for the id.                                           *)

IceId ==
    [ NoSuchRoom        |-> "::chat::NoSuchRoom",
      NameAlreadyExists |-> "::chat::NameAlreadyExists",
      NoSuchUser        |-> "::chat::NoSuchUser",
      NickNotAvailable  |-> "::chat::NickNotAvailable" ]

Thrown(id) == CHOOSE e \in UserExceptions : IceId[e] = id
=============================================================================
