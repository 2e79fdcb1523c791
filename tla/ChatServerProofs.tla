-------------------------- MODULE ChatServerProofs --------------------------
(***************************************************************************)
(* What is proved of module ChatServer, for every set of names, factories  *)
(* and callers and any number of crashes: the type invariant, the         *)
(* agreement of the server's list, its map and the adapters that live in   *)
(* the factories, what a crashed factory does to the creation of rooms,    *)
(* and that the server implements RoomDirectory.                           *)
(***************************************************************************)
EXTENDS ChatServer, SequenceTheorems, TLAPS

\* The exceptions of the server as its callers meet them.
LEMMA ServerAnswers ==
    /\ Received("getRoom", "NoSuchRoom") = "NoSuchRoom"
    /\ Received("newChatRoom", "NameAlreadyExists") = "NameAlreadyExists"
    /\ Received("newChatRoom", "There is no room factories.") = "UnknownException"
    /\ Received("newChatRoom", "ConnectFailed") = "UnknownLocalException"
    /\ Received("newChatRoom", "UnknownLocalException") = "UnknownLocalException"
    /\ Received("newChatRoom", "ObjectNotExistException") = "ObjectNotExistException"
BY DEF Received, Throws, UserExceptions, LocalExceptions, RequestFailures

\* The exceptions of a factory as the server meets them.
LEMMA FactoryAnswers ==
    /\ Received("factoryNewChatRoom", "SocketError") = "UnknownLocalException"
    /\ Received("factoryNewChatRoom", "AlreadyRegistered") = "UnknownLocalException"
    /\ Received("factoryNewChatRoom", "ParseError") = "UnknownLocalException"
    /\ Received("factoryNewChatRoom", "ConnectFailed") = "UnknownLocalException"
    /\ Received("factoryNewChatRoom", "ObjectNotExistException") = "ObjectNotExistException"
BY DEF Received, Throws, UserExceptions, LocalExceptions, RequestFailures

\* What a call to the server can end with.
Ends == Outcomes \cup TransportFailures \cup {"none"}

LEMMA AnswersAreEnds ==
    {"ok", "NoSuchRoom", "NameAlreadyExists", "UnknownException", "UnknownLocalException",
     "ObjectNotExistException", "ConnectFailed", "ConnectionLost", "none"} \subseteq Ends
BY DEF Ends, Outcomes, UserExceptions, UnknownExceptions, RequestFailures, TransportFailures

LEMMA AppendEntries ==
    ASSUME NEW S, NEW s \in Seq(S), NEW e \in S
    PROVE  /\ Append(s, e) \in Seq(S)
           /\ DOMAIN s = 1 .. Len(s)
           /\ DOMAIN Append(s, e) = 1 .. Len(s) + 1
           /\ \A i \in DOMAIN s : i \in DOMAIN Append(s, e) /\ Append(s, e)[i] = s[i]
           /\ Append(s, e)[Len(s) + 1] = e
OBVIOUS

-----------------------------------------------------------------------------
(* The type invariant. *)

LEMMA AnswerTyped ==
    ASSUME TypeOK, NEW c \in Callers, NEW o \in Ends, Answer(c, o)
    PROVE  /\ request' \in [Callers -> Requests \cup {NoRequest}]
           /\ reply' \in [Callers -> Outcomes \cup TransportFailures \cup {"none"}]
BY DEF TypeOK, Answer, Ends

LEMMA RequestTyped ==
    ASSUME TypeOK, NEW c \in Callers, request[c] # NoRequest
    PROVE  request[c].name \in Names
BY DEF TypeOK, Requests

\* While a newChatRoom is in progress its caller waits, its name is not listed,
\* and the factory it has settled on is one of those that are registered.
CreationSound ==
    /\ up
    /\ creator \in Callers
    /\ request[creator] # NoRequest
    /\ request[creator].op = "newChatRoom"
    /\ request[creator].name \notin Named
    /\ min_index \in DOMAIN roomFactoryList

CreationInv == stage # "idle" => CreationSound

\* unregisterFactory leaves a list of factories, each of which was in the list
\* before, and no more often.
LEMMA Unregistered ==
    ASSUME NEW S, NEW s \in Seq(S), NEW f, NEW others, others = Without(s, f)
    PROVE  /\ others \in Seq(S)
           /\ \A i \in DOMAIN others : \E j \in DOMAIN s : others[i] = s[j]
           /\ (\A i, j \in DOMAIN s : s[i] = s[j] => i = j)
                => \A i, j \in DOMAIN others : others[i] = others[j] => i = j
<1>1. CASE \A j \in DOMAIN s : s[j] # f
  <2>1. others = s
    BY <1>1 DEF Without
  <2> QED
    BY <2>1
<1>2. CASE \E j \in DOMAIN s : s[j] = f
  <2> DEFINE k == CHOOSE i \in DOMAIN s : s[i] = f
             front == SubSeq(s, 1, k - 1)
             back == SubSeq(s, k + 1, Len(s))
  <2>1. k \in 1 .. Len(s)
    BY <1>2
  <2>2. others = front \o back
    BY <1>2 DEF Without
  <2> HIDE DEF k
  <2>3. /\ front \in Seq(S) /\ Len(front) = k - 1
        /\ \A i \in 1 .. k - 1 : front[i] = s[i]
    BY <2>1
  <2>4. /\ back \in Seq(S) /\ Len(back) = Len(s) - k
        /\ \A i \in 1 .. Len(s) - k : back[i] = s[k + i]
    BY <2>1
  <2> HIDE DEF front, back
  <2>5. others \in Seq(S) /\ Len(others) = Len(s) - 1
    <3>1. front \in Seq(S) /\ back \in Seq(S)
      BY <2>3, <2>4
    <3>2. others \in Seq(S) /\ Len(others) = Len(front) + Len(back)
      BY <2>2, <3>1, ConcatProperties
    <3> QED
      BY <2>1, <2>3, <2>4, <3>2
  <2>6. \A i \in 1 .. k - 1 : others[i] = s[i]
    BY <2>1, <2>2, <2>3, <2>4, ConcatProperties
  <2>7. \A i \in k .. Len(s) - 1 : others[i] = s[i + 1]
    <3> SUFFICES ASSUME NEW i \in k .. Len(s) - 1 PROVE others[i] = s[i + 1]
      OBVIOUS
    <3>1. others[i] = back[i - Len(front)]
      BY <2>1, <2>2, <2>3, <2>4, ConcatProperties
    <3>2. i - Len(front) \in 1 .. Len(s) - k /\ k + (i - Len(front)) = i + 1
      BY <2>1, <2>3
    <3> QED
      BY <3>1, <3>2, <2>4
  <2>8. DOMAIN others = 1 .. Len(s) - 1 /\ DOMAIN s = 1 .. Len(s) /\ Len(s) \in Nat
    BY <2>5
  <2>9. \A i \in DOMAIN others : \E j \in DOMAIN s : others[i] = s[j]
    BY <2>1, <2>6, <2>7, <2>8
  <2>10. ASSUME \A i, j \in DOMAIN s : s[i] = s[j] => i = j
         PROVE  \A i, j \in DOMAIN others : others[i] = others[j] => i = j
    <3> DEFINE from(i) == IF i < k THEN i ELSE i + 1
    <3>1. \A i \in DOMAIN others : from(i) \in DOMAIN s /\ others[i] = s[from(i)]
      BY <2>1, <2>6, <2>7, <2>8
    <3>2. \A i, j \in DOMAIN others : from(i) = from(j) => i = j
      BY <2>1, <2>8
    <3> HIDE DEF from
    <3> QED
      BY <3>1, <3>2, <2>10
  <2> QED
    BY <2>5, <2>9, <2>10
<1> QED
  BY <1>1, <1>2
-----------------------------------------------------------------------------
(* Types, and what a newChatRoom in progress can rely on. *)

\* The caller, the name and the choice of the newChatRoom in progress are known.
LEMMA CreationTyped ==
    ASSUME TypeOK, CreationInv, stage # "idle"
    PROVE  /\ creator \in Callers
           /\ request[creator].name \in Names
           /\ Chosen \in Factories /\ Chosen \in Registered
<1>1. creator \in Callers /\ request[creator] # NoRequest /\ min_index \in DOMAIN roomFactoryList
  BY DEF CreationInv, CreationSound
<1>2. Chosen \in Registered
  BY <1>1 DEF Chosen, Registered
<1>3. Chosen \in Factories
  BY <1>1 DEF Chosen, TypeOK
<1> QED
  BY <1>1, <1>2, <1>3, RequestTyped

\* However a factory fails, it has done with its call, and the creation that waits
\* for it is abandoned.
LEMMA FactoryFailure ==
    ASSUME NEW f \in Factories, FactoryFails(f) \/ FactoryFailsLate(f)
    PROVE  /\ job[f] # NoName /\ job' = [job EXCEPT ![f] = NoName]
           /\ UNCHANGED <<up, crashes, roomList, nameChatDictionary, roomFactoryList, index,
                          min_index, goneThen, process, main>>
           /\ Awaited(f) => /\ stage' = "idle" /\ creator' = Nobody
                            /\ \E o \in {"UnknownLocalException", "ObjectNotExistException"} :
                                 Answer(creator, o)
           /\ ~Awaited(f) => UNCHANGED <<stage, creator, request, reply>>
<1>1. /\ job[f] # NoName /\ job' = [job EXCEPT ![f] = NoName] /\ UNCHANGED <<process, main>>
  BY DEF FactoryFails, FactoryFailsLate
<1>2. CASE Awaited(f)
  <2>1. PICK exc \in {"SocketError", "AlreadyRegistered", "ParseError", "ConnectFailed",
                      "ObjectNotExistException"} :
          Abandons(Received("factoryNewChatRoom", exc))
    BY <1>2 DEF FactoryFails, FactoryFailsLate
  <2>2. PICK o \in {"UnknownLocalException", "ObjectNotExistException"} : Abandons(o)
    BY <2>1, FactoryAnswers
  <2>3. Answer(creator, o)
    BY <2>2, ServerAnswers DEF Abandons
  <2> QED
    BY <1>1, <1>2, <2>2, <2>3 DEF Abandons, registry
<1>3. CASE ~Awaited(f)
  BY <1>1, <1>3 DEF FactoryFails, FactoryFailsLate, server, registry, creation, calls
<1> QED
  BY <1>2, <1>3

LEMMA TypeStep == TypeOK /\ CreationInv /\ [Next]_vars => TypeOK'
<1> SUFFICES ASSUME TypeOK, CreationInv, [Next]_vars PROVE TypeOK'
  OBVIOUS
<1>1. ASSUME NEW c \in Callers, NEW op \in Ops, NEW n \in Names, Call(c, op, n) PROVE TypeOK'
  <2>1. [op |-> op, name |-> n] \in Requests
    BY DEF Requests
  <2> QED
    BY <1>1, <2>1 DEF Call, TypeOK, server, registry, creation, hosts
<1>2. ASSUME NEW c \in Callers, CallFails(c) PROVE TypeOK'
  BY <1>2, ServerAnswers, AnswersAreEnds DEF CallFails, TypeOK, Ends, server, registry, creation, hosts
<1>3. ASSUME NEW c \in Callers,
             GetRooms(c) \/ GetRoomRefused(c) \/ NameTaken(c) \/ NoFactory(c)
      PROVE TypeOK'
  <2>1. PICK o \in Ends : Answer(c, o)
    BY <1>3, ServerAnswers, AnswersAreEnds DEF GetRooms, GetRoomRefused, NameTaken, NoFactory
  <2>2. UNCHANGED <<server, hosts>>
    BY <1>3 DEF GetRooms, GetRoomRefused, NameTaken, NoFactory
  <2> QED
    BY <2>1, <2>2, AnswerTyped DEF TypeOK, server, registry, creation, hosts
<1>4. ASSUME NEW c \in Callers, GetRoomAccepted(c) PROVE TypeOK'
  <2>1. nameChatDictionary' \in [Names -> Factories \cup {NoRoom, NullPrx}]
    BY <1>4 DEF GetRoomAccepted, TypeOK
  <2>2. Answer(c, "ok")
    BY <1>4 DEF GetRoomAccepted
  <2> QED
    BY <1>4, <2>1, <2>2, AnswerTyped, ServerAnswers, AnswersAreEnds DEF GetRoomAccepted, TypeOK, creation, hosts
<1>5. ASSUME NEW c \in Callers, CreationStarts(c) PROVE TypeOK'
  <2>1. index' = 1 /\ min_index' = 1 /\ goneThen' \subseteq Factories
    BY <1>5 DEF CreationStarts
  <2> QED
    BY <1>5, <2>1 DEF CreationStarts, TypeOK, registry, hosts, calls
<1>6. ASSUME NEW f \in Factories, FactoryStarts(f) \/ FactoryStops(f) \/ FactoryDies(f)
      PROVE TypeOK'
  BY <1>6 DEF FactoryStarts, FactoryStops, FactoryDies, TypeOK, server, registry, creation, calls
<1>7. ASSUME NEW f \in Factories, RegisterFactory(f) PROVE TypeOK'
  <2>1. roomFactoryList' \in Seq(Factories)
    BY <1>7, AppendEntries DEF RegisterFactory, TypeOK
  <2> QED
    BY <1>7, <2>1 DEF RegisterFactory, TypeOK, creation, calls
<1>8. ASSUME NEW f \in Factories, UnregisterFactory(f) PROVE TypeOK'
  <2>1. roomFactoryList' \in Seq(Factories)
    BY <1>8, Unregistered DEF UnregisterFactory, TypeOK
  <2> QED
    BY <1>8, <2>1 DEF UnregisterFactory, TypeOK, creation, calls
<1>9. CASE Counts
  <2>1. index' = index + 1 /\ min_index' = min_index
    BY <1>9 DEF Counts, NumberOfRooms
  <2> QED
    BY <1>9, <2>1 DEF Counts, TypeOK, registry, hosts, calls
<1>10. CASE CountFails \/ AskFails
  <2>1. creator \in Callers
    BY <1>10, CreationTyped DEF CountFails, AskFails
  <2>2. PICK o \in Ends : Answer(creator, o)
    BY <1>10, ServerAnswers, AnswersAreEnds DEF CountFails, AskFails, Abandons
  <2> QED
    BY <1>10, <2>1, <2>2, AnswerTyped DEF CountFails, AskFails, Abandons, TypeOK, registry, hosts
<1>11. CASE Asks
  <2>1. request[creator].name \in Names /\ Chosen \in Factories
    BY <1>11, CreationTyped DEF Asks
  <2> QED
    BY <1>11, <2>1 DEF Asks, TypeOK, registry, calls
<1>12. CASE RoomListed
  <2>1. creator \in Callers /\ request[creator].name \in Names /\ Chosen \in Factories
    BY <1>12, CreationTyped DEF RoomListed
  <2>2. roomList' \in Seq(Names)
    BY <1>12, <2>1, AppendEntries DEF RoomListed, TypeOK
  <2>3. nameChatDictionary' \in [Names -> Factories \cup {NoRoom, NullPrx}]
    BY <1>12, <2>1 DEF RoomListed, TypeOK
  <2>4. Answer(creator, "ok")
    BY <1>12 DEF RoomListed
  <2> QED
    BY <1>12, <2>1, <2>2, <2>3, <2>4, AnswerTyped, ServerAnswers, AnswersAreEnds DEF RoomListed, TypeOK, hosts
<1>13. ASSUME NEW f \in Factories, FactoryCreates(f) PROVE TypeOK'
  BY <1>13 DEF FactoryCreates, TypeOK, registry, calls
<1>14. ASSUME NEW f \in Factories, FactoryFails(f) \/ FactoryFailsLate(f) PROVE TypeOK'
  <2>1. /\ job' \in [Factories -> Names \cup {NoName}]
        /\ UNCHANGED <<up, crashes, roomList, nameChatDictionary, roomFactoryList, index,
                       min_index, goneThen, process, main>>
    BY <1>14, FactoryFailure DEF TypeOK
  <2>2. adapters' \in [Factories -> SUBSET Names] /\ orphans' \in [Factories -> SUBSET Names]
    <3>1. CASE FactoryFails(f)
      BY <3>1 DEF FactoryFails, TypeOK
    <3>2. CASE FactoryFailsLate(f)
      <4>1. job[f] \in Names
        BY <3>2 DEF FactoryFailsLate, TypeOK
      <4>2. /\ adapters' = [adapters EXCEPT ![f] = @ \cup {job[f]}]
            /\ orphans' = [orphans EXCEPT ![f] = @ \cup {job[f]}]
        BY <3>2 DEF FactoryFailsLate
      <4> QED
        BY <4>1, <4>2 DEF TypeOK
    <3> QED
      BY <1>14, <3>1, <3>2
  <2>3. /\ stage' \in {"idle", "count", "ask", "made"} /\ creator' \in Callers \cup {Nobody}
        /\ request' \in [Callers -> Requests \cup {NoRequest}]
        /\ reply' \in [Callers -> Outcomes \cup TransportFailures \cup {"none"}]
    <3>1. CASE Awaited(f)
      <4>1. creator \in Callers
        BY <3>1, CreationTyped DEF Awaited
      <4>2. PICK o \in Ends : Answer(creator, o)
        BY <1>14, <3>1, FactoryFailure, AnswersAreEnds
      <4> QED
        BY <1>14, <3>1, <4>1, <4>2, FactoryFailure, AnswerTyped
    <3>2. CASE ~Awaited(f)
      BY <1>14, <3>2, FactoryFailure DEF TypeOK
    <3> QED
      BY <3>1, <3>2
  <2> QED
    BY <2>1, <2>2, <2>3 DEF TypeOK
<1>15. CASE ServerDies
  <2>1. reply' \in [Callers -> Outcomes \cup TransportFailures \cup {"none"}]
    BY <1>15, ServerAnswers, AnswersAreEnds DEF ServerDies, TypeOK, Ends
  <2>2. crashes' \in 0 .. MaxCrashes
    <3>1. crashes < MaxCrashes /\ crashes' = crashes + 1
      BY <1>15 DEF ServerDies
    <3> QED
      BY <3>1, MaxCrashesType DEF TypeOK
  <2>3. roomList' \in Seq(Names) /\ roomFactoryList' \in Seq(Factories)
    <3>1. roomList' = <<>> /\ roomFactoryList' = <<>>
      BY <1>15 DEF ServerDies
    <3> QED
      BY <3>1
  <2>4. /\ process' \in [Factories -> {"off", "serving", "stopped", "gone"}]
        /\ main' \in [Factories -> {"none", "registerFactory", "unregisterFactory"}]
        /\ job' \in [Factories -> Names \cup {NoName}]
    BY <1>15 DEF ServerDies, TypeOK
  <2> QED
    BY <1>15, <2>1, <2>2, <2>3, <2>4 DEF ServerDies, TypeOK
<1>16. CASE ServerStarts
  BY <1>16 DEF ServerStarts, TypeOK, registry, creation, hosts, calls
<1>17. CASE UNCHANGED vars
  BY <1>17 DEF vars, TypeOK
<1> QED
  BY <1>1, <1>2, <1>3, <1>4, <1>5, <1>6, <1>7, <1>8, <1>9, <1>10, <1>11, <1>12, <1>13, <1>14,
     <1>15, <1>16, <1>17
  DEF Next, Dispatch, Registering, FactoryDispatch, Creating

\* Only the dispatch thread itself moves a creation, and nothing it relies on is
\* changed under it: the factories it calls can end, but not leave the list.
LEMMA CreationStep == TypeOK /\ CreationInv /\ [Next]_vars => CreationInv'
<1> SUFFICES ASSUME TypeOK, CreationInv, [Next]_vars, stage' # "idle" PROVE CreationSound'
  BY DEF CreationInv
<1>1. CASE stage # "idle" /\ UNCHANGED <<up, roomList, roomFactoryList, creator, min_index, request>>
  BY <1>1 DEF CreationInv, CreationSound, Named
<1>2. ASSUME NEW c \in Callers, NEW op \in Ops, NEW n \in Names, Call(c, op, n) PROVE CreationSound'
  <2>1. stage # "idle" /\ c # creator
    BY <1>2 DEF Call, CreationInv, CreationSound, server, creation
  <2>2. request'[creator] = request[creator]
    BY <1>2, <2>1 DEF Call, TypeOK
  <2>3. UNCHANGED <<up, roomList, roomFactoryList, creator, min_index>>
    BY <1>2 DEF Call, server, registry, creation
  <2> QED
    BY <2>1, <2>2, <2>3 DEF CreationInv, CreationSound, Named
<1>3. ASSUME NEW c \in Callers, CreationStarts(c) PROVE CreationSound'
  <2>1. /\ up /\ request[c] # NoRequest /\ request[c].op = "newChatRoom"
        /\ request[c].name \notin Named
    BY <1>3 DEF CreationStarts, Dispatching, Free
  <2>2. 1 \in DOMAIN roomFactoryList
    <3>1. roomFactoryList \in Seq(Factories) /\ roomFactoryList # <<>>
      BY <1>3 DEF CreationStarts, TypeOK
    <3> QED
      BY <3>1
  <2>3. creator' = c /\ min_index' = 1 /\ UNCHANGED <<up, roomList, roomFactoryList, request>>
    BY <1>3 DEF CreationStarts, registry, calls
  <2> QED
    BY <2>1, <2>2, <2>3 DEF CreationSound, Named
<1>4. CASE Counts \/ Asks
  <2>1. stage = "count" /\ UNCHANGED <<up, roomList, roomFactoryList, creator, min_index, request>>
    BY <1>4 DEF Counts, Asks, NumberOfRooms, registry, calls
  <2> QED
    BY <2>1, <1>1
<1>5. ASSUME NEW f \in Factories, FactoryCreates(f) PROVE CreationSound'
  <2>1. stage # "idle"
    BY <1>5 DEF FactoryCreates, Awaited
  <2>2. UNCHANGED <<up, roomList, roomFactoryList, creator, min_index, request>>
    BY <1>5 DEF FactoryCreates, registry, calls
  <2> QED
    BY <2>1, <2>2, <1>1
<1>6. ASSUME NEW f \in Factories, FactoryFails(f) \/ FactoryFailsLate(f) PROVE CreationSound'
  BY <1>6, <1>1, FactoryFailure
<1>7. ASSUME NEW f \in Factories, FactoryStarts(f) \/ FactoryStops(f) \/ FactoryDies(f)
      PROVE CreationSound'
  BY <1>7, <1>1 DEF FactoryStarts, FactoryStops, FactoryDies, server, registry, creation, calls
<1>8. ASSUME NEW c \in Callers, CallFails(c) PROVE CreationSound'
  BY <1>8, <1>1 DEF CallFails, server, registry, creation
<1>9. CASE ServerStarts
  BY <1>9, <1>1 DEF ServerStarts, CreationInv, CreationSound, creation
<1>10. ASSUME NEW c \in Callers,
              GetRooms(c) \/ GetRoomRefused(c) \/ GetRoomAccepted(c) \/ NameTaken(c) \/ NoFactory(c)
       PROVE CreationSound'
  BY <1>10 DEF GetRooms, GetRoomRefused, GetRoomAccepted, NameTaken, NoFactory, Dispatching, Free,
               server, creation
<1>11. ASSUME NEW f \in Factories, RegisterFactory(f) \/ UnregisterFactory(f) PROVE CreationSound'
  BY <1>11 DEF RegisterFactory, UnregisterFactory, Free, creation
<1>12. CASE CountFails \/ AskFails \/ RoomListed \/ ServerDies
  BY <1>12 DEF CountFails, AskFails, RoomListed, ServerDies, Abandons
<1>13. CASE UNCHANGED vars
  BY <1>13, <1>1 DEF vars
<1> QED
  BY <1>2, <1>3, <1>4, <1>5, <1>6, <1>7, <1>8, <1>9, <1>10, <1>11, <1>12, <1>13
  DEF Next, Dispatch, Registering, FactoryDispatch, Creating

\* The variables keep their types, and what a newChatRoom in progress relies on
\* stays true until it ends.
THEOREM TypeCorrect == Spec => [](TypeOK /\ CreationInv)
<1>1. Init => TypeOK /\ CreationInv
  <2> SUFFICES ASSUME Init PROVE TypeOK /\ CreationInv
    OBVIOUS
  <2>1. roomList \in Seq(Names) /\ roomFactoryList \in Seq(Factories)
    <3>1. roomList = <<>> /\ roomFactoryList = <<>>
      BY DEF Init
    <3> QED
      BY <3>1
  <2>2. crashes \in 0 .. MaxCrashes /\ index \in Nat /\ min_index \in Nat
    <3>1. crashes = 0 /\ index = 1 /\ min_index = 1
      BY DEF Init
    <3> QED
      BY <3>1, MaxCrashesType
  <2> QED
    BY <2>1, <2>2 DEF Init, TypeOK, CreationInv
<1> QED
  BY <1>1, TypeStep, CreationStep, PTL DEF Spec

-----------------------------------------------------------------------------
(* The list of rooms. *)

\* No name is listed twice, although the scan of the list and the push onto it
\* are separated by calls to every factory (ChatServerImpl::newChatRoom).
THEOREM RoomsListedOnce == Spec => []NamesListedOnce
<1>1. Init => NamesListedOnce
  BY DEF Init, NamesListedOnce
<1>2. TypeOK /\ CreationInv /\ NamesListedOnce /\ [Next]_vars => NamesListedOnce'
  <2> SUFFICES ASSUME TypeOK, CreationInv, NamesListedOnce, [Next]_vars PROVE NamesListedOnce'
    OBVIOUS
  <2>1. CASE UNCHANGED roomList
    BY <2>1 DEF NamesListedOnce
  <2>2. CASE RoomListed
    <3> DEFINE n == request[creator].name
    <3>1. n \in Names /\ \A i \in DOMAIN roomList : roomList[i] # n
      BY <2>2, CreationTyped DEF RoomListed, CreationInv, CreationSound, Named
    <3>2. roomList \in Seq(Names) /\ roomList' = Append(roomList, n)
      BY <2>2 DEF RoomListed, TypeOK
    <3> HIDE DEF n
    <3> QED
      BY <3>1, <3>2, AppendEntries DEF NamesListedOnce
  <2>3. CASE ServerDies
    <3>1. roomList' = <<>>
      BY <2>3 DEF ServerDies
    <3> QED
      BY <3>1 DEF NamesListedOnce
  <2> QED
    BY <2>1, <2>2, <2>3
    DEF Next, Dispatch, Registering, FactoryDispatch, Creating, vars, server, registry, Call,
        CallFails, GetRooms, GetRoomRefused, GetRoomAccepted, NameTaken, NoFactory,
        CreationStarts, RegisterFactory, UnregisterFactory, FactoryStarts, FactoryStops,
        FactoryDies, Counts, CountFails, Asks, AskFails, FactoryCreates, FactoryFails,
        FactoryFailsLate, Abandons, ServerStarts
<1> QED
  BY <1>1, <1>2, TypeCorrect, PTL DEF Spec

-----------------------------------------------------------------------------
(* The factories. *)

\* Where a factory is in its life, and what follows from it: before its call to
\* registerFactory is served it is not registered and has made no room, and only
\* a process that serves has a call to execute. A failed room is one it has made.
FactoryLife(f) ==
    /\ process[f] = "off" \/ main[f] = "registerFactory" =>
         f \notin Registered /\ adapters[f] = {} /\ job[f] = NoName
    /\ main[f] # "none" => process[f] # "off"
    /\ main[f] = "unregisterFactory" => ~Serving(f)
    /\ job[f] # NoName => Serving(f)
    /\ orphans[f] \subseteq adapters[f]

LifeInv == \A f \in Factories : FactoryLife(f)

\* Neither registration nor its end touches the registration of the others.
LEMMA RegisteredAfter ==
    ASSUME TypeOK, NEW f \in Factories
    PROVE  /\ RegisterFactory(f) => Registered' = Registered \cup {f}
           /\ UnregisterFactory(f) => Registered' \subseteq Registered
<1>1. ASSUME RegisterFactory(f) PROVE Registered' = Registered \cup {f}
  <2>1. roomFactoryList \in Seq(Factories) /\ roomFactoryList' = Append(roomFactoryList, f)
    BY <1>1 DEF RegisterFactory, TypeOK
  <2> QED
    BY <2>1, AppendEntries DEF Registered
<1>2. ASSUME UnregisterFactory(f) PROVE Registered' \subseteq Registered
  <2>1. roomFactoryList \in Seq(Factories) /\ roomFactoryList' = Without(roomFactoryList, f)
    BY <1>2 DEF UnregisterFactory, TypeOK
  <2> QED
    BY <2>1, Unregistered DEF Registered
<1> QED
  BY <1>1, <1>2

LEMMA LifeStep == TypeOK /\ CreationInv /\ LifeInv /\ [Next]_vars => LifeInv'
<1> SUFFICES ASSUME TypeOK, CreationInv, LifeInv, [Next]_vars, NEW g \in Factories
             PROVE  FactoryLife(g)'
  BY DEF LifeInv
<1>0. FactoryLife(g)
  BY DEF LifeInv
<1>1. CASE UNCHANGED <<roomFactoryList, process, main, job, adapters, orphans>>
  BY <1>0, <1>1 DEF FactoryLife, Registered, Serving
<1>2. ASSUME NEW f \in Factories, FactoryStarts(f) \/ FactoryStops(f) \/ FactoryDies(f)
      PROVE  FactoryLife(g)'
  <2>1. Registered' = Registered /\ UNCHANGED <<adapters, orphans>>
    BY <1>2 DEF FactoryStarts, FactoryStops, FactoryDies, server, registry, Registered
  <2>2. CASE f = g
    BY <1>0, <1>2, <2>1, <2>2
    DEF FactoryStarts, FactoryStops, FactoryDies, FactoryLife, Serving, TypeOK
  <2>3. CASE f # g
    BY <1>0, <1>2, <2>1, <2>3
    DEF FactoryStarts, FactoryStops, FactoryDies, FactoryLife, Serving, TypeOK
  <2> QED
    BY <2>2, <2>3
<1>3. ASSUME NEW f \in Factories, RegisterFactory(f) PROVE FactoryLife(g)'
  <2>1. Registered' = Registered \cup {f}
    BY <1>3, RegisteredAfter
  <2>2. process[f] # "off"
    BY <1>3 DEF RegisterFactory, LifeInv, FactoryLife
  <2> QED
    BY <1>0, <1>3, <2>1, <2>2 DEF RegisterFactory, FactoryLife, Serving, TypeOK
<1>4. ASSUME NEW f \in Factories, UnregisterFactory(f) PROVE FactoryLife(g)'
  <2>1. Registered' \subseteq Registered
    BY <1>4, RegisteredAfter
  <2>2. job[f] = NoName
    BY <1>4 DEF UnregisterFactory, LifeInv, FactoryLife
  <2> QED
    BY <1>0, <1>4, <2>1, <2>2 DEF UnregisterFactory, FactoryLife, Serving, TypeOK
<1>5. CASE Asks
  <2>1. Chosen \in Registered /\ Chosen \in Factories
    BY <1>5, CreationTyped DEF Asks
  <2>2. Registered' = Registered /\ UNCHANGED <<process, main, adapters, orphans>>
    BY <1>5 DEF Asks, registry, Registered
  <2>3. job'[g] # NoName => job'[g] = job[g] \/ (g = Chosen /\ Serving(g))
    BY <1>5, <2>1 DEF Asks, TypeOK
  <2> QED
    BY <1>0, <2>1, <2>2, <2>3 DEF FactoryLife, Serving
<1>6. ASSUME NEW f \in Factories, FactoryCreates(f) \/ FactoryFails(f) \/ FactoryFailsLate(f)
      PROVE  FactoryLife(g)'
  <2>1. Registered' = Registered /\ UNCHANGED <<process, main>>
    BY <1>6, FactoryFailure DEF FactoryCreates, registry, Registered
  <2>2. job[f] # NoName /\ job' = [job EXCEPT ![f] = NoName]
    BY <1>6, FactoryFailure DEF FactoryCreates
  <2>3. g # f => adapters'[g] = adapters[g]
    BY <1>6 DEF FactoryCreates, FactoryFails, FactoryFailsLate, TypeOK
  <2>4. orphans'[g] \subseteq adapters'[g]
    BY <1>0, <1>6 DEF FactoryCreates, FactoryFails, FactoryFailsLate, FactoryLife, TypeOK
  <2> QED
    BY <1>0, <2>1, <2>2, <2>3, <2>4 DEF FactoryLife, Serving, TypeOK
<1>7. CASE ServerDies
  <2>1. Registered' = {}
    <3>1. roomFactoryList' = <<>>
      BY <1>7 DEF ServerDies
    <3> QED
      BY <3>1 DEF Registered
  <2>2. /\ process'[g] = IF main[g] = "none" THEN process[g] ELSE "gone"
        /\ main'[g] = "none"
        /\ job'[g] = IF main[g] = "none" THEN job[g] ELSE NoName
        /\ adapters' = adapters /\ orphans' = orphans
    BY <1>7 DEF ServerDies
  <2> QED
    BY <1>0, <2>1, <2>2 DEF FactoryLife, Serving
<1> QED
  BY <1>1, <1>2, <1>3, <1>4, <1>5, <1>6, <1>7
  DEF Next, Dispatch, Registering, FactoryDispatch, Creating, vars, server, registry, hosts, Call,
      CallFails, GetRooms, GetRoomRefused, GetRoomAccepted, NameTaken, NoFactory, CreationStarts,
      Counts, CountFails, AskFails, RoomListed, Abandons, ServerStarts

THEOREM FactoriesLive == Spec => []LifeInv
<1>1. Init => LifeInv
  BY DEF Init, LifeInv, FactoryLife, Registered
<1> QED
  BY <1>1, LifeStep, TypeCorrect, PTL DEF Spec

\* A factory is in the server's list at most once (Factory::registerRoomFactory,
\* ChatServerImpl::registerFactory and unregisterFactory).
THEOREM FactoriesRegisteredOnce == Spec => []RegisteredOnce
<1>1. Init => RegisteredOnce
  BY DEF Init, RegisteredOnce
<1>2. TypeOK /\ LifeInv /\ RegisteredOnce /\ [Next]_vars => RegisteredOnce'
  <2> SUFFICES ASSUME TypeOK, LifeInv, RegisteredOnce, [Next]_vars PROVE RegisteredOnce'
    OBVIOUS
  <2>1. CASE UNCHANGED roomFactoryList
    BY <2>1 DEF RegisteredOnce
  <2>2. ASSUME NEW f \in Factories, RegisterFactory(f) PROVE RegisteredOnce'
    <3>1. \A i \in DOMAIN roomFactoryList : roomFactoryList[i] # f
      BY <2>2 DEF RegisterFactory, LifeInv, FactoryLife, Registered
    <3>2. roomFactoryList \in Seq(Factories) /\ roomFactoryList' = Append(roomFactoryList, f)
      BY <2>2 DEF RegisterFactory, TypeOK
    <3> QED
      BY <3>1, <3>2, AppendEntries DEF RegisteredOnce
  <2>3. ASSUME NEW f \in Factories, UnregisterFactory(f) PROVE RegisteredOnce'
    <3>1. roomFactoryList \in Seq(Factories) /\ roomFactoryList' = Without(roomFactoryList, f)
      BY <2>3 DEF UnregisterFactory, TypeOK
    <3> QED
      BY <3>1, Unregistered DEF RegisteredOnce
  <2>4. CASE ServerDies
    <3>1. roomFactoryList' = <<>>
      BY <2>4 DEF ServerDies
    <3> QED
      BY <3>1 DEF RegisteredOnce
  <2> QED
    BY <2>1, <2>2, <2>3, <2>4
    DEF Next, Dispatch, Registering, FactoryDispatch, Creating, vars, server, registry, Call,
        CallFails, GetRooms, GetRoomRefused, GetRoomAccepted, NameTaken, NoFactory,
        CreationStarts, FactoryStarts, FactoryStops, FactoryDies, Counts, CountFails, Asks,
        AskFails, RoomListed, FactoryCreates, FactoryFails, FactoryFailsLate, Abandons, ServerStarts
<1> QED
  BY <1>1, <1>2, TypeCorrect, FactoriesLive, PTL DEF Spec

-----------------------------------------------------------------------------
(* The rooms and the factories that host them. *)

\* A registered factory executes newChatRoom only for the creation in progress.
\* (A factory the server does not know may still execute the call of a server
\* process that has died.)
JobInv ==
    \A f \in Registered :
        job[f] # NoName => stage = "ask" /\ f = Chosen /\ job[f] = request[creator].name

LEMMA JobStep == TypeOK /\ CreationInv /\ LifeInv /\ JobInv /\ [Next]_vars => JobInv'
<1> SUFFICES ASSUME TypeOK, CreationInv, LifeInv, JobInv, [Next]_vars,
                    NEW g \in Registered', job'[g] # NoName
             PROVE  (stage = "ask" /\ g = Chosen /\ job[g] = request[creator].name)'
  BY DEF JobInv
<1>1. CASE /\ g \in Registered /\ job'[g] = job[g]
           /\ UNCHANGED <<stage, roomFactoryList, min_index, creator, request>>
  BY <1>1 DEF JobInv, Chosen
<1>2. CASE g \in Registered /\ job'[g] = job[g] /\ stage # "ask"
  BY <1>2 DEF JobInv
<1>3. ASSUME NEW c \in Callers, NEW op \in Ops, NEW n \in Names, Call(c, op, n)
      PROVE  (stage = "ask" /\ g = Chosen /\ job[g] = request[creator].name)'
  <2>1. /\ g \in Registered /\ job' = job
        /\ UNCHANGED <<stage, roomFactoryList, min_index, creator>>
    BY <1>3 DEF Call, server, registry, creation, hosts, Registered
  <2>2. stage = "ask" /\ g = Chosen /\ job[g] = request[creator].name
    BY <2>1 DEF JobInv
  <2>3. creator # c
    BY <1>3, <2>2 DEF CreationInv, CreationSound, Call
  <2>4. request'[creator] = request[creator]
    BY <1>3, <2>3 DEF Call, TypeOK
  <2> QED
    BY <2>1, <2>2, <2>4 DEF Chosen
<1>4. ASSUME NEW f \in Factories, FactoryStarts(f) \/ FactoryStops(f) \/ FactoryDies(f)
      PROVE  (stage = "ask" /\ g = Chosen /\ job[g] = request[creator].name)'
  <2>1. /\ g \in Registered /\ UNCHANGED <<stage, roomFactoryList, min_index, creator, request>>
    BY <1>4 DEF FactoryStarts, FactoryStops, FactoryDies, server, registry, creation, calls, Registered
  <2>2. g \in Factories
    BY <2>1 DEF Registered, TypeOK
  <2>3. job'[g] = job[g]
    BY <1>4, <2>2 DEF FactoryStarts, FactoryStops, FactoryDies, TypeOK
  <2> QED
    BY <2>1, <2>3, <1>1
<1>5. ASSUME NEW f \in Factories, RegisterFactory(f) \/ UnregisterFactory(f)
      PROVE  (stage = "ask" /\ g = Chosen /\ job[g] = request[creator].name)'
  <2>1. g \in Registered \/ (g = f /\ main[f] = "registerFactory")
    BY <1>5, RegisteredAfter DEF RegisterFactory
  <2>2. stage = "idle" /\ job' = job
    BY <1>5 DEF RegisterFactory, UnregisterFactory, Free
  <2>3. g \in Registered
    BY <2>1, <2>2 DEF LifeInv, FactoryLife
  <2> QED
    BY <2>2, <2>3, <1>2
<1>6. CASE Asks
  <2>1. g \in Registered /\ UNCHANGED <<roomFactoryList, min_index, creator, request>>
    BY <1>6 DEF Asks, registry, calls, Registered
  <2>2. stage' = "ask" /\ job[g] = NoName
    BY <1>6, <2>1 DEF Asks, JobInv
  <2>3. Chosen \in Factories
    BY <1>6, CreationTyped DEF Asks
  <2>4. g = Chosen /\ job'[g] = request[creator].name
    BY <1>6, <2>2, <2>3 DEF Asks, TypeOK
  <2> QED
    BY <2>1, <2>2, <2>4 DEF Chosen
<1>7. ASSUME NEW f \in Factories, FactoryCreates(f) \/ FactoryFails(f) \/ FactoryFailsLate(f)
      PROVE  (stage = "ask" /\ g = Chosen /\ job[g] = request[creator].name)'
  <2>1. g \in Registered /\ roomFactoryList' = roomFactoryList /\ min_index' = min_index
    BY <1>7, FactoryFailure DEF FactoryCreates, registry, Registered
  <2>2. g \in Factories
    BY <2>1 DEF Registered, TypeOK
  <2>3. g # f /\ job'[g] = job[g]
    BY <1>7, <2>2, FactoryFailure DEF FactoryCreates, TypeOK
  <2>4. ~Awaited(f)
    BY <2>1, <2>3 DEF JobInv, Awaited
  <2>5. UNCHANGED <<stage, creator, request>>
    BY <1>7, <2>4, FactoryFailure DEF FactoryCreates, calls
  <2> QED
    BY <2>1, <2>3, <2>5, <1>1
<1>8. CASE AskFails
  <2>1. g \in Registered /\ job'[g] = job[g]
    BY <1>8 DEF AskFails, Abandons, registry, hosts, Registered
  <2>2. g = Chosen /\ ~Serving(Chosen) /\ g \in Factories
    BY <1>8, <2>1 DEF AskFails, JobInv, Registered, TypeOK
  <2> QED
    BY <2>1, <2>2 DEF LifeInv, FactoryLife
<1>9. CASE ServerDies
  <2>1. roomFactoryList' = <<>>
    BY <1>9 DEF ServerDies
  <2> QED
    BY <2>1 DEF Registered
<1>10. CASE Counts \/ CountFails \/ RoomListed
  <2>1. stage # "ask" /\ roomFactoryList' = roomFactoryList /\ job' = job
    BY <1>10 DEF Counts, CountFails, RoomListed, Abandons, registry, hosts
  <2> QED
    BY <2>1, <1>2 DEF Registered
<1>11. ASSUME NEW c \in Callers,
              \/ GetRooms(c) \/ GetRoomRefused(c) \/ GetRoomAccepted(c)
              \/ NameTaken(c) \/ NoFactory(c) \/ CreationStarts(c)
       PROVE  (stage = "ask" /\ g = Chosen /\ job[g] = request[creator].name)'
  <2>1. stage = "idle" /\ roomFactoryList' = roomFactoryList /\ job' = job
    BY <1>11 DEF GetRooms, GetRoomRefused, GetRoomAccepted, NameTaken, NoFactory, CreationStarts,
                 Dispatching, Free, server, registry, hosts
  <2> QED
    BY <2>1, <1>2 DEF Registered
<1>12. ASSUME NEW c \in Callers, CallFails(c)
       PROVE  (stage = "ask" /\ g = Chosen /\ job[g] = request[creator].name)'
  BY <1>12, <1>1 DEF CallFails, server, registry, creation, hosts, Registered
<1>13. CASE ServerStarts \/ UNCHANGED vars
  BY <1>13, <1>1 DEF ServerStarts, vars, registry, creation, hosts, calls, Registered
<1> QED
  BY <1>3, <1>4, <1>5, <1>6, <1>7, <1>8, <1>9, <1>10, <1>11, <1>12, <1>13
  DEF Next, Dispatch, Registering, FactoryDispatch, Creating

THEOREM JobsAwaited == Spec => []JobInv
<1>1. Init => JobInv
  BY DEF Init, JobInv, Registered
<1> QED
  BY <1>1, JobStep, TypeCorrect, FactoriesLive, PTL DEF Spec

\* Rooms are added to factories and never taken from them, and a creation that
\* fails leaves the rooms that were made before it what they were.
LEMMA AdaptersGrow ==
    ASSUME TypeOK, [Next]_vars, NEW g \in Factories
    PROVE  /\ orphans[g] \subseteq orphans'[g]
           /\ adapters[g] \ orphans[g] \subseteq adapters'[g] \ orphans'[g]
<1>1. CASE UNCHANGED <<adapters, orphans>>
  BY <1>1
<1>2. ASSUME NEW f \in Factories, FactoryCreates(f) \/ FactoryFailsLate(f)
      PROVE  /\ orphans[g] \subseteq orphans'[g]
             /\ adapters[g] \ orphans[g] \subseteq adapters'[g] \ orphans'[g]
  <2>1. CASE g = f
    BY <1>2, <2>1 DEF FactoryCreates, FactoryFailsLate, TypeOK
  <2>2. CASE g # f
    BY <1>2, <2>2 DEF FactoryCreates, FactoryFailsLate, TypeOK
  <2> QED
    BY <2>1, <2>2
<1> QED
  BY <1>1, <1>2
  DEF Next, Dispatch, Registering, FactoryDispatch, Creating, vars, hosts, Call, CallFails,
      GetRooms, GetRoomRefused, GetRoomAccepted, NameTaken, NoFactory, CreationStarts,
      RegisterFactory, UnregisterFactory, FactoryStarts, FactoryStops, FactoryDies, Counts,
      CountFails, Asks, AskFails, RoomListed, FactoryFails, ServerDies, ServerStarts

\* The room whose creation the server is about to list lives in the factory that
\* was asked for it, which has created it to the end.
MadeIsHosted == stage = "made" => request[creator].name \in adapters[Chosen] \ orphans[Chosen]

LEMMA MadeStep ==
    TypeOK /\ CreationInv /\ LifeInv /\ JobInv /\ MadeIsHosted /\ [Next]_vars => MadeIsHosted'
<1> SUFFICES ASSUME TypeOK, CreationInv, LifeInv, JobInv, MadeIsHosted, [Next]_vars,
                    stage' = "made"
             PROVE  (request[creator].name \in adapters[Chosen] \ orphans[Chosen])'
  BY DEF MadeIsHosted
<1>1. CASE /\ stage = "made"
           /\ UNCHANGED <<roomFactoryList, min_index, creator>>
           /\ request'[creator] = request[creator]
  <2>1. Chosen \in Factories /\ Chosen' = Chosen
    BY <1>1, CreationTyped DEF Chosen
  <2> QED
    BY <1>1, <2>1, AdaptersGrow DEF MadeIsHosted
<1>2. ASSUME NEW c \in Callers, NEW op \in Ops, NEW n \in Names, Call(c, op, n)
      PROVE  (request[creator].name \in adapters[Chosen] \ orphans[Chosen])'
  <2>1. stage = "made" /\ UNCHANGED <<roomFactoryList, min_index, creator>>
    BY <1>2 DEF Call, server, registry, creation
  <2>2. creator # c
    BY <1>2, <2>1 DEF CreationInv, CreationSound, Call
  <2>3. request'[creator] = request[creator]
    BY <1>2, <2>2 DEF Call, TypeOK
  <2> QED
    BY <2>1, <2>3, <1>1
<1>3. ASSUME NEW f \in Factories, FactoryCreates(f)
      PROVE  (request[creator].name \in adapters[Chosen] \ orphans[Chosen])'
  <2>1. UNCHANGED <<roomFactoryList, min_index, creator, request>>
    BY <1>3 DEF FactoryCreates, registry, calls
  <2>2. CASE Awaited(f)
    <3>1. stage # "idle" /\ f = Chosen /\ Chosen' = Chosen
      BY <2>1, <2>2 DEF Awaited, Chosen
    <3>2. f \in Registered
      BY <3>1, CreationTyped
    <3>3. job[f] = request[creator].name
      BY <1>3, <3>2 DEF FactoryCreates, JobInv
    <3>4. job[f] \in adapters'[f] \ orphans'[f]
      BY <1>3 DEF FactoryCreates, LifeInv, FactoryLife, TypeOK
    <3> QED
      BY <2>1, <3>1, <3>3, <3>4
  <2>3. CASE ~Awaited(f)
    <3>1. stage = "made"
      BY <1>3, <2>3 DEF FactoryCreates
    <3> QED
      BY <2>1, <3>1, <1>1
  <2> QED
    BY <2>2, <2>3
<1>4. CASE stage = "made" /\ UNCHANGED <<roomFactoryList, min_index, creator, request>>
  BY <1>4, <1>1
<1>5. ASSUME NEW f \in Factories, FactoryFails(f) \/ FactoryFailsLate(f)
      PROVE  stage = "made" /\ UNCHANGED <<roomFactoryList, min_index, creator, request>>
  BY <1>5, FactoryFailure
<1> QED
  BY <1>2, <1>3, <1>4, <1>5
  DEF Next, Dispatch, Registering, FactoryDispatch, Creating, vars, server, registry, creation,
      hosts, calls, CallFails, Dispatching, Free, GetRooms, GetRoomRefused, GetRoomAccepted,
      NameTaken, NoFactory, CreationStarts, RegisterFactory, UnregisterFactory, FactoryStarts,
      FactoryStops, FactoryDies, Counts, CountFails, Asks, AskFails, RoomListed, Abandons,
      ServerDies, ServerStarts

\* Listing a room names it, and leads its name to its factory.
LEMMA Listing ==
    ASSUME TypeOK, CreationInv, RoomListed
    PROVE  /\ request[creator].name \in Names \ Named
           /\ Chosen \in Factories
           /\ Named' = Named \cup {request[creator].name}
           /\ nameChatDictionary'
                = [nameChatDictionary EXCEPT ![request[creator].name] = Chosen]
           /\ UNCHANGED <<roomFactoryList, adapters, orphans>>
<1> DEFINE n == request[creator].name
<1>1. n \in Names \ Named /\ Chosen \in Factories
  BY CreationTyped DEF RoomListed, CreationInv, CreationSound
<1>2. roomList \in Seq(Names) /\ roomList' = Append(roomList, n)
  BY DEF RoomListed, TypeOK
<1>3. Named' = Named \cup {n}
  <2> HIDE DEF n
  <2> QED
    BY <1>1, <1>2, AppendEntries DEF Named
<1> QED
  BY <1>1, <1>3 DEF RoomListed, hosts

LEMMA ListedStep ==
    /\ TypeOK /\ CreationInv /\ MadeIsHosted /\ ListedIsHosted /\ [Next]_vars
    => ListedIsHosted'
<1> SUFFICES ASSUME TypeOK, CreationInv, MadeIsHosted, ListedIsHosted, [Next]_vars,
                    NEW n \in Names
             PROVE  (IF n \in Named
                     THEN /\ nameChatDictionary[n] \in Factories
                          /\ n \in adapters[nameChatDictionary[n]]
                                     \ orphans[nameChatDictionary[n]]
                     ELSE nameChatDictionary[n] = NoRoom)'
  BY DEF ListedIsHosted
<1>0. IF n \in Named
      THEN /\ nameChatDictionary[n] \in Factories
           /\ n \in adapters[nameChatDictionary[n]] \ orphans[nameChatDictionary[n]]
      ELSE nameChatDictionary[n] = NoRoom
  BY DEF ListedIsHosted
<1>1. CASE roomList' = roomList /\ nameChatDictionary'[n] = nameChatDictionary[n]
  BY <1>0, <1>1, AdaptersGrow DEF Named
<1>2. ASSUME NEW c \in Callers, GetRoomAccepted(c)
      PROVE  roomList' = roomList /\ nameChatDictionary'[n] = nameChatDictionary[n]
  BY <1>0, <1>2, SentinelsDiffer DEF GetRoomAccepted, TypeOK
<1>3. CASE RoomListed
  <2>1. CASE n = request[creator].name
    <3>1. n \in Named' /\ nameChatDictionary'[n] = Chosen /\ Chosen \in Factories
      BY <1>3, <2>1, Listing DEF TypeOK
    <3>2. n \in adapters'[Chosen] \ orphans'[Chosen]
      BY <1>3, <2>1, Listing DEF MadeIsHosted, RoomListed
    <3> QED
      BY <3>1, <3>2
  <2>2. CASE n # request[creator].name
    <3>1. /\ n \in Named' <=> n \in Named
          /\ nameChatDictionary'[n] = nameChatDictionary[n]
          /\ adapters' = adapters /\ orphans' = orphans
      BY <1>3, <2>2, Listing DEF TypeOK
    <3> QED
      BY <1>0, <3>1
  <2> QED
    BY <2>1, <2>2
<1>4. CASE ServerDies
  <2>1. roomList' = <<>> /\ nameChatDictionary'[n] = NoRoom
    BY <1>4 DEF ServerDies
  <2> QED
    BY <2>1 DEF Named
<1> QED
  BY <1>1, <1>2, <1>3, <1>4
  DEF Next, Dispatch, Registering, FactoryDispatch, Creating, vars, server, registry, Call,
      CallFails, GetRooms, GetRoomRefused, NameTaken, NoFactory, CreationStarts,
      RegisterFactory, UnregisterFactory, FactoryStarts, FactoryStops, FactoryDies, Counts,
      CountFails, Asks, AskFails, FactoryCreates, FactoryFails, FactoryFailsLate, Abandons,
      ServerStarts

LEMMA HostedStep ==
    /\ TypeOK /\ CreationInv /\ LifeInv /\ JobInv /\ ListedIsHosted /\ HostedIsListed
    /\ [Next]_vars
    => HostedIsListed'
<1> DEFINE Hosted(g, n) == \/ n \in orphans[g]
                           \/ n \in Named /\ nameChatDictionary[n] = g
                           \/ stage = "made" /\ Chosen = g /\ n = request[creator].name
<1> SUFFICES ASSUME TypeOK, CreationInv, LifeInv, JobInv, ListedIsHosted, HostedIsListed,
                    [Next]_vars, NEW g \in Registered', NEW n \in adapters'[g]
             PROVE  Hosted(g, n)'
  BY DEF HostedIsListed
\* The case of a failed creation is the same for every step.
<1>0. \A h \in Registered : orphans[h] \subseteq orphans'[h]
  BY AdaptersGrow DEF Registered, TypeOK
<1>1. CASE /\ g \in Registered /\ n \in adapters[g]
           /\ UNCHANGED <<roomList, nameChatDictionary, stage, roomFactoryList, min_index, creator>>
           /\ stage = "made" => request'[creator] = request[creator]
  BY <1>0, <1>1 DEF HostedIsListed, Named, Chosen
<1>2. CASE /\ g \in Registered /\ n \in adapters[g] /\ stage # "made"
           /\ UNCHANGED <<roomList, nameChatDictionary>>
  BY <1>0, <1>2 DEF HostedIsListed, Named
<1>3. ASSUME NEW c \in Callers, NEW op \in Ops, NEW m \in Names, Call(c, op, m)
      PROVE  Hosted(g, n)'
  <2>1. /\ g \in Registered /\ n \in adapters[g]
        /\ UNCHANGED <<roomList, nameChatDictionary, stage, roomFactoryList, min_index, creator>>
    BY <1>3 DEF Call, server, registry, creation, hosts, Registered
  <2>2. stage = "made" => creator # c
    BY <1>3 DEF CreationInv, CreationSound, Call
  <2>3. stage = "made" => request'[creator] = request[creator]
    BY <1>3, <2>2 DEF Call, TypeOK
  <2> QED
    BY <2>1, <2>3, <1>1
<1>4. ASSUME NEW c \in Callers, GetRoomAccepted(c) PROVE Hosted(g, n)'
  <2>1. nameChatDictionary' = nameChatDictionary
    <3>1. request[c].name \in Named /\ request[c].name \in Names
      BY <1>4, RequestTyped DEF GetRoomAccepted, Dispatching
    <3>2. nameChatDictionary[request[c].name] # NoRoom
      BY <3>1, SentinelsDiffer DEF ListedIsHosted
    <3> QED
      BY <1>4, <3>2 DEF GetRoomAccepted, TypeOK
  <2> QED
    BY <1>4, <2>1, <1>2 DEF GetRoomAccepted, Dispatching, Free, hosts, Registered
<1>5. ASSUME NEW f \in Factories, RegisterFactory(f) \/ UnregisterFactory(f) PROVE Hosted(g, n)'
  <2>1. g \in Registered \/ (g = f /\ main[f] = "registerFactory")
    BY <1>5, RegisteredAfter DEF RegisterFactory
  <2>2. /\ stage = "idle" /\ adapters' = adapters
        /\ UNCHANGED <<roomList, nameChatDictionary>>
    BY <1>5 DEF RegisterFactory, UnregisterFactory, Free
  <2>3. g \in Registered
    BY <2>1, <2>2 DEF LifeInv, FactoryLife
  <2> QED
    BY <2>2, <2>3, <1>2
<1>6. ASSUME NEW f \in Factories, FactoryCreates(f) PROVE Hosted(g, n)'
  <2>1. /\ g \in Registered
        /\ UNCHANGED <<roomList, nameChatDictionary, roomFactoryList, min_index, creator, request>>
    BY <1>6 DEF FactoryCreates, registry, calls, Registered
  <2>2. CASE n \in adapters[g] /\ ~Awaited(f)
    <3>1. stage' = stage
      BY <1>6, <2>2 DEF FactoryCreates
    <3> QED
      BY <2>1, <2>2, <3>1, <1>1
  <2>3. CASE n \in adapters[g] /\ Awaited(f)
    BY <2>1, <2>3, <1>2 DEF Awaited
  <2>4. CASE n \notin adapters[g]
    <3>1. g = f /\ n = job[f]
      BY <1>6, <2>4 DEF FactoryCreates, TypeOK
    <3>2. stage = "ask" /\ f = Chosen /\ n = request[creator].name
      BY <1>6, <2>1, <3>1 DEF FactoryCreates, JobInv
    <3>3. stage' = "made"
      BY <1>6, <3>2 DEF FactoryCreates, Awaited
    <3> QED
      BY <2>1, <3>1, <3>2, <3>3 DEF Chosen
  <2> QED
    BY <2>2, <2>3, <2>4
<1>7. ASSUME NEW f \in Factories, FactoryFails(f) \/ FactoryFailsLate(f) PROVE Hosted(g, n)'
  <2>1. g \in Registered /\ UNCHANGED <<roomList, nameChatDictionary, roomFactoryList, min_index>>
    BY <1>7, FactoryFailure DEF Registered
  <2>2. n \in adapters[g] \/ n \in orphans'[g]
    BY <1>7, <2>1 DEF FactoryFails, FactoryFailsLate, Registered, TypeOK
  <2>3. CASE n \in adapters[g] /\ Awaited(f)
    BY <2>1, <2>3, <1>2 DEF Awaited
  <2>4. CASE n \in adapters[g] /\ ~Awaited(f)
    <3>1. UNCHANGED <<stage, creator, request>>
      BY <1>7, <2>4, FactoryFailure
    <3> QED
      BY <2>1, <2>4, <3>1, <1>1
  <2> QED
    BY <2>2, <2>3, <2>4
<1>8. CASE RoomListed
  <2>1. /\ Named' = Named \cup {request[creator].name}
        /\ nameChatDictionary' = [nameChatDictionary EXCEPT ![request[creator].name] = Chosen]
        /\ g \in Registered /\ n \in adapters[g]
        /\ request[creator].name \in Names \ Named
    BY <1>8, Listing DEF Registered
  <2>2. CASE n \in Named /\ nameChatDictionary[n] = g
    BY <2>1, <2>2 DEF TypeOK
  <2>3. CASE Chosen = g /\ n = request[creator].name
    BY <2>1, <2>3 DEF TypeOK
  <2> QED
    BY <1>0, <2>1, <2>2, <2>3 DEF HostedIsListed
<1>9. CASE ServerDies
  <2>1. roomFactoryList' = <<>>
    BY <1>9 DEF ServerDies
  <2> QED
    BY <2>1 DEF Registered
<1>10. CASE Counts \/ CountFails \/ Asks \/ AskFails
  <2>1. /\ stage # "made" /\ g \in Registered /\ n \in adapters[g]
        /\ UNCHANGED <<roomList, nameChatDictionary>>
    BY <1>10 DEF Counts, CountFails, Asks, AskFails, Abandons, registry, hosts, Registered
  <2> QED
    BY <2>1, <1>2
<1>11. ASSUME NEW c \in Callers,
              \/ GetRooms(c) \/ GetRoomRefused(c)
              \/ NameTaken(c) \/ NoFactory(c) \/ CreationStarts(c)
       PROVE  Hosted(g, n)'
  <2>1. /\ stage # "made" /\ g \in Registered /\ n \in adapters[g]
        /\ UNCHANGED <<roomList, nameChatDictionary>>
    BY <1>11 DEF GetRooms, GetRoomRefused, NameTaken, NoFactory, CreationStarts, Dispatching, Free,
                 server, registry, hosts, Registered
  <2> QED
    BY <2>1, <1>2
<1>12. ASSUME NEW f \in Factories, FactoryStarts(f) \/ FactoryStops(f) \/ FactoryDies(f)
       PROVE  Hosted(g, n)'
  BY <1>12, <1>1 DEF FactoryStarts, FactoryStops, FactoryDies, server, registry, creation, calls,
                     Registered
<1>13. ASSUME NEW c \in Callers, CallFails(c) PROVE Hosted(g, n)'
  BY <1>13, <1>1 DEF CallFails, server, registry, creation, hosts, Registered
<1>14. CASE ServerStarts \/ UNCHANGED vars
  BY <1>14, <1>1 DEF ServerStarts, vars, registry, creation, hosts, calls, Registered
<1> QED
  BY <1>3, <1>4, <1>5, <1>6, <1>7, <1>8, <1>9, <1>10, <1>11, <1>12, <1>13, <1>14
  DEF Next, Dispatch, Registering, FactoryDispatch, Creating

\* The server's list, its map and the adapters in the factories agree, through
\* failures of every nested call and the end of any process: every listed name
\* leads to a room that its factory created to the end, and a factory the server
\* knows has no adapter but for those, for the one about to be listed and for the
\* creations that failed in it after line 9 (ChatServerImpl::newChatRoom, getRoom,
\* ChatRoomFactoryImpl::newChatRoom).
THEOREM RoomsAgree == Spec => []RoomsWhole
<1>1. Init => MadeIsHosted /\ ListedIsHosted /\ HostedIsListed
  BY DEF Init, MadeIsHosted, ListedIsHosted, HostedIsListed, Named, Registered
<1>2. RoomsWhole <=> ListedIsHosted /\ HostedIsListed
  BY DEF RoomsWhole
<1> QED
  BY <1>1, <1>2, MadeStep, ListedStep, HostedStep, TypeCorrect, FactoriesLive, JobsAwaited, PTL
  DEF Spec

\* A factory that is asked for a room whose adapter it has already is one where an
\* earlier creation of that room failed: no other name meets the refusal of
\* createObjectAdapterWithEndpoints (ChatRoomFactoryImpl.cpp:9).
THEOREM OrphansMetAgain == Spec => []OnlyOrphansMetAgain
<1>1. Init => OnlyOrphansMetAgain
  BY DEF Init, OnlyOrphansMetAgain
<1>2. /\ TypeOK /\ CreationInv /\ HostedIsListed /\ OnlyOrphansMetAgain /\ [Next]_vars
      => OnlyOrphansMetAgain'
  <2> SUFFICES ASSUME TypeOK, CreationInv, HostedIsListed, OnlyOrphansMetAgain, [Next]_vars,
                      NEW g \in Factories, job'[g] \in adapters'[g]
               PROVE  job'[g] \in orphans'[g]
    BY DEF OnlyOrphansMetAgain
  <2>1. CASE job'[g] = job[g] /\ UNCHANGED <<adapters, orphans>>
    BY <2>1 DEF OnlyOrphansMetAgain
  <2>2. job'[g] # NoName
    <3>1. adapters' \in [Factories -> SUBSET Names]
      BY TypeStep DEF TypeOK
    <3> QED
      BY <3>1, SentinelsDiffer
  <2>3. CASE Asks
    <3>1. Chosen \in Registered /\ Chosen \in Factories /\ request[creator].name \notin Named
      BY <2>3, CreationTyped DEF Asks, CreationInv, CreationSound
    <3>2. request[creator].name \in adapters[Chosen] => request[creator].name \in orphans[Chosen]
      BY <2>3, <3>1 DEF Asks, HostedIsListed
    <3>3. \/ job'[g] = job[g]
          \/ g = Chosen /\ job'[g] = request[creator].name
      BY <2>3, <3>1 DEF Asks, TypeOK
    <3>4. UNCHANGED <<adapters, orphans>>
      BY <2>3 DEF Asks
    <3> QED
      BY <3>2, <3>3, <3>4, <2>1
  <2>4. ASSUME NEW f \in Factories, FactoryCreates(f) \/ FactoryFails(f) \/ FactoryFailsLate(f)
        PROVE  job'[g] \in orphans'[g]
    <3>1. g # f /\ job'[g] = job[g]
      BY <2>2, <2>4, FactoryFailure DEF FactoryCreates, TypeOK
    <3>2. adapters'[g] = adapters[g] /\ orphans'[g] = orphans[g]
      BY <2>4, <3>1 DEF FactoryCreates, FactoryFails, FactoryFailsLate, TypeOK
    <3> QED
      BY <3>1, <3>2 DEF OnlyOrphansMetAgain
  <2>5. ASSUME NEW f \in Factories, FactoryStarts(f) \/ FactoryStops(f) \/ FactoryDies(f)
        PROVE  job'[g] \in orphans'[g]
    <3>1. job'[g] = job[g] /\ UNCHANGED <<adapters, orphans>>
      BY <2>2, <2>5 DEF FactoryStarts, FactoryStops, FactoryDies, TypeOK
    <3> QED
      BY <3>1, <2>1
  <2>6. CASE ServerDies
    <3>1. job'[g] = job[g] /\ UNCHANGED <<adapters, orphans>>
      BY <2>2, <2>6 DEF ServerDies
    <3> QED
      BY <3>1, <2>1
  <2> QED
    BY <2>1, <2>3, <2>4, <2>5, <2>6
    DEF Next, Dispatch, Registering, FactoryDispatch, Creating, vars, hosts, Call, CallFails,
        GetRooms, GetRoomRefused, GetRoomAccepted, NameTaken, NoFactory, CreationStarts,
        RegisterFactory, UnregisterFactory, Counts, CountFails, AskFails, RoomListed, ServerStarts
<1>3. RoomsWhole => ListedIsHosted /\ HostedIsListed
  BY DEF RoomsWhole
<1> QED
  BY <1>1, <1>2, <1>3, TypeCorrect, RoomsAgree, PTL DEF Spec

-----------------------------------------------------------------------------
(* What a crashed factory does to the creation of rooms. *)

\* The loop of newChatRoom has passed only factories that answered, all of them
\* when it asks for the room; a factory that was gone does not come back.
GoneStay == \A f \in goneThen : process[f] = "gone"
Counted ==
    stage # "idle" => \A i \in DOMAIN roomFactoryList : i < index => roomFactoryList[i] \notin goneThen
AllCounted == stage \in {"ask", "made"} => index > Len(roomFactoryList)
CountInv == GoneStay /\ Counted /\ AllCounted

LEMMA GoneStep == TypeOK /\ GoneStay /\ [Next]_vars => GoneStay'
<1> SUFFICES ASSUME TypeOK, GoneStay, [Next]_vars, NEW f \in goneThen' PROVE process'[f] = "gone"
  BY DEF GoneStay
<1>1. CASE UNCHANGED <<goneThen, process>>
  BY <1>1 DEF GoneStay
<1>2. ASSUME NEW c \in Callers, CreationStarts(c) PROVE process'[f] = "gone"
  BY <1>2 DEF CreationStarts, hosts
<1>3. ASSUME NEW g \in Factories,
             \/ FactoryStarts(g) \/ FactoryStops(g) \/ FactoryDies(g)
             \/ UnregisterFactory(g)
      PROVE  process'[f] = "gone"
  <2>1. goneThen' = goneThen
    BY <1>3 DEF FactoryStarts, FactoryStops, FactoryDies, UnregisterFactory, server, creation
  <2>2. f \in Factories /\ process[f] = "gone"
    BY <2>1 DEF GoneStay, TypeOK
  <2>3. g # f \/ UnregisterFactory(g)
    BY <1>3, <2>2 DEF FactoryStarts, FactoryStops, FactoryDies, Serving
  <2> QED
    BY <1>3, <2>2, <2>3 DEF FactoryStarts, FactoryStops, FactoryDies, UnregisterFactory, TypeOK
<1>4. CASE ServerDies
  BY <1>4 DEF ServerDies
<1> QED
  BY <1>1, <1>2, <1>3, <1>4
  DEF Next, Dispatch, Registering, FactoryDispatch, Creating, vars, server, creation, hosts, Call,
      CallFails, GetRooms, GetRoomRefused, GetRoomAccepted, NameTaken, NoFactory, RegisterFactory,
      Counts, CountFails, Asks, AskFails, RoomListed, FactoryCreates, FactoryFails,
      FactoryFailsLate, Abandons, ServerStarts

LEMMA CountStep == TypeOK /\ CreationInv /\ CountInv /\ [Next]_vars => Counted' /\ AllCounted'
<1> SUFFICES ASSUME TypeOK, CreationInv, CountInv, [Next]_vars, stage' # "idle"
             PROVE  Counted' /\ AllCounted'
  BY DEF Counted, AllCounted
<1>1. CASE /\ UNCHANGED <<roomFactoryList, index, goneThen>>
           /\ \/ stage' = stage
              \/ stage = "ask" /\ stage' = "made"
  BY <1>1 DEF CountInv, Counted, AllCounted
<1>2. ASSUME NEW c \in Callers, CreationStarts(c) PROVE Counted' /\ AllCounted'
  <2>1. stage' = "count" /\ index' = 1 /\ roomFactoryList' = roomFactoryList
    BY <1>2 DEF CreationStarts, registry
  <2>2. \A i \in DOMAIN roomFactoryList : ~(i < 1)
    BY DEF TypeOK
  <2> QED
    BY <2>1, <2>2 DEF Counted, AllCounted
<1>3. CASE Counts
  <2>1. /\ stage = "count" /\ stage' = "count" /\ index' = index + 1
        /\ UNCHANGED <<roomFactoryList, goneThen>>
        /\ Serving(roomFactoryList[index])
    BY <1>3 DEF Counts, registry
  <2>2. roomFactoryList[index] \notin goneThen
    BY <2>1 DEF CountInv, GoneStay, Serving
  <2>3. \A i \in DOMAIN roomFactoryList : i < index + 1 => i < index \/ i = index
    BY DEF TypeOK
  <2> QED
    BY <2>1, <2>2, <2>3 DEF CountInv, Counted, AllCounted
<1>4. CASE Asks
  <2>1. /\ stage = "count" /\ stage' = "ask" /\ index > Len(roomFactoryList)
        /\ UNCHANGED <<roomFactoryList, index, goneThen>>
    BY <1>4 DEF Asks, registry
  <2> QED
    BY <2>1 DEF CountInv, Counted, AllCounted
<1>5. ASSUME NEW f \in Factories, RegisterFactory(f) \/ UnregisterFactory(f) PROVE FALSE
  BY <1>5 DEF RegisterFactory, UnregisterFactory, Free, creation
<1>6. ASSUME NEW f \in Factories, FactoryCreates(f) PROVE Counted' /\ AllCounted'
  BY <1>6, <1>1 DEF FactoryCreates, Awaited, registry
<1>7. ASSUME NEW f \in Factories, FactoryFails(f) \/ FactoryFailsLate(f)
      PROVE  Counted' /\ AllCounted'
  BY <1>7, <1>1, FactoryFailure
<1> QED
  BY <1>1, <1>2, <1>3, <1>4, <1>5, <1>6, <1>7
  DEF Next, Dispatch, Registering, FactoryDispatch, Creating, vars, server, registry, creation,
      Call, CallFails, GetRooms, GetRoomRefused, GetRoomAccepted, NameTaken, NoFactory,
      FactoryStarts, FactoryStops, FactoryDies, CountFails, AskFails, RoomListed, Abandons,
      ServerDies, ServerStarts

\* A newChatRoom that finds in the list a factory whose process is gone never
\* lists its room: as nothing removes a crashed factory from the list, one crash
\* ends the creation of rooms until the server is started again.
THEOREM DeadFactoriesBlock == Spec => DeadFactoryBlocks
<1>1. Init => CountInv
  BY DEF Init, CountInv, GoneStay, Counted, AllCounted
<1>2. TypeOK /\ CreationInv /\ CountInv /\ [Next]_vars => CountInv'
  BY GoneStep, CountStep DEF CountInv
<1>3. TypeOK /\ CountInv /\ [Next]_vars => [RoomListed => Registered \cap goneThen = {}]_vars
  <2> SUFFICES ASSUME TypeOK, CountInv, RoomListed PROVE Registered \cap goneThen = {}
    OBVIOUS
  <2>1. stage = "made" /\ index > Len(roomFactoryList)
    BY DEF RoomListed, CountInv, AllCounted
  <2>2. \A i \in DOMAIN roomFactoryList : i < index
    BY <2>1 DEF TypeOK
  <2> QED
    BY <2>1, <2>2 DEF CountInv, Counted, Registered
<1> QED
  BY <1>1, <1>2, <1>3, TypeCorrect, PTL DEF Spec, DeadFactoryBlocks

-----------------------------------------------------------------------------
(* The server implements RoomDirectory. *)

\* A name is bound by the creation that lists it, to the room of the factory that
\* was asked, and stays bound to it while the server runs; the answers of
\* newChatRoom and getRoom tell the truth about the bindings.
THEOREM ServerImplementsDirectory == Spec => ImplementsDirectory
<1>1. Init => Directory!Init
  BY DEF Init, Directory!Init
<1>2. TypeOK /\ CreationInv /\ ListedIsHosted /\ [Next]_vars => [Directory!Next]_(Directory!vars)
  <2> SUFFICES ASSUME TypeOK, CreationInv, ListedIsHosted, [Next]_vars
               PROVE  Directory!Next \/ UNCHANGED Directory!vars
    OBVIOUS
  <2>1. ASSUME NEW c \in Callers, reply' = [reply EXCEPT ![c] = reply'[c]],
               nameChatDictionary' = nameChatDictionary,
               reply'[c] \notin {"ok", "NoSuchRoom", "NameAlreadyExists"}
        PROVE  Directory!Next
    BY <2>1 DEF Directory!Next, Directory!Other
  <2>2. ASSUME NEW c \in Callers, NEW op \in Ops, NEW n \in Names, Call(c, op, n)
        PROVE  Directory!Next
    BY <2>1, <2>2 DEF Call, TypeOK, server, registry
  <2>3. ASSUME NEW c \in Callers, CallFails(c) PROVE Directory!Next
    BY <2>1, <2>3 DEF CallFails, TypeOK, server, registry
  <2>4. ASSUME NEW c \in Callers, GetRooms(c) PROVE Directory!Next
    <3>1. Directory!Other(c)
      BY <2>4 DEF GetRooms, Dispatching, Answer, TypeOK, Directory!Other, server, registry
    <3> QED
      BY <3>1 DEF Directory!Next
  <2>5. ASSUME NEW c \in Callers, GetRoomRefused(c) PROVE Directory!Next
    <3>1. request[c].name \in Names
      BY <2>5, RequestTyped DEF GetRoomRefused, Dispatching
    <3>2. Directory!Miss(c)
      BY <2>5, <3>1, ServerAnswers DEF GetRoomRefused, Dispatching, Answer, ListedIsHosted,
                        Directory!Miss, server, registry
    <3> QED
      BY <3>2 DEF Directory!Next
  <2>6. ASSUME NEW c \in Callers, GetRoomAccepted(c) PROVE Directory!Next
    <3>1. request[c].name \in Names
      BY <2>6, RequestTyped DEF GetRoomAccepted, Dispatching
    <3>2. nameChatDictionary[request[c].name] # NoRoom
      BY <2>6, <3>1, SentinelsDiffer DEF GetRoomAccepted, ListedIsHosted
    <3>3. nameChatDictionary' = nameChatDictionary
      BY <2>6, <3>1, <3>2 DEF GetRoomAccepted, TypeOK
    <3>4. Directory!Find(c)
      BY <2>6, <3>2, <3>3 DEF GetRoomAccepted, Dispatching, Answer, Directory!Find
    <3> QED
      BY <3>4 DEF Directory!Next
  <2>7. ASSUME NEW c \in Callers, NameTaken(c) PROVE Directory!Next
    <3>1. request[c].name \in Names
      BY <2>7, RequestTyped DEF NameTaken, Dispatching
    <3>2. nameChatDictionary[request[c].name] # NoRoom
      BY <2>7, <3>1, SentinelsDiffer DEF NameTaken, ListedIsHosted
    <3>3. Directory!Taken(c)
      BY <2>7, <3>2, ServerAnswers DEF NameTaken, Dispatching, Answer, Directory!Taken, server,
                        registry
    <3> QED
      BY <3>3 DEF Directory!Next
  <2>8. ASSUME NEW c \in Callers, NoFactory(c) PROVE Directory!Next
    BY <2>1, <2>8, ServerAnswers DEF NoFactory, Answer, TypeOK, server, registry
  <2>9. CASE CountFails \/ AskFails
    <3>1. creator \in Callers
      BY <2>9, CreationTyped DEF CountFails, AskFails
    <3>2. /\ reply' = [reply EXCEPT ![creator] = "UnknownLocalException"]
          /\ nameChatDictionary' = nameChatDictionary
      BY <2>9, ServerAnswers DEF CountFails, AskFails, Abandons, Answer, registry
    <3> QED
      BY <3>1, <3>2, <2>1 DEF TypeOK
  <2>10. ASSUME NEW f \in Factories, FactoryFails(f) \/ FactoryFailsLate(f)
         PROVE  Directory!Next \/ UNCHANGED Directory!vars
    <3>1. CASE Awaited(f)
      <4>1. creator \in Callers
        BY <3>1, CreationTyped DEF Awaited
      <4>2. PICK o \in {"UnknownLocalException", "ObjectNotExistException"} : Answer(creator, o)
        BY <2>10, <3>1, FactoryFailure
      <4>3. /\ reply' = [reply EXCEPT ![creator] = o]
            /\ nameChatDictionary' = nameChatDictionary
        BY <2>10, <4>2, FactoryFailure DEF Answer
      <4> QED
        BY <4>1, <4>2, <4>3, <2>1 DEF TypeOK
    <3>2. CASE ~Awaited(f)
      BY <2>10, <3>2, FactoryFailure DEF Directory!vars
    <3> QED
      BY <3>1, <3>2
  <2>11. CASE RoomListed
    <3>1. creator \in Callers /\ request[creator].op = "newChatRoom"
      BY <2>11 DEF RoomListed, CreationInv, CreationSound
    <3>2. /\ request[creator].name \in Names \ Named /\ Chosen \in Factories
          /\ nameChatDictionary'
               = [nameChatDictionary EXCEPT ![request[creator].name] = Chosen]
      BY <2>11, Listing
    <3>3. nameChatDictionary[request[creator].name] = NoRoom
      BY <3>2 DEF ListedIsHosted
    <3>4. reply' = [reply EXCEPT ![creator] = "ok"]
      BY <2>11 DEF RoomListed, Answer
    <3>5. Directory!Bind(creator)
      BY <3>1, <3>2, <3>3, <3>4 DEF Directory!Bind
    <3> QED
      BY <3>1, <3>5 DEF Directory!Next
  <2>12. CASE ServerDies
    <3>1. Directory!Lose
      BY <2>12 DEF ServerDies, Directory!Lose
    <3> QED
      BY <3>1 DEF Directory!Next
  <2>13. CASE UNCHANGED <<nameChatDictionary, request, reply>>
    BY <2>13 DEF Directory!vars
  <2> QED
    BY <2>2, <2>3, <2>4, <2>5, <2>6, <2>7, <2>8, <2>9, <2>10, <2>11, <2>12, <2>13
    DEF Next, Dispatch, Registering, FactoryDispatch, Creating, vars, server, registry, calls,
        CreationStarts, RegisterFactory, UnregisterFactory, FactoryStarts, FactoryStops,
        FactoryDies, Counts, Asks, FactoryCreates, ServerStarts
<1>3. RoomsWhole => ListedIsHosted /\ HostedIsListed
  BY DEF RoomsWhole
<1> QED
  BY <1>1, <1>2, <1>3, TypeCorrect, RoomsAgree, PTL DEF Spec, ImplementsDirectory, Directory!Spec
=============================================================================
