--------------------------- MODULE ChatRoomProofs ---------------------------
(***************************************************************************)
(* What is proved of module ChatRoom, for every set of nicks and clients   *)
(* and every choice of user names: the type invariant, the safety          *)
(* invariants of the room, and that the room implements RoomPromise.       *)
(***************************************************************************)
EXTENDS ChatRoom, TLAPS

\* The exceptions of a room as their callers meet them.
LEMMA RoomAnswers ==
    /\ Received("join", "NameAlreadyExists") = "UnknownUserException"
    /\ Received("Leave", "NoSuchUser") = "UnknownUserException"
    /\ Received("getUser", "NoSuchUser") = "NoSuchUser"
    /\ Received("postMessage", "NoSuchUser") = "UnknownUserException"
    /\ Received("postMessage", "NullHandleException") = "UnknownException"
    /\ Received("postMessage", "ConnectFailed") = "UnknownLocalException"
BY DEF Received, Throws, UserExceptions, LocalExceptions, RequestFailures

LEMMA AnswersAreOutcomes ==
    {"ok", "UnknownUserException", "NoSuchUser", "UnknownException", "UnknownLocalException"}
      \subseteq Outcomes
BY DEF Outcomes, UserExceptions, UnknownExceptions

\* Removing the first entry of a sequence keeps its type and its other entries.
LEMMA TailEntries ==
    ASSUME NEW S, NEW s \in Seq(S), s # <<>>
    PROVE  /\ Tail(s) \in Seq(S)
           /\ DOMAIN s = 1 .. Len(s) /\ 1 \in DOMAIN s
           /\ DOMAIN Tail(s) = 1 .. Len(s) - 1
           /\ \A i \in DOMAIN Tail(s) : i + 1 \in DOMAIN s /\ Tail(s)[i] = s[i + 1]
           /\ \A i \in DOMAIN s : i # 1 => i - 1 \in DOMAIN Tail(s) /\ Tail(s)[i - 1] = s[i]
OBVIOUS

LEMMA AppendEntries ==
    ASSUME NEW S, NEW s \in Seq(S), NEW e \in S
    PROVE  /\ Append(s, e) \in Seq(S)
           /\ DOMAIN s = 1 .. Len(s)
           /\ DOMAIN Append(s, e) = 1 .. Len(s) + 1
           /\ \A i \in DOMAIN s : i \in DOMAIN Append(s, e) /\ Append(s, e)[i] = s[i]
           /\ Append(s, e)[Len(s) + 1] = e
OBVIOUS

\* A nick that is listed shows that the vector is not empty.
LEMMA ListedNotEmpty ==
    ASSUME TypeOK, NEW n \in Listed
    PROVE  users # <<>>
BY DEF TypeOK, Listed

-----------------------------------------------------------------------------
(* The type invariant. *)

LEMMA AnswerTyped ==
    ASSUME TypeOK, NEW c \in Clients, NEW o \in Outcomes, Answer(c, o)
    PROVE  /\ request' \in [Clients -> Requests \cup {NoRequest}]
           /\ reply' \in [Clients -> Outcomes \cup {"none"}]
BY DEF TypeOK, Answer

LEMMA RequestTyped ==
    ASSUME TypeOK, NEW c \in Clients, NEW op \in Ops, request[c] # NoRequest, request[c].op = op
    PROVE  request[c].nick \in Nicks
BY DEF TypeOK, Requests

\* The variables keep their types, and an answer is one of the outcomes that
\* the generated proxies and the Ice run time can hand to a caller.
THEOREM TypeCorrect == Spec => []TypeOK
<1>1. Init => TypeOK
  BY NickOfType DEF Init, TypeOK
<1>2. TypeOK /\ [Next]_vars => TypeOK'
  <2> SUFFICES ASSUME TypeOK, [Next]_vars PROVE TypeOK'
    OBVIOUS
  <2> USE RoomAnswers, AnswersAreOutcomes
  <2>1. ASSUME NEW c \in Clients, NEW op \in Ops, NEW n \in Nicks, Call(c, op, n) PROVE TypeOK'
    <3>1. [op |-> op, nick |-> n] \in Requests
      BY DEF Requests
    <3> QED
      BY <2>1, <3>1 DEF Call, TypeOK, room, loop, past
  <2>2. ASSUME NEW c \in Clients, Terminate(c) PROVE TypeOK'
    BY <2>2 DEF Terminate, TypeOK, room, loop, past
  <2>3. ASSUME NEW c \in Clients, JoinRefused(c) PROVE TypeOK'
    BY <2>3, AnswerTyped DEF JoinRefused, TypeOK, room, loop, past
  <2>4. ASSUME NEW c \in Clients, JoinAccepted(c) PROVE TypeOK'
    <3>1. request[c].nick \in Nicks
      BY <2>4, RequestTyped DEF JoinAccepted, Dispatching, Ops
    <3>2. users' \in Seq(Nicks)
      BY <2>4, <3>1, AppendEntries DEF JoinAccepted, TypeOK
    <3> QED
      BY <2>4, <3>1, <3>2, AnswerTyped DEF JoinAccepted, TypeOK, loop
  <2>5. ASSUME NEW c \in Clients, LeaveRefused(c) PROVE TypeOK'
    BY <2>5, AnswerTyped DEF LeaveRefused, TypeOK, room, loop, past
  <2>6. ASSUME NEW c \in Clients, LeaveAccepted(c) PROVE TypeOK'
    <3>1. request[c].nick \in Nicks
      BY <2>6, RequestTyped DEF LeaveAccepted, Dispatching, Ops
    <3>2. users' \in Seq(Nicks)
      BY <2>6, TailEntries, ListedNotEmpty DEF LeaveAccepted, TypeOK
    <3>3. inOrder' \in BOOLEAN
      BY <2>6 DEF LeaveAccepted
    <3> QED
      BY <2>6, <3>1, <3>2, <3>3, AnswerTyped DEF LeaveAccepted, TypeOK, loop
  <2>7. ASSUME NEW c \in Clients, GetUserRefused(c) PROVE TypeOK'
    BY <2>7, AnswerTyped DEF GetUserRefused, TypeOK, room, loop, past
  <2>8. ASSUME NEW c \in Clients, GetUserAccepted(c) PROVE TypeOK'
    <3>1. nickUserDictionary' \in [Nicks -> Clients \cup {NullPrx, NoEntry}]
      BY <2>8 DEF GetUserAccepted, TypeOK
    <3> QED
      BY <2>8, <3>1, AnswerTyped DEF GetUserAccepted, TypeOK, loop, past
  <2>9. ASSUME NEW c \in Clients, PostRefused(c) PROVE TypeOK'
    BY <2>9, AnswerTyped DEF PostRefused, TypeOK, room, loop, past
  <2>10. ASSUME NEW c \in Clients, PostStarts(c) PROVE TypeOK'
    BY <2>10 DEF PostStarts, TypeOK, Keys, room, past
  <2>11. ASSUME NEW n \in Nicks, PostDelivers(n) PROVE TypeOK'
    BY <2>11 DEF PostDelivers, TypeOK, room, past
  <2>12. ASSUME NEW n \in Nicks, PostFails(n) PROVE TypeOK'
    <3>1. poster \in Clients
      BY <2>12 DEF PostFails, TypeOK
    <3>2. PICK o \in Outcomes : Answer(poster, o)
      BY <2>12 DEF PostFails
    <3> QED
      BY <2>12, <3>1, <3>2, AnswerTyped DEF PostFails, TypeOK, room, past
  <2>13. CASE PostEnds
    <3>1. poster \in Clients
      BY <2>13 DEF PostEnds, TypeOK
    <3> QED
      BY <2>13, <3>1, AnswerTyped DEF PostEnds, TypeOK, room, past
  <2>14. CASE UNCHANGED vars
    BY <2>14 DEF vars, TypeOK
  <2> QED
    BY <2>1, <2>2, <2>3, <2>4, <2>5, <2>6, <2>7, <2>8, <2>9, <2>10, <2>11, <2>12, <2>13, <2>14
    DEF Next, Dispatch, Posting
<1> QED
  BY <1>1, <1>2, PTL DEF Spec
-----------------------------------------------------------------------------
(* The vector. *)

\* No nick is listed twice, for any number of users and any history of joins
\* and leaves (ChatRoomImpl::join, Leave).
THEOREM NicksListedOnce == Spec => []ListedOnce
<1>1. Init => ListedOnce
  BY DEF Init, ListedOnce
<1>2. TypeOK /\ ListedOnce /\ [Next]_vars => ListedOnce'
  <2> SUFFICES ASSUME TypeOK, ListedOnce, [Next]_vars PROVE ListedOnce'
    OBVIOUS
  <2>1. CASE UNCHANGED users
    BY <2>1 DEF ListedOnce
  <2>2. ASSUME NEW c \in Clients, JoinAccepted(c) PROVE ListedOnce'
    <3>1. request[c].nick \in Nicks
      BY <2>2, RequestTyped DEF JoinAccepted, Dispatching, Ops
    <3>2. \A i \in DOMAIN users : users[i] # request[c].nick
      BY <2>2 DEF JoinAccepted, Listed
    <3>3. users \in Seq(Nicks) /\ users' = Append(users, request[c].nick)
      BY <2>2 DEF JoinAccepted, TypeOK
    <3> QED
      BY <3>1, <3>2, <3>3, AppendEntries DEF ListedOnce
  <2>3. ASSUME NEW c \in Clients, LeaveAccepted(c) PROVE ListedOnce'
    <3>1. users \in Seq(Nicks) /\ users # <<>> /\ users' = Tail(users)
      BY <2>3, ListedNotEmpty DEF LeaveAccepted, TypeOK
    <3>2. \A i \in DOMAIN users' : i \in Nat /\ i + 1 \in DOMAIN users /\ users'[i] = users[i + 1]
      BY <3>1, TailEntries
    <3> QED
      BY <3>2 DEF ListedOnce
  <2> QED
    BY <2>1, <2>2, <2>3
    DEF Next, Dispatch, Posting, vars, room, Call, Terminate, JoinRefused, LeaveRefused,
        GetUserRefused, GetUserAccepted, PostRefused, PostStarts, PostDelivers, PostFails, PostEnds
<1> QED
  BY <1>1, <1>2, TypeCorrect, PTL DEF Spec

-----------------------------------------------------------------------------
(* The loop of postMessage. *)

\* Between two posts the loop's variables are back where they were.
LoopIdle == poster = Nobody => todo = {} /\ delivered = {}

\* No handler changes the map under the iterator of postMessage, which visits
\* the keys in order and has visited users' proxies only.
THEOREM LoopUndisturbed == Spec => []LoopInv
<1>1. Init => LoopInv /\ LoopIdle
  BY DEF Init, LoopInv, LoopIdle
<1>2. TypeOK /\ LoopInv /\ LoopIdle /\ [Next]_vars => LoopInv' /\ LoopIdle'
  <2> SUFFICES ASSUME TypeOK, LoopInv, LoopIdle, [Next]_vars PROVE LoopInv' /\ LoopIdle'
    OBVIOUS
  <2>1. CASE UNCHANGED <<nickUserDictionary, loop>>
    BY <2>1 DEF LoopInv, LoopIdle, Keys, Members, loop
  <2>2. CASE poster = Nobody /\ UNCHANGED loop
    BY <2>2 DEF LoopInv, LoopIdle, loop
  <2>3. ASSUME NEW c \in Clients, PostStarts(c) PROVE LoopInv' /\ LoopIdle'
    <3>1. delivered' = {} /\ todo' = Keys'
      BY <2>3 DEF PostStarts, Dispatching, LoopIdle, Keys, room
    <3>2. poster' # Nobody
      BY <2>3, SentinelsDiff DEF PostStarts
    <3> QED
      BY <3>1, <3>2 DEF LoopInv, LoopIdle
  <2>4. ASSUME NEW n \in Nicks, PostDelivers(n) PROVE LoopInv' /\ LoopIdle'
    <3>1. poster' = poster /\ poster # Nobody /\ Keys' = Keys /\ Members' = Members
      BY <2>4 DEF PostDelivers, room, Keys, Members
    <3>2. delivered' = delivered \cup {n} /\ todo' = todo \ {n} /\ n \in todo
      BY <2>4 DEF PostDelivers, AtKey
    <3>3. n \in Members
      BY <2>4 DEF PostDelivers, Members, TypeOK
    <3>4. \A m \in todo \ {n} : n < m
      BY <2>4, NicksOrdered DEF PostDelivers, AtKey, TypeOK
    <3> QED
      BY <3>1, <3>2, <3>3, <3>4 DEF LoopInv, LoopIdle
  <2>5. CASE poster' = Nobody /\ todo' = {} /\ delivered' = {}
    BY <2>5 DEF LoopInv, LoopIdle
  <2> QED
    BY <2>1, <2>2, <2>3, <2>4, <2>5
    DEF Next, Dispatch, Posting, vars, room, loop, Dispatching, Call, Terminate, JoinRefused,
        JoinAccepted, LeaveRefused, LeaveAccepted, GetUserRefused, GetUserAccepted, PostRefused,
        PostFails, PostEnds
<1> QED
  BY <1>1, <1>2, TypeCorrect, PTL DEF Spec

-----------------------------------------------------------------------------
(* The two copies of the membership. *)

\* Unless somebody leaves who is not the first of the vector, the vector and the
\* map hold the same users: the one defect of Leave is the only source of every
\* disagreement between listUsers, getUser and postMessage.
THEOREM CopiesAgree == Spec => []InOrderAgrees
<1>1. Init => InOrderAgrees
  BY SentinelsDiff DEF Init, InOrderAgrees, Listed, Keys, Members
<1>2. TypeOK /\ ListedOnce /\ InOrderAgrees /\ [Next]_vars => InOrderAgrees'
  <2> SUFFICES ASSUME TypeOK, ListedOnce, InOrderAgrees, [Next]_vars, inOrder'
               PROVE  (Listed = Members /\ Keys = Members)'
    BY DEF InOrderAgrees
  <2>1. CASE UNCHANGED <<room, inOrder>>
    BY <2>1 DEF InOrderAgrees, Listed, Keys, Members, room
  <2>2. ASSUME NEW c \in Clients, JoinAccepted(c) PROVE (Listed = Members /\ Keys = Members)'
    <3> DEFINE n == request[c].nick
    <3>1. n \in Nicks
      BY <2>2, RequestTyped DEF JoinAccepted, Dispatching, Ops
    <3>2. Listed = Members /\ Keys = Members
      BY <2>2 DEF JoinAccepted, InOrderAgrees
    <3>3. Listed' = Listed \cup {n}
      <4>1. users \in Seq(Nicks) /\ users' = Append(users, n)
        BY <2>2 DEF JoinAccepted, TypeOK
      <4> HIDE DEF n
      <4> QED
        BY <3>1, <4>1, AppendEntries DEF Listed
    <3>4. Members' = Members \cup {n} /\ Keys' = Keys \cup {n}
      BY <2>2, <3>1, SentinelsDiff DEF JoinAccepted, Members, Keys, TypeOK
    <3> QED
      BY <3>2, <3>3, <3>4
  <2>3. ASSUME NEW c \in Clients, LeaveAccepted(c) PROVE (Listed = Members /\ Keys = Members)'
    <3> DEFINE n == request[c].nick
    <3>1. n \in Nicks /\ n = Head(users)
      BY <2>3, RequestTyped DEF LeaveAccepted, Dispatching, Ops
    <3>2. Listed = Members /\ Keys = Members
      BY <2>3 DEF LeaveAccepted, InOrderAgrees
    <3>3. Listed' = Listed \ {n}
      <4>1. users \in Seq(Nicks) /\ users # <<>> /\ users' = Tail(users)
        BY <2>3, ListedNotEmpty DEF LeaveAccepted, TypeOK
      <4>2. n = users[1]
        BY <3>1, <4>1
      <4>3. \A i \in DOMAIN users : i # 1 => users[i] # users[1]
        BY <4>1, TailEntries DEF ListedOnce
      <4>4. \A i \in DOMAIN users' : i + 1 \in DOMAIN users /\ i + 1 # 1 /\ users'[i] = users[i + 1]
        BY <4>1, TailEntries
      <4>5. \A i \in DOMAIN users : i # 1 => i - 1 \in DOMAIN users' /\ users'[i - 1] = users[i]
        BY <4>1, TailEntries
      <4> HIDE DEF n
      <4> QED
        BY <4>2, <4>3, <4>4, <4>5 DEF Listed
    <3>4. Members' = Members \ {n} /\ Keys' = Keys \ {n}
      BY <2>3, <3>1, SentinelsDiff DEF LeaveAccepted, Members, Keys, TypeOK
    <3> QED
      BY <3>2, <3>3, <3>4
  <2>4. ASSUME NEW c \in Clients, GetUserAccepted(c) PROVE (Listed = Members /\ Keys = Members)'
    <3>1. request[c].nick \in Keys
      BY <2>4 DEF GetUserAccepted, InOrderAgrees, past
    <3>2. UNCHANGED <<room, inOrder>>
      BY <2>4, <3>1 DEF GetUserAccepted, Keys, room, past, TypeOK
    <3> QED
      BY <3>2, <2>1
  <2> QED
    BY <2>1, <2>2, <2>3, <2>4
    DEF Next, Dispatch, Posting, vars, room, past, Call, Terminate, JoinRefused, LeaveRefused,
        GetUserRefused, PostRefused, PostStarts, PostDelivers, PostFails, PostEnds
<1> QED
  BY <1>1, <1>2, TypeCorrect, NicksListedOnce, PTL DEF Spec
-----------------------------------------------------------------------------
(* The room implements RoomPromise. *)

\* The membership of the promise: the mapping of the instance Promise.
Mapped == [n \in Nicks |-> IF n \in Members THEN nickUserDictionary[n] ELSE Nobody]

\* The nicks present in the promise are those whose entry holds a proxy.
LEMMA PresentAreMembers == Promise!Present = Members
BY SentinelsDiff DEF Promise!Present, Members

\* A room behaves as promised: one membership, changed by the joins and leaves
\* that are answered "ok" and by nothing else, and messages given at most once
\* to each member, to all of them when the post is answered "ok".
THEOREM RoomKeepsPromise == Spec => KeepsPromise
<1>1. Init => Promise!Init
  BY SentinelsDiff DEF Init, Promise!Init, Members
<1>2. TypeOK /\ LoopInv /\ [Next]_vars => [Promise!Next]_(Promise!vars)
  <2> SUFFICES ASSUME TypeOK, LoopInv, [Next]_vars
               PROVE  Promise!Next \/ UNCHANGED Promise!vars
    OBVIOUS
  <2> USE RoomAnswers
  <2>0. UNCHANGED nickUserDictionary => Mapped' = Mapped
    BY DEF Mapped, Members
  <2>1. ASSUME NEW c \in Clients, NEW op \in Ops, NEW n \in Nicks, Call(c, op, n)
        PROVE Promise!Next
    <3>1. Promise!Ask(c)
      BY <2>1, <2>0 DEF Call, TypeOK, Promise!Ask, Mapped, room, loop
    <3> QED
      BY <3>1 DEF Promise!Next
  <2>2. ASSUME NEW c \in Clients, Terminate(c) PROVE UNCHANGED Promise!vars
    BY <2>2, <2>0 DEF Terminate, Promise!vars, Mapped, room, loop
  <2>3. ASSUME NEW c \in Clients,
               JoinRefused(c) \/ LeaveRefused(c) \/ GetUserRefused(c) \/ PostRefused(c)
        PROVE Promise!Next
    <3>1. reply'[c] \notin {"ok", "none"} /\ poster = Nobody
      BY <2>3 DEF JoinRefused, LeaveRefused, GetUserRefused, PostRefused, Dispatching, Answer,
                  TypeOK
    <3>2. UNCHANGED <<room, loop>>
      BY <2>3 DEF JoinRefused, LeaveRefused, GetUserRefused, PostRefused
    <3>3. Promise!Refuse(c)
      BY <3>1, <3>2, <2>0 DEF Promise!Refuse, Mapped, room, loop
    <3> QED
      BY <3>3 DEF Promise!Next
  <2>4. ASSUME NEW c \in Clients, JoinAccepted(c) PROVE Promise!Next
    <3>1. request[c].nick \in Nicks
      BY <2>4, RequestTyped DEF JoinAccepted, Dispatching, Ops
    <3>2. Mapped' = [Mapped EXCEPT ![request[c].nick] = c]
      BY <2>4, <3>1 DEF JoinAccepted, Mapped, Members, TypeOK
    <3>3. Promise!Join(c)
      BY <2>4, <3>2 DEF JoinAccepted, Dispatching, Answer, TypeOK, Promise!Join, Promise!Quiet,
                        Mapped, loop
    <3> QED
      BY <3>3 DEF Promise!Next
  <2>5. ASSUME NEW c \in Clients, LeaveAccepted(c) PROVE Promise!Next
    <3>1. request[c].nick \in Nicks
      BY <2>5, RequestTyped DEF LeaveAccepted, Dispatching, Ops
    <3>2. Mapped' = [Mapped EXCEPT ![request[c].nick] = Nobody]
      BY <2>5, <3>1, SentinelsDiff DEF LeaveAccepted, Mapped, Members, TypeOK
    <3>3. Promise!Leave(c)
      BY <2>5, <3>2 DEF LeaveAccepted, Dispatching, Answer, TypeOK, Promise!Leave, Promise!Quiet,
                        Mapped, loop
    <3> QED
      BY <3>3 DEF Promise!Next
  <2>6. ASSUME NEW c \in Clients, GetUserAccepted(c) PROVE Promise!Next
    <3>1. request[c].nick \in Nicks
      BY <2>6, RequestTyped DEF GetUserAccepted, Dispatching, Ops
    <3>2. Mapped' = Mapped
      BY <2>6, <3>1, SentinelsDiff DEF GetUserAccepted, Mapped, Members, TypeOK
    <3>3. Promise!LookUp(c)
      BY <2>6, <3>2 DEF GetUserAccepted, Dispatching, Answer, TypeOK, Promise!LookUp,
                        Promise!Quiet, Mapped, loop
    <3> QED
      BY <3>3 DEF Promise!Next
  <2>7. ASSUME NEW c \in Clients, PostStarts(c) PROVE Promise!Next
    <3>1. Promise!BeginPost(c)
      BY <2>7, <2>0 DEF PostStarts, Dispatching, Promise!BeginPost, Promise!Quiet, Mapped, room
    <3> QED
      BY <3>1 DEF Promise!Next
  <2>8. ASSUME NEW n \in Nicks, PostDelivers(n) PROVE Promise!Next
    <3>1. n \in Members
      BY <2>8 DEF PostDelivers, Members, TypeOK
    <3>2. n \notin delivered
      BY <2>8, NicksOrdered DEF PostDelivers, AtKey, LoopInv, TypeOK
    <3>3. Promise!Give(n)
      BY <2>8, <3>1, <3>2, <2>0, PresentAreMembers DEF PostDelivers, Promise!Give, Mapped, room
    <3> QED
      BY <3>3 DEF Promise!Next
  <2>9. ASSUME NEW n \in Nicks, PostFails(n) PROVE Promise!Next
    <3>1. poster \in Clients /\ reply'[poster] \notin {"ok", "none"}
      BY <2>9 DEF PostFails, Answer, TypeOK
    <3>2. Promise!EndPost
      BY <2>9, <3>1, <2>0 DEF PostFails, Promise!EndPost, Mapped, room
    <3> QED
      BY <3>2 DEF Promise!Next
  <2>10. CASE PostEnds
    <3>1. poster \in Clients /\ reply'[poster] = "ok"
      BY <2>10 DEF PostEnds, Answer, TypeOK
    <3>2. delivered = Members
      BY <2>10, SentinelsDiff DEF PostEnds, LoopInv, Members, Keys
    <3>3. Promise!EndPost
      BY <2>10, <3>1, <3>2, <2>0, PresentAreMembers DEF PostEnds, Promise!EndPost, Mapped, room
    <3> QED
      BY <3>3 DEF Promise!Next
  <2>11. CASE UNCHANGED vars
    BY <2>11, <2>0 DEF vars, Promise!vars, Mapped
  <2> QED
    BY <2>1, <2>2, <2>3, <2>4, <2>5, <2>6, <2>7, <2>8, <2>9, <2>10, <2>11
    DEF Next, Dispatch, Posting
<1> QED
  BY <1>1, <1>2, TypeCorrect, LoopUndisturbed, PTL DEF Spec, KeepsPromise, Promise!Spec
=============================================================================
