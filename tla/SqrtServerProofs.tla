-------------------------- MODULE SqrtServerProofs --------------------------
(***************************************************************************)
(* Proofs about module SqrtServer, for any sets of connections and         *)
(* processes and any backlog. That a connection has one holder rests on    *)
(* where it can be: in the queue once, and then with nobody else, or past  *)
(* it, and until fork() has returned with the parent only.                 *)
(***************************************************************************)
EXTENDS SqrtServer, TLAPS

\* No connection waits twice, none that waits is held, and none is held or waits
\* that no client asked for (accept, fork).
Placed ==
    /\ \A i, j \in DOMAIN queue : queue[i] = queue[j] => i = j
    /\ \A i \in DOMAIN queue :
         /\ client[queue[i]] # "none"
         /\ queue[i] \notin parentHolds
         /\ \A p \in Procs : queue[i] \notin childHolds[p]
    /\ \A c \in parentHolds : client[c] # "none"
    /\ \A p \in Procs : \A c \in childHolds[p] : client[c] # "none"
    /\ parent = "fork" => \A p \in Procs : client_sockfd \notin childHolds[p]

IInv == TypeOK /\ OwnConnection /\ Placed

\* What a queue loses at its front and gains at its end.
LEMMA QueueTail ==
    ASSUME NEW S, NEW q \in Seq(S), q # <<>>
    PROVE  /\ Head(q) = q[1] /\ Head(q) \in S
           /\ 1 \in DOMAIN q
           /\ Tail(q) \in Seq(S)
           /\ \A i \in DOMAIN Tail(q) : i + 1 \in DOMAIN q /\ Tail(q)[i] = q[i + 1] /\ i \in Nat
  OBVIOUS

LEMMA QueueAppend ==
    ASSUME NEW S, NEW q \in Seq(S), NEW c \in S
    PROVE  /\ Append(q, c) \in Seq(S)
           /\ \A i \in DOMAIN Append(q, c) : (i \in DOMAIN q /\ Append(q, c)[i] = q[i])
                                             \/ (i = Len(q) + 1 /\ Append(q, c)[i] = c)
  OBVIOUS

LEMMA QueueEmpty ==
    ASSUME NEW S
    PROVE  <<>> \in Seq(S) /\ DOMAIN <<>> = {}
  OBVIOUS

LEMMA InitInv == Init => IInv
  <1> SUFFICES ASSUME Init PROVE IInv
    OBVIOUS
  <1>1. TypeOK
    BY QueueEmpty, NotConns DEF Init, TypeOK
  <1>2. OwnConnection
    BY DEF Init, OwnConnection
  <1>3. Placed
    BY QueueEmpty DEF Init, Placed
  <1> QED BY <1>1, <1>2, <1>3 DEF IInv

\* The queue after the last process with the listening socket has ended.
LEMMA ReleasedInv ==
    ASSUME IInv, NEW p \in Procs, Released(p)
    PROVE  IInv'
  <1>1. TypeOK'
    BY QueueEmpty DEF IInv, TypeOK, Released, parents
  <1>2. \A q \in Procs : childHolds'[q] = IF q = p THEN {} ELSE childHolds[q]
    BY DEF IInv, TypeOK, Released
  <1>3. OwnConnection'
    BY <1>2 DEF IInv, TypeOK, OwnConnection, Released, parents
  <1>4. queue' = queue \/ DOMAIN queue' = {}
    BY QueueEmpty DEF Released
  <1>5. Placed'
    BY <1>2, <1>4 DEF IInv, Placed, Released, parents
  <1> QED BY <1>1, <1>3, <1>5 DEF IInv

LEMMA StepInv == IInv /\ [Next]_vars => IInv'
  <1> SUFFICES ASSUME IInv, [Next]_vars PROVE IInv'
    OBVIOUS
  <1>1. CASE Accepts
    <2>1. TypeOK'
      BY <1>1, QueueTail DEF IInv, TypeOK, Accepts, children
    <2>2. /\ Head(queue) = queue[1] /\ 1 \in DOMAIN queue /\ Head(queue) \in Conns
          /\ \A i \in DOMAIN Tail(queue) :
               i + 1 \in DOMAIN queue /\ Tail(queue)[i] = queue[i + 1] /\ i \in Nat
      BY <1>1, QueueTail DEF IInv, TypeOK, Accepts
    <2>3. \A i \in DOMAIN Tail(queue) : i + 1 # 1 /\ Tail(queue)[i] # queue[1]
      BY <2>2 DEF IInv, Placed
    <2>4. OwnConnection'
      BY <1>1, <2>2, NotConns DEF IInv, TypeOK, OwnConnection, Accepts, children
    <2>5. \A i, j \in DOMAIN Tail(queue) : Tail(queue)[i] = Tail(queue)[j] => i = j
      <3> TAKE i, j \in DOMAIN Tail(queue)
      <3> HAVE Tail(queue)[i] = Tail(queue)[j]
      <3>1. i + 1 = j + 1
        BY <2>2 DEF IInv, Placed
      <3> QED BY <3>1, <2>2
    <2>6. Placed'
      BY <1>1, <2>2, <2>3, <2>5 DEF IInv, Placed, OwnConnection, Accepts, children
    <2> QED BY <2>1, <2>4, <2>6 DEF IInv
  <1>2. CASE AcceptFails
    <2>1. TypeOK'
      BY <1>2 DEF IInv, TypeOK, AcceptFails, children
    <2>2. OwnConnection'
      BY <1>2 DEF IInv, OwnConnection, AcceptFails, children
    <2>3. Placed'
      BY <1>2, NotConns DEF IInv, TypeOK, Placed, AcceptFails, children
    <2> QED BY <2>1, <2>2, <2>3 DEF IInv
  <1>3. ASSUME NEW p \in Procs, Forks(p) PROVE IInv'
    <2>1. TypeOK'
      BY <1>3 DEF IInv, TypeOK, Forks
    <2>2. \A q \in Procs : /\ childHolds'[q] = IF q = p THEN {client_sockfd} \ {Bad} ELSE childHolds[q]
                           /\ child'[q] = IF q = p THEN client_sockfd ELSE child[q]
      BY <1>3 DEF IInv, TypeOK, OwnConnection, Forks
    <2>3. client_sockfd # Free
      BY NotConns DEF IInv, TypeOK
    <2>4. OwnConnection'
      BY <1>3, <2>2, <2>3 DEF IInv, OwnConnection, Placed, Forks
    <2>5. Placed'
      BY <1>3, <2>2 DEF IInv, OwnConnection, Placed, Forks
    <2> QED BY <2>1, <2>4, <2>5 DEF IInv
  <1>4. CASE ForkFails
    BY <1>4 DEF IInv, TypeOK, OwnConnection, Placed, ForkFails, children
  <1>5. CASE CloseConnection
    <2>1. TypeOK'
      BY <1>5 DEF IInv, TypeOK, CloseConnection, children
    <2>2. OwnConnection'
      BY <1>5 DEF IInv, OwnConnection, CloseConnection, children
    <2>3. Placed'
      BY <1>5 DEF IInv, Placed, CloseConnection, children
    <2> QED BY <2>1, <2>2, <2>3 DEF IInv
  <1>6. CASE ParentEnds
    <2>1. TypeOK'
      BY <1>6, QueueEmpty DEF IInv, TypeOK, ParentEnds, children
    <2>2. OwnConnection'
      BY <1>6 DEF IInv, OwnConnection, ParentEnds, children
    <2>3. queue' = queue \/ DOMAIN queue' = {}
      BY <1>6, QueueEmpty DEF ParentEnds
    <2>4. Placed'
      BY <1>6, <2>3 DEF IInv, Placed, ParentEnds, children
    <2> QED BY <2>1, <2>2, <2>4 DEF IInv
  <1>7. CASE Restarts
    <2>1. TypeOK'
      BY <1>7 DEF IInv, TypeOK, Restarts, children
    <2>2. OwnConnection'
      BY <1>7 DEF IInv, OwnConnection, Restarts, Listening, children
    <2>3. Placed'
      BY <1>7 DEF IInv, Placed, Restarts, children
    <2> QED BY <2>1, <2>2, <2>3 DEF IInv
  <1>8. ASSUME NEW p \in Procs, EndsOnFile(p) \/ Dies(p) PROVE IInv'
    BY <1>8, ReleasedInv DEF EndsOnFile, Dies
  <1>9. ASSUME NEW c \in Conns, Connects(c) PROVE IInv'
    <2>1. TypeOK'
      BY <1>9, QueueAppend DEF IInv, TypeOK, Connects, parents, children
    <2>2. OwnConnection'
      BY <1>9 DEF IInv, OwnConnection, Connects, parents, children
    <2>3. \A i \in DOMAIN queue' : (i \in DOMAIN queue /\ queue'[i] = queue[i])
                                   \/ (i = Len(queue) + 1 /\ queue'[i] = c)
      BY <1>9, QueueAppend DEF IInv, TypeOK, Connects
    <2>4. /\ \A i \in DOMAIN queue : queue[i] # c
          /\ c \notin parentHolds
          /\ \A p \in Procs : c \notin childHolds[p]
      BY <1>9 DEF IInv, Placed, Connects
    <2>5. \A d \in Conns : client'[d] = IF d = c THEN "open" ELSE client[d]
      BY <1>9 DEF IInv, TypeOK, Connects
    <2>6. /\ \A i \in DOMAIN queue : queue[i] \in Conns
          /\ parentHolds \subseteq Conns
          /\ \A p \in Procs : childHolds[p] \subseteq Conns
      BY DEF IInv, TypeOK
    <2>7. \A i, j \in DOMAIN queue' : queue'[i] = queue'[j] => i = j
      BY <2>3, <2>4 DEF IInv, Placed
    <2>8. \A i \in DOMAIN queue' : /\ client'[queue'[i]] # "none"
                                   /\ queue'[i] \notin parentHolds
                                   /\ \A p \in Procs : queue'[i] \notin childHolds[p]
      BY <2>3, <2>4, <2>5, <2>6 DEF IInv, Placed
    <2>9. Placed'
      BY <1>9, <2>5, <2>6, <2>7, <2>8 DEF IInv, Placed, Connects, parents, children
    <2> QED BY <2>1, <2>2, <2>9 DEF IInv
  <1>10. ASSUME NEW c \in Conns, HangsUp(c) PROVE IInv'
    <2>1. TypeOK'
      BY <1>10 DEF IInv, TypeOK, HangsUp, parents, children
    <2>2. OwnConnection'
      BY <1>10 DEF IInv, OwnConnection, HangsUp, parents, children
    <2>3. \A d \in Conns : client[d] # "none" => client'[d] # "none"
      BY <1>10 DEF IInv, TypeOK, HangsUp
    <2>4. /\ \A i \in DOMAIN queue : queue[i] \in Conns
          /\ parentHolds \subseteq Conns
          /\ \A p \in Procs : childHolds[p] \subseteq Conns
      BY DEF IInv, TypeOK
    <2>5. Placed'
      BY <1>10, <2>3, <2>4 DEF IInv, Placed, HangsUp, parents, children
    <2> QED BY <2>1, <2>2, <2>5 DEF IInv
  <1>11. CASE UNCHANGED vars
    BY <1>11 DEF IInv, TypeOK, OwnConnection, Placed, vars
  <1> QED
    BY <1>1, <1>2, <1>3, <1>4, <1>5, <1>6, <1>7, <1>8, <1>9, <1>10, <1>11
       DEF Next, ParentSteps

\* The inductive invariant holds.
THEOREM Inductive == Spec => []IInv
  <1> QED BY InitInv, StepInv, PTL DEF Spec

\* The types of the server's descriptors, queue and children (server.c:69-119).
THEOREM TypeCorrect == Spec => []TypeOK
  <1>1. IInv => TypeOK
    BY DEF IInv
  <1> QED BY Inductive, <1>1, PTL

\* A connection has one holder, whatever fails and whoever ends (server.c:117).
THEOREM OneHolder == Spec => []OwnConnection
  <1>1. IInv => OwnConnection
    BY DEF IInv
  <1> QED BY Inductive, <1>1, PTL
-----------------------------------------------------------------------------
(* The promise to the clients. *)

Waits(c) == \E i \in DOMAIN queue : queue[i] = c

InAccept(c) == parent = "fork" /\ c \in parentHolds

Held(c) == \E p \in Procs : c \in childHolds[p]

\* A connection is in one of these places, and in none before it was asked for.
LEMMA OnePlace ==
    ASSUME IInv, NEW c \in Conns
    PROVE  /\ Waits(c) => client[c] # "none" /\ ~InAccept(c) /\ ~Held(c)
           /\ InAccept(c) => client[c] # "none" /\ ~Held(c)
           /\ Held(c) => client[c] # "none"
  BY DEF IInv, Placed, OwnConnection, Waits, InAccept, Held

\* Where a connection is, by the descriptors of it.
LEMMA PlaceOf ==
    ASSUME IInv, NEW c \in Conns
    PROVE  /\ Place(c) = "none" <=> client[c] = "none"
           /\ Place(c) = "waiting" <=> Waits(c)
           /\ Place(c) = "accepted" <=> InAccept(c)
           /\ Place(c) = "served" <=> Held(c)
           /\ Place(c) \in {"none", "waiting", "accepted", "served", "over"}
  BY OnePlace DEF Place, Waits, InAccept, Held

\* What is the same in both states leaves a connection where it is.
LEMMA PlaceKept ==
    ASSUME NEW c \in Conns,
           client[c] = "none" <=> client'[c] = "none",
           Waits(c) <=> Waits(c)',
           InAccept(c) <=> InAccept(c)',
           Held(c) <=> Held(c)'
    PROVE  Place(c)' = Place(c)
  BY DEF Place, Waits, InAccept, Held

\* One connection changes its place.
LEMMA Moved ==
    ASSUME NEW c \in Conns, NEW to, Place(c)' = to,
           \A d \in Conns \ {c} : Place(d)' = Place(d)
    PROVE  [d \in Conns |-> Place(d)]' = [[d \in Conns |-> Place(d)] EXCEPT ![c] = to]
  OBVIOUS

\* None does.
LEMMA StaysPut ==
    ASSUME UNCHANGED queue, \A c \in Conns : Place(c)' = Place(c)
    PROVE  UNCHANGED Clients!vars
  BY DEF Clients!vars

\* A connection is where it was, or comes to its end after it was accepted.
KeptOrOver(c) ==
    \/ Place(c)' = Place(c)
    \/ Place(c) \in {"accepted", "served"} /\ Place(c)' = "over"

\* Some that were accepted or served come to their end, and nothing else.
LEMMA GivesUp ==
    ASSUME UNCHANGED queue,
           \A c \in Conns : KeptOrOver(c)
    PROVE  Clients!GiveUp({"accepted", "served"})
  <1> DEFINE gone == {c \in Conns : Place(c) \in {"accepted", "served"} /\ Place(c)' = "over"}
  <1> DEFINE place == [c \in Conns |-> Place(c)]
  <1>1. gone \in SUBSET {c \in Conns : place[c] \in {"accepted", "served"}}
    OBVIOUS
  <1>2. place' = [c \in Conns |-> IF c \in gone THEN "over" ELSE place[c]]
    BY DEF KeptOrOver
  <1> QED BY <1>1, <1>2 DEF Clients!GiveUp

\* All come to their end.
LEMMA ShutsDown ==
    ASSUME queue' = <<>>,
           \A c \in Conns : Place(c)' = IF Place(c) = "none" THEN "none" ELSE "over"
    PROVE  Clients!ShutDown
  BY DEF Clients!ShutDown

LEMMA HandoverInit == Init => Clients!Init
  <1> SUFFICES ASSUME Init PROVE Clients!Init
    OBVIOUS
  <1>1. \A c \in Conns : client[c] = "none"
    BY DEF Init
  <1>2. \A c \in Conns : Place(c) = "none"
    BY <1>1, InitInv, PlaceOf
  <1> QED BY <1>2 DEF Init, Clients!Init

\* The first that waits is accepted.
LEMMA AcceptsTakes ==
    ASSUME IInv, Accepts
    PROVE  Clients!Take
  <1>0. PICK first \in Conns : first = Head(queue)
    BY QueueTail DEF Accepts, IInv, TypeOK
  <1>1. /\ queue # <<>> /\ queue \in Seq(Conns) /\ queue' = Tail(queue)
        /\ parent = "accept" /\ parent' = "fork" /\ parentHolds = {} /\ parentHolds' = {first}
        /\ UNCHANGED <<childHolds, client>>
    BY <1>0 DEF Accepts, IInv, TypeOK, OwnConnection, children
  <1>2. /\ first = queue[1] /\ 1 \in DOMAIN queue
        /\ \A i \in DOMAIN Tail(queue) :
             i + 1 \in DOMAIN queue /\ Tail(queue)[i] = queue[i + 1] /\ i \in Nat
    BY <1>0, <1>1, QueueTail
  <1>3. \A i \in DOMAIN queue : i # 1 => i - 1 \in DOMAIN Tail(queue) /\ Tail(queue)[i - 1] = queue[i]
    BY <1>1
  <1>4. \A c \in Conns : Place(c) # "accepted"
    BY <1>1, PlaceOf DEF InAccept
  <1>5. Place(first)' = "accepted"
    <2>1. \A i \in DOMAIN Tail(queue) : Tail(queue)[i] # first
      <3>1. \A i \in DOMAIN Tail(queue) : i + 1 # 1
        BY <1>2
      <3> QED BY <1>2, <3>1 DEF IInv, Placed
    <2>2. client[first] # "none"
      BY <1>2 DEF IInv, Placed
    <2>3. \A p \in Procs : first \notin childHolds[p]
      BY <1>2 DEF IInv, Placed
    <2>4. client'[first] # "none" /\ ~Waits(first)' /\ InAccept(first)' /\ ~Held(first)'
      BY <1>1, <2>1, <2>2, <2>3 DEF Waits, InAccept, Held
    <2> QED BY <2>4 DEF Place, Waits, InAccept, Held
  <1>6. ASSUME NEW c \in Conns \ {first} PROVE Place(c)' = Place(c)
    <2>1. Waits(c) <=> Waits(c)'
      <3>1. ASSUME Waits(c) PROVE Waits(c)'
        <4>1. PICK i \in DOMAIN queue : queue[i] = c
          BY <3>1 DEF Waits
        <4>2. i # 1
          BY <1>2, <1>6, <4>1
        <4>3. i - 1 \in DOMAIN Tail(queue) /\ Tail(queue)[i - 1] = c
          BY <1>3, <4>1, <4>2
        <4> QED BY <1>1, <4>3 DEF Waits
      <3>2. ASSUME Waits(c)' PROVE Waits(c)
        BY <1>1, <1>2, <3>2 DEF Waits
      <3> QED BY <3>1, <3>2
    <2>2. (Held(c) <=> Held(c)') /\ ~InAccept(c) /\ ~InAccept(c)'
      BY <1>1, <1>6 DEF Held, InAccept
    <2> QED BY <1>1, <1>6, <2>1, <2>2, PlaceKept
  <1>7. [c \in Conns |-> Place(c)]' = [[c \in Conns |-> Place(c)] EXCEPT ![first] = "accepted"]
    BY <1>2, <1>5, <1>6, Moved
  <1>8. \A c \in Conns : [d \in Conns |-> Place(d)][c] # "accepted"
    BY <1>4
  <1> QED BY <1>0, <1>1, <1>7, <1>8 DEF Clients!Take

\* The child gets what was accepted, if anything was.
LEMMA ForksHands ==
    ASSUME IInv, NEW p \in Procs, Forks(p)
    PROVE  [Clients!Next]_(Clients!vars)
  <1>1. /\ parent = "fork" /\ parent' = "close" /\ parentHolds = {client_sockfd} \ {Bad}
        /\ childHolds[p] = {} /\ UNCHANGED <<queue, client>>
        /\ \A q \in Procs : childHolds'[q] = IF q = p THEN parentHolds ELSE childHolds[q]
    BY DEF Forks, IInv, TypeOK, OwnConnection, Running
  <1>2. ASSUME NEW c \in Conns, c \notin parentHolds PROVE Place(c)' = Place(c)
    <2>1. Held(c) <=> Held(c)'
      BY <1>1, <1>2 DEF Held
    <2>2. (Waits(c) <=> Waits(c)') /\ ~InAccept(c) /\ ~InAccept(c)'
      BY <1>1, <1>2 DEF Waits, InAccept
    <2> QED BY <1>1, <2>1, <2>2, PlaceKept
  <1>3. CASE client_sockfd = Bad
    BY <1>1, <1>2, <1>3, StaysPut
  <1>4. CASE client_sockfd # Bad
    <2>1. PICK c \in Conns : parentHolds = {c}
      BY <1>1, <1>4 DEF IInv, TypeOK
    <2>2. InAccept(c) /\ Held(c)' /\ ~InAccept(c)'
      BY <1>1, <2>1 DEF InAccept, Held
    <2>3. Place(c) = "accepted"
      BY <2>2, PlaceOf
    <2>4. Place(c)' = "served"
      <3>1. client'[c] # "none" /\ ~Waits(c)'
        BY <1>1, <2>2, OnePlace DEF Waits
      <3> QED BY <2>2, <3>1 DEF Place, Waits, InAccept, Held
    <2>5. \A d \in Conns \ {c} : Place(d)' = Place(d)
      BY <1>2, <2>1
    <2>6. Clients!Hand(c)
      BY <1>1, <2>3, <2>4, <2>5, Moved DEF Clients!Hand
    <2> QED BY <2>6 DEF Clients!Next
  <1> QED BY <1>3, <1>4

\* A child that ends gives its connection up; the last process gives up all.
LEMMA ReleasedGivesUp ==
    ASSUME IInv, NEW p \in Running, Released(p)
    PROVE  Clients!GiveUp({"accepted", "served"}) \/ Clients!ShutDown
  <1>1. /\ p \in Procs /\ UNCHANGED <<parent, parentHolds, client>>
        /\ \A q \in Procs : childHolds'[q] = IF q = p THEN {} ELSE childHolds[q]
        /\ \A q \in Procs : q # p => childHolds[q] \cap childHolds[p] = {}
    BY DEF Released, parents, Running, IInv, TypeOK, OwnConnection
  <1>2. CASE parent = "down" /\ Running = {p}
    <2>1. queue' = <<>>
      BY <1>2 DEF Released
    <2>2. \A q \in Procs : childHolds'[q] = {}
      BY <1>1, <1>2 DEF Running, IInv, OwnConnection
    <2>3. ASSUME NEW c \in Conns PROVE Place(c)' = IF Place(c) = "none" THEN "none" ELSE "over"
      <3>1. ~Waits(c)' /\ ~InAccept(c)' /\ ~Held(c)'
        BY <1>1, <1>2, <2>1, <2>2, QueueEmpty DEF Waits, InAccept, Held
      <3> QED BY <1>1, <3>1, PlaceOf DEF Place, Waits, InAccept, Held
    <2> QED BY <2>1, <2>3, ShutsDown
  <1>3. CASE ~(parent = "down" /\ Running = {p})
    <2>1. UNCHANGED queue
      BY <1>3 DEF Released
    <2>2. \A c \in Conns : KeptOrOver(c)
      <3> TAKE c \in Conns
      <3>1. (Waits(c) <=> Waits(c)') /\ (InAccept(c) <=> InAccept(c)')
        BY <1>1, <2>1 DEF Waits, InAccept
      <3>2. CASE c \notin childHolds[p]
        <4>1. Held(c) <=> Held(c)'
          BY <1>1, <3>2 DEF Held
        <4>2. Place(c)' = Place(c)
          BY <1>1, <3>1, <4>1, PlaceKept
        <4> QED BY <4>2 DEF KeptOrOver
      <3>3. CASE c \in childHolds[p]
        <4>1. Held(c) /\ ~Held(c)'
          BY <1>1, <3>3 DEF Held
        <4>2. Place(c) = "served" /\ client[c] # "none" /\ ~Waits(c) /\ ~InAccept(c)
          BY <4>1, PlaceOf, OnePlace
        <4>3. Place(c)' = "over"
          BY <1>1, <3>1, <4>1, <4>2 DEF Place, Waits, InAccept, Held
        <4> QED BY <4>2, <4>3 DEF KeptOrOver
      <3> QED BY <3>2, <3>3
    <2> QED BY <2>1, <2>2, GivesUp
  <1> QED BY <1>2, <1>3

\* A parent that has not forked gives up what it accepted, and the queue with it
\* if no child has the listening socket.
LEMMA ParentGivesUp ==
    ASSUME IInv, ForkFails \/ ParentEnds
    PROVE  Clients!GiveUp({"accepted", "served"}) \/ Clients!ShutDown
  <1>1. parent' # "fork" /\ UNCHANGED <<childHolds, client>>
    BY DEF ForkFails, ParentEnds, children
  <1>2. ASSUME NEW c \in Conns PROVE ~InAccept(c)' /\ (Held(c) <=> Held(c)')
    BY <1>1 DEF InAccept, Held
  <1>3. CASE UNCHANGED queue
    <2>1. \A c \in Conns : KeptOrOver(c)
      <3> TAKE c \in Conns
      <3>1. Waits(c) <=> Waits(c)'
        BY <1>3 DEF Waits
      <3>2. CASE ~InAccept(c)
        <4>1. Place(c)' = Place(c)
          BY <1>1, <1>2, <3>1, <3>2, PlaceKept
        <4> QED BY <4>1 DEF KeptOrOver
      <3>3. CASE InAccept(c)
        <4>1. Place(c) = "accepted" /\ client[c] # "none" /\ ~Waits(c) /\ ~Held(c)
          BY <3>3, PlaceOf, OnePlace
        <4>2. Place(c)' = "over"
          BY <1>1, <1>2, <3>1, <4>1 DEF Place, Waits, InAccept, Held
        <4> QED BY <4>1, <4>2 DEF KeptOrOver
      <3> QED BY <3>2, <3>3
    <2> QED BY <1>3, <2>1, GivesUp
  <1>4. CASE Running = {} /\ queue' = <<>>
    <2>1. \A p \in Procs : childHolds[p] = {}
      BY <1>4 DEF Running, IInv, OwnConnection
    <2>2. ASSUME NEW c \in Conns PROVE Place(c)' = IF Place(c) = "none" THEN "none" ELSE "over"
      <3>1. ~Waits(c)' /\ ~InAccept(c)' /\ ~Held(c)'
        BY <1>2, <1>4, <2>1, QueueEmpty DEF Waits, Held
      <3> QED BY <1>1, <3>1, PlaceOf DEF Place, Waits, InAccept, Held
    <2> QED BY <1>4, <2>2, ShutsDown
  <1> QED BY <1>3, <1>4 DEF ForkFails, ParentEnds

\* A connection that is asked for waits behind the others.
LEMMA ConnectsAsks ==
    ASSUME IInv, NEW c \in Conns, Connects(c)
    PROVE  Clients!Ask(c)
  <1>1. /\ client[c] = "none" /\ queue \in Seq(Conns) /\ queue' = Append(queue, c)
        /\ \A d \in Conns : client'[d] = IF d = c THEN "open" ELSE client[d]
        /\ UNCHANGED <<parent, parentHolds, childHolds>>
    BY DEF Connects, IInv, TypeOK, parents, children
  <1>2. /\ \A i \in DOMAIN queue' : (i \in DOMAIN queue /\ queue'[i] = queue[i]) \/ queue'[i] = c
        /\ \A i \in DOMAIN queue : i \in DOMAIN queue' /\ queue'[i] = queue[i]
        /\ \E i \in DOMAIN queue' : queue'[i] = c
    <2>1. Len(queue) + 1 \in DOMAIN Append(queue, c) /\ Append(queue, c)[Len(queue) + 1] = c
      BY <1>1
    <2> QED BY <1>1, <2>1
  <1>3. Place(c) = "none" /\ Place(c)' = "waiting"
    <2>1. Waits(c)' /\ client'[c] # "none"
      BY <1>1, <1>2 DEF Waits
    <2> QED BY <1>1, <2>1, PlaceOf DEF Place, Waits
  <1>4. ASSUME NEW d \in Conns \ {c} PROVE Place(d)' = Place(d)
    <2>1. Waits(d) <=> Waits(d)'
      BY <1>2, <1>4 DEF Waits
    <2>2. (InAccept(d) <=> InAccept(d)') /\ (Held(d) <=> Held(d)')
      BY <1>1 DEF InAccept, Held
    <2> QED BY <1>1, <1>4, <2>1, <2>2, PlaceKept
  <1> QED BY <1>1, <1>3, <1>4, Moved DEF Clients!Ask

LEMMA HandoverStep == IInv /\ [Next]_vars => [Clients!Next]_(Clients!vars)
  <1> SUFFICES ASSUME IInv, [Next]_vars PROVE [Clients!Next]_(Clients!vars)
    OBVIOUS
  <1>1. CASE Accepts
    BY <1>1, AcceptsTakes DEF Clients!Next
  <1>2. ASSUME NEW p \in Procs, Forks(p) PROVE [Clients!Next]_(Clients!vars)
    BY <1>2, ForksHands
  <1>3. CASE ForkFails \/ ParentEnds
    BY <1>3, ParentGivesUp DEF Clients!Next
  <1>4. ASSUME NEW p \in Procs, EndsOnFile(p) \/ Dies(p) PROVE [Clients!Next]_(Clients!vars)
    BY <1>4, ReleasedGivesUp DEF EndsOnFile, Dies, Clients!Next
  <1>5. ASSUME NEW c \in Conns, Connects(c) PROVE [Clients!Next]_(Clients!vars)
    BY <1>5, ConnectsAsks DEF Clients!Next
  <1>6. ASSUME AcceptFails \/ CloseConnection \/ Restarts \/ (\E c \in Conns : HangsUp(c))
               \/ UNCHANGED vars
        PROVE  UNCHANGED Clients!vars
    <2>1. UNCHANGED <<queue, childHolds>>
      BY <1>6 DEF AcceptFails, CloseConnection, Restarts, HangsUp, vars, children
    <2>2. ASSUME NEW c \in Conns PROVE client[c] = "none" <=> client'[c] = "none"
      <3>1. CASE \E d \in Conns : HangsUp(d)
        BY <3>1 DEF HangsUp, IInv, TypeOK
      <3>2. CASE UNCHANGED client
        BY <3>2
      <3> QED BY <1>6, <3>1, <3>2 DEF AcceptFails, CloseConnection, Restarts, vars
    <2>3. ASSUME NEW c \in Conns PROVE InAccept(c) <=> InAccept(c)'
      <3>1. CASE AcceptFails
        BY <3>1 DEF AcceptFails, InAccept, IInv, OwnConnection
      <3>2. CASE CloseConnection \/ Restarts
        BY <3>2 DEF CloseConnection, Restarts, Listening, InAccept
      <3>3. CASE UNCHANGED <<parent, parentHolds>>
        BY <3>3 DEF InAccept
      <3> QED BY <1>6, <3>1, <3>2, <3>3 DEF HangsUp, vars, parents
    <2>4. ASSUME NEW c \in Conns PROVE Place(c)' = Place(c)
      <3>1. (Waits(c) <=> Waits(c)') /\ (Held(c) <=> Held(c)')
        BY <2>1 DEF Waits, Held
      <3> QED BY <2>2, <2>3, <3>1, PlaceKept
    <2> QED BY <2>1, <2>4, StaysPut
  <1> QED BY <1>1, <1>2, <1>3, <1>4, <1>5, <1>6 DEF Next, ParentSteps

\* The connections are accepted in their order, each handed to one child, and what
\* was given up stays so, for any number of clients and processes (server.c:72-118).
THEOREM ServerHandsOver == Spec => HandsOver
  <1> QED BY Inductive, HandoverInit, HandoverStep, PTL DEF Spec, HandsOver, Clients!Spec
=============================================================================
