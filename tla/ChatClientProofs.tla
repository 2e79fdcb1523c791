-------------------------- MODULE ChatClientProofs --------------------------
(***************************************************************************)
(* Proofs about module ChatClient, for any number of clients, names, rooms *)
(* and failures. What an exit promises depends on where its loops are, so  *)
(* the invariant relates the place of each main thread (Sound) to the      *)
(* vector userRooms and to the maps of the rooms.                          *)
(***************************************************************************)
EXTENDS ChatClient, FiniteSetTheorems, TLAPS

dict == nickUserDictionary

\* c has no entry of its own in the room at place k of the vector own.
Left(c, k, own, entries) == entries[own[k]][NickOf[c]] # c

Gone(c) == \A r \in Rooms, n \in Nicks : dict[r][n] # c

\* What holds of a client whose main thread is at place p.
Sound(c, p, own, entries) ==
    /\ p.op = "Leave" => p.place \in DOMAIN own /\ own[p.place] = p.room
    /\ p.op = "disconnect" =>
         /\ p.counter \in 1 .. p.place
         /\ p.place \in DOMAIN own
         /\ p.room = own[p.counter]
         /\ \A k \in 1 .. p.counter - 1 : Left(c, k, own, entries)
    /\ p.op = "destroy" /\ p.pc # "done" =>
         /\ p.place \in DOMAIN own
         /\ p.room = own[p.place]
         /\ \A k \in 1 .. p.place - 1 : Left(c, k, own, entries)
    /\ p.pc = "room" \/ p.op = "newChatRoom" => p.room \in Rooms
    /\ p.pc = "done" => \A k \in DOMAIN own : Left(c, k, own, entries)
    /\ p.pc = "user" => p.op = "getUser" /\ (p.prx = NullPrx \/ NickOf[p.prx] = p.nick)

Named == \A r \in Rooms, n \in Nicks, c \in Clients : dict[r][n] = c => NickOf[c] = n

Noted == \A c \in Clients, r \in Rooms :
    dict[r][NickOf[c]] = c => \E k \in DOMAIN userRooms[c] : userRooms[c][k] = r

OnTheWay == \A c \in Clients : Sound(c, at[c], userRooms[c], dict)

IInv == TypeOK /\ Named /\ Noted /\ OnTheWay /\ EndsWithoutTrace

-----------------------------------------------------------------------------
(* Sets of numbers, and the places a main thread can be at. *)

\* The intervals from 0 to a member are finite, and inclusion is well-founded
\* on them.
LEMMA Least ==
    ASSUME NEW S, S \subseteq Nat, S # {}
    PROVE  \E k \in S : \A m \in S : k <= m
  <1> DEFINE T == {0 .. k : k \in S}
  <1>1. T \subseteq FiniteSubsetsOf(Nat) /\ T # {}
    <2>1. ASSUME NEW k \in S PROVE 0 .. k \in FiniteSubsetsOf(Nat)
      <3>1. IsFiniteSet(0 .. k)
        BY FS_Interval
      <3>2. 0 .. k \in SUBSET Nat
        OBVIOUS
      <3> QED BY <3>1, <3>2 DEF FiniteSubsetsOf
    <2> QED BY <2>1
  <1>2. IsWellFoundedOn(StrictSubsetOrdering(Nat), FiniteSubsetsOf(Nat))
    BY FS_StrictSubsetOrderingWellFounded
  <1>3. \E x \in T : \A y \in T : ~(<<y, x>> \in StrictSubsetOrdering(Nat))
    <2> HIDE DEF T
    <2> QED BY <1>1, <1>2, WFMin
  <1>4. PICK k \in S : \A m \in S : ~(<<0 .. m, 0 .. k>> \in StrictSubsetOrdering(Nat))
    BY <1>3
  <1>5. ASSUME NEW m \in S PROVE k <= m
    <2>1. SUFFICES ASSUME m < k PROVE FALSE
      OBVIOUS
    <2>2. 0 .. m \in SUBSET Nat /\ 0 .. k \in SUBSET Nat /\ 0 .. m \subseteq 0 .. k
      BY <2>1
    <2>3. 0 .. m # 0 .. k
      <3>1. k \in 0 .. k /\ k \notin 0 .. m
        BY <2>1
      <3> QED BY <3>1
    <2>4. <<0 .. m, 0 .. k>> \in StrictSubsetOrdering(Nat)
      BY <2>2, <2>3 DEF StrictSubsetOrdering
    <2> QED BY <1>4, <2>4
  <1> QED BY <1>5

LEMMA PointTypes ==
    ASSUME NEW p \in Points
    PROVE  /\ p.room \in Rooms \cup {NoRoom} /\ p.place \in Nat /\ p.counter \in Nat
           /\ p.names \in SUBSET Nicks /\ p.nick \in Nicks \cup {NoNick}
           /\ p.prx \in Clients \cup {NullPrx}
  BY DEF Points

LEMMA AtType ==
    ASSUME NEW pc \in {"menu", "server", "room", "user", "whom", "done"},
           NEW op \in Ops \cup {"none"}, NEW r \in Rooms \cup {NoRoom},
           NEW i \in Nat, NEW j \in Nat, NEW ns \in SUBSET Nicks,
           NEW n \in Nicks \cup {NoNick}, NEW prx \in Clients \cup {NullPrx}
    PROVE  At(pc, op, r, i, j, ns, n, prx) \in Points
  BY DEF At, Points

\* Where no loop is under way, nothing is promised.
LEMMA PlainSound ==
    ASSUME NEW c, NEW p, NEW own, NEW entries,
           p.op \notin {"newChatRoom", "Leave", "disconnect", "destroy"},
           p.pc \notin {"done", "room", "user"}
    PROVE  Sound(c, p, own, entries)
  BY DEF Sound

LEMMA PlainPoints ==
    ASSUME NEW c, NEW own, NEW entries
    PROVE  /\ Menu \in Points /\ Sound(c, Menu, own, entries)
           /\ \A r \in Rooms :
                /\ Asking("newChatRoom", r) \in Points
                /\ Sound(c, Asking("newChatRoom", r), own, entries)
           /\ \A op \in Ops \ {"newChatRoom", "Leave", "disconnect", "destroy"}, r \in Rooms \cup {NoRoom} :
                Asking(op, r) \in Points /\ Sound(c, Asking(op, r), own, entries)
           /\ \A r \in Rooms \cup {NoRoom}, ns \in SUBSET Nicks :
                Choosing(r, ns) \in Points /\ Sound(c, Choosing(r, ns), own, entries)
           /\ \A r \in Rooms \cup {NoRoom}, n \in Nicks :
                Writing(r, n) \in Points /\ Sound(c, Writing(r, n), own, entries)
  <1>1. Menu \in Points /\ Sound(c, Menu, own, entries)
    <2>1. Menu \in Points
      BY AtType DEF Menu
    <2>2. Menu.op = "none" /\ Menu.pc = "menu"
      BY DEF Menu, At
    <2> QED BY <2>1, <2>2, PlainSound
  <1>2. ASSUME NEW op \in Ops \ {"newChatRoom", "Leave", "disconnect", "destroy"},
               NEW r \in Rooms \cup {NoRoom}
        PROVE  Asking(op, r) \in Points /\ Sound(c, Asking(op, r), own, entries)
    <2>1. Asking(op, r) \in Points
      BY AtType DEF Asking
    <2>2. Asking(op, r).op = op /\ Asking(op, r).pc = "server"
      BY DEF Asking, At
    <2> QED BY <2>1, <2>2, PlainSound
  <1>3. ASSUME NEW r \in Rooms \cup {NoRoom}, NEW ns \in SUBSET Nicks
        PROVE  Choosing(r, ns) \in Points /\ Sound(c, Choosing(r, ns), own, entries)
    <2>1. Choosing(r, ns) \in Points
      BY AtType DEF Choosing, Ops
    <2>2. Choosing(r, ns).op = "names" /\ Choosing(r, ns).pc = "whom"
      BY DEF Choosing, At
    <2> QED BY <2>1, <2>2, PlainSound
  <1>4. ASSUME NEW r \in Rooms \cup {NoRoom}, NEW n \in Nicks
        PROVE  Writing(r, n) \in Points /\ Sound(c, Writing(r, n), own, entries)
    <2>1. Writing(r, n) \in Points
      BY AtType DEF Writing, Ops
    <2>2. Writing(r, n).op = "getUser" /\ Writing(r, n).pc = "server"
      BY DEF Writing, At
    <2> QED BY <2>1, <2>2, PlainSound
  <1>5. ASSUME NEW r \in Rooms
        PROVE  Asking("newChatRoom", r) \in Points /\ Sound(c, Asking("newChatRoom", r), own, entries)
    <2>1. Asking("newChatRoom", r) \in Points
      BY AtType DEF Asking, Ops
    <2>2. /\ Asking("newChatRoom", r).op = "newChatRoom" /\ Asking("newChatRoom", r).pc = "server"
          /\ Asking("newChatRoom", r).room = r
      BY DEF Asking, At
    <2> QED BY <2>1, <2>2 DEF Sound
  <1> QED BY <1>1, <1>2, <1>3, <1>4, <1>5

-----------------------------------------------------------------------------
(* The three loops. `own' is the vector userRooms of the client. *)

LEMMA LoopingFields ==
    ASSUME NEW op, NEW r, NEW i, NEW j
    PROVE  /\ Looping(op, r, i, j).op = op /\ Looping(op, r, i, j).pc = "server"
           /\ Looping(op, r, i, j).room = r
           /\ Looping(op, r, i, j).place = i /\ Looping(op, r, i, j).counter = j
  BY DEF Looping, At

LEMMA LoopingType ==
    ASSUME NEW op \in {"Leave", "disconnect", "destroy"}, NEW r \in Rooms,
           NEW i \in Nat, NEW j \in Nat
    PROVE  Looping(op, r, i, j) \in Points
  BY AtType DEF Looping, Ops

LEMMA LeavingSound ==
    ASSUME NEW c, NEW own \in Seq(Rooms), own = userRooms[c], NEW entries,
           NEW r \in Rooms, NEW i
    PROVE  LeavingFrom(c, r, i) \in Points /\ Sound(c, LeavingFrom(c, r, i), own, entries)
  <1>1. CASE Places(c, r, i) = {}
    BY <1>1, PlainPoints DEF LeavingFrom
  <1>2. CASE Places(c, r, i) # {}
    <2>1. Places(c, r, i) \subseteq Nat
      BY DEF Places
    <2>2. \E k \in Places(c, r, i) : \A m \in Places(c, r, i) : k <= m
      BY <1>2, <2>1, Least
    <2>3. PICK k \in Places(c, r, i) : LeavingFrom(c, r, i) = Looping("Leave", r, k, 1)
      BY <1>2, <2>2 DEF LeavingFrom
    <2>4. k \in DOMAIN own /\ own[k] = r /\ k \in Nat
      BY DEF Places
    <2>5. Looping("Leave", r, k, 1) \in Points
      BY <2>4, LoopingType
    <2>6. Sound(c, Looping("Leave", r, k, 1), own, entries)
      BY <2>4, LoopingFields DEF Sound
    <2> QED BY <2>3, <2>5, <2>6
  <1> QED BY <1>1, <1>2

LEMMA DestroyingSound ==
    ASSUME NEW c, NEW own \in Seq(Rooms), own = userRooms[c], NEW entries,
           NEW i \in Nat \ {0},
           \A k \in DOMAIN own : k < i => Left(c, k, own, entries)
    PROVE  DestroyingFrom(c, i) \in Points /\ Sound(c, DestroyingFrom(c, i), own, entries)
  <1>1. CASE i > Len(own)
    <2>1. DestroyingFrom(c, i) = Finishing
      BY <1>1 DEF DestroyingFrom
    <2>2. Finishing \in Points
      BY AtType DEF Finishing, Ops
    <2>3. Finishing.pc = "done" /\ Finishing.op = "destroy"
      BY DEF Finishing, At
    <2>4. \A k \in DOMAIN own : Left(c, k, own, entries)
      BY <1>1
    <2> QED BY <2>1, <2>2, <2>3, <2>4 DEF Sound
  <1>2. CASE ~(i > Len(own))
    <2>1. DestroyingFrom(c, i) = Looping("destroy", own[i], i, i)
      BY <1>2 DEF DestroyingFrom
    <2>2. i \in DOMAIN own /\ own[i] \in Rooms
      BY <1>2
    <2>3. \A k \in 1 .. i - 1 : Left(c, k, own, entries)
      BY <2>2
    <2>4. Looping("destroy", own[i], i, i) \in Points
      BY <2>2, LoopingType
    <2>5. Sound(c, Looping("destroy", own[i], i, i), own, entries)
      BY <2>2, <2>3, LoopingFields DEF Sound
    <2> QED BY <2>1, <2>4, <2>5
  <1> QED BY <1>1, <1>2

LEMMA DisconnectingSound ==
    ASSUME NEW c, NEW own \in Seq(Rooms), own = userRooms[c], NEW entries,
           NEW i \in Nat \ {0}, NEW j \in 1 .. i,
           \A k \in DOMAIN own : k < j => Left(c, k, own, entries)
    PROVE  /\ DisconnectingFrom(c, i, j) \in Points
           /\ Sound(c, DisconnectingFrom(c, i, j), own, entries)
  <1>1. CASE i > Len(own)
    <2>1. DisconnectingFrom(c, i, j) = DestroyingFrom(c, 1)
      BY <1>1 DEF DisconnectingFrom
    <2>2. 1 \in Nat \ {0} /\ \A k \in DOMAIN own : k < 1 => Left(c, k, own, entries)
      OBVIOUS
    <2>3. DestroyingFrom(c, 1) \in Points /\ Sound(c, DestroyingFrom(c, 1), own, entries)
      BY <2>2, DestroyingSound
    <2> QED BY <2>1, <2>3
  <1>2. CASE ~(i > Len(own))
    <2>1. DisconnectingFrom(c, i, j) = Looping("disconnect", own[j], i, j)
      BY <1>2 DEF DisconnectingFrom
    <2>2. i \in DOMAIN own /\ j \in DOMAIN own /\ own[j] \in Rooms
      BY <1>2
    <2>3. \A k \in 1 .. j - 1 : Left(c, k, own, entries)
      BY <2>2
    <2>4. Looping("disconnect", own[j], i, j) \in Points
      BY <2>2, LoopingType
    <2>5. Sound(c, Looping("disconnect", own[j], i, j), own, entries)
      BY <2>2, <2>3, LoopingFields DEF Sound
    <2> QED BY <2>1, <2>4, <2>5
  <1> QED BY <1>1, <1>2

-----------------------------------------------------------------------------
(* Steps that add no client to a map. *)

\* An entry that goes takes no promise with it.
LEMMA SoundShrinks ==
    ASSUME NEW c \in Clients, NEW p, NEW own \in Seq(Rooms), NEW entries, NEW others,
           Sound(c, p, own, entries),
           \A r \in Rooms : others[r][NickOf[c]] = c => entries[r][NickOf[c]] = c,
           p.place \in Nat, p.counter \in Nat
    PROVE  Sound(c, p, own, others)
  <1>1. ASSUME NEW k \in DOMAIN own, Left(c, k, own, entries) PROVE Left(c, k, own, others)
    BY <1>1 DEF Left
  <1>2. p.op = "disconnect" => 1 .. p.counter - 1 \subseteq DOMAIN own
    BY DEF Sound
  <1>3. p.op = "destroy" /\ p.pc # "done" => 1 .. p.place - 1 \subseteq DOMAIN own
    BY DEF Sound
  <1> QED BY <1>1, <1>2, <1>3 DEF Sound

LEMMA Quiet ==
    ASSUME IInv, TypeOK', userRooms' = userRooms,
           \A r \in Rooms, n \in Nicks : dict'[r][n] = dict[r][n] \/ dict'[r][n] \notin Clients,
           \A d \in Clients : at'[d] = at[d] \/ Sound(d, at'[d], userRooms[d], dict'),
           \A d \in Clients :
             process'[d] = "ended" => process[d] = "ended" \/ (at[d].pc = "done" /\ dict' = dict)
    PROVE  IInv'
  <1>1. Named'
    BY DEF IInv, Named
  <1>2. \A d \in Clients, r \in Rooms : dict'[r][NickOf[d]] = d => dict[r][NickOf[d]] = d
    BY NickOfType
  <1>3. Noted'
    BY <1>2 DEF IInv, Noted
  <1>4. OnTheWay'
    <2> SUFFICES ASSUME NEW d \in Clients PROVE Sound(d, at'[d], userRooms[d], dict')
      BY DEF OnTheWay
    <2>1. CASE at'[d] = at[d]
      <3>1. Sound(d, at[d], userRooms[d], dict) /\ userRooms[d] \in Seq(Rooms) /\ at[d] \in Points
        BY DEF IInv, OnTheWay, TypeOK
      <3>2. at[d].place \in Nat /\ at[d].counter \in Nat
        BY <3>1, PointTypes
      <3>3. Sound(d, at[d], userRooms[d], dict')
        BY <1>2, <3>1, <3>2, SoundShrinks
      <3> QED BY <2>1, <3>3
    <2> QED BY <2>1
  <1>5. EndsWithoutTrace'
    <2> SUFFICES ASSUME NEW d \in Clients, process'[d] = "ended",
                        NEW r \in Rooms, NEW n \in Nicks, dict'[r][n] = d
                 PROVE  FALSE
      BY DEF EndsWithoutTrace, dict
    <2>1. dict[r][n] = d
      OBVIOUS
    <2>2. process[d] # "ended"
      BY <2>1 DEF IInv, EndsWithoutTrace, dict
    <2>3. at[d].pc = "done"
      BY <2>2
    <2>4. NickOf[d] = n
      BY <2>1 DEF IInv, Named
    <2>5. PICK k \in DOMAIN userRooms[d] : userRooms[d][k] = r
      BY <2>1, <2>4 DEF IInv, Noted
    <2>6. Left(d, k, userRooms[d], dict)
      BY <2>3 DEF IInv, OnTheWay, Sound
    <2> QED BY <2>1, <2>4, <2>5, <2>6 DEF Left
  <1> QED BY <1>1, <1>3, <1>4, <1>5 DEF IInv

\* A main thread goes on, and nothing else happens.
LEMMA Moves ==
    ASSUME IInv, NEW c \in Clients, NEW p \in Points, Sound(c, p, userRooms[c], dict),
           Goes(c, p),
           UNCHANGED <<serverUp, crashes, factoryKnown, factoryUp, roomList, users,
                       nickUserDictionary, process, server, userRooms>>
    PROVE  IInv'
  <1>1. at' = [at EXCEPT ![c] = p] /\ at \in [Clients -> Points]
    BY DEF Goes, IInv, TypeOK
  <1>2. at' \in [Clients -> Points]
    BY <1>1
  <1>3. TypeOK'
    BY <1>2 DEF IInv, TypeOK
  <1>4. \A d \in Clients : at'[d] = at[d] \/ Sound(d, at'[d], userRooms[d], dict')
    <2>1. \A d \in Clients : at'[d] = IF d = c THEN p ELSE at[d]
      BY <1>1
    <2>2. dict' = dict
      BY DEF dict
    <2> QED BY <2>1, <2>2
  <1> QED BY <1>3, <1>4, Quiet DEF dict

LEMMA ResumedSound ==
    ASSUME IInv, NEW c \in Clients
    PROVE  Resumed(c) \in Points /\ Sound(c, Resumed(c), userRooms[c], dict)
  <1> DEFINE p == at[c]
             own == userRooms[c]
  <1>1. p \in Points /\ own \in Seq(Rooms) /\ Sound(c, p, own, dict)
    BY DEF IInv, TypeOK, OnTheWay
  <1>2. p.place \in Nat /\ p.counter \in Nat /\ p.room \in Rooms \cup {NoRoom}
    BY <1>1, PointTypes
  <1>3. CASE p.op = "names"
    BY <1>2, <1>3, PlainPoints DEF Resumed
  <1>4. CASE p.op = "Leave"
    <2>1. p.room \in Rooms
      BY <1>1, <1>4 DEF Sound
    <2> QED BY <1>1, <1>4, <2>1, LeavingSound DEF Resumed
  <1>5. CASE p.op = "disconnect"
    <2>1. Resumed(c) = DisconnectingFrom(c, p.place + 1, p.counter)
      BY <1>5 DEF Resumed
    <2>2. p.counter \in 1 .. p.place /\ \A k \in 1 .. p.counter - 1 : Left(c, k, own, dict)
      BY <1>1, <1>5 DEF Sound
    <2>3. p.place + 1 \in Nat \ {0} /\ p.counter \in 1 .. p.place + 1
      BY <1>2, <2>2
    <2>4. \A k \in DOMAIN own : k < p.counter => Left(c, k, own, dict)
      BY <1>1, <1>2, <2>2
    <2>5. /\ DisconnectingFrom(c, p.place + 1, p.counter) \in Points
          /\ Sound(c, DisconnectingFrom(c, p.place + 1, p.counter), own, dict)
      <3> HIDE DEF p
      <3> QED BY <1>1, <2>3, <2>4, DisconnectingSound
    <2> QED BY <2>1, <2>5
  <1>6. CASE p.op \notin {"names", "Leave", "disconnect"}
    <2>1. Resumed(c) = Menu
      BY <1>6 DEF Resumed
    <2> QED BY <2>1, PlainPoints
  <1> QED BY <1>3, <1>4, <1>5, <1>6

LEMMA FailsKeeps ==
    ASSUME IInv, NEW c \in Clients, NEW exc, Fails(c, exc)
    PROVE  IInv'
  <1>1. UNCHANGED <<serverUp, crashes, factoryKnown, factoryUp, roomList, users,
                    nickUserDictionary, server, userRooms>>
    BY DEF Fails, environment, serverState, rooms
  <1>2. CASE Goes(c, Resumed(c)) /\ UNCHANGED process
    BY <1>1, <1>2, ResumedSound, Moves
  <1>3. CASE process' = [process EXCEPT ![c] = "terminated"] /\ UNCHANGED at
    <2>1. process' \in [Clients -> {"off", "running", "ended", "terminated", "killed"}]
      BY <1>3 DEF IInv, TypeOK
    <2>2. TypeOK'
      BY <1>1, <1>3, <2>1 DEF IInv, TypeOK
    <2>3. \A d \in Clients : process'[d] = "ended" => process[d] = "ended"
      BY <1>3 DEF IInv, TypeOK
    <2> QED BY <1>1, <1>3, <2>2, <2>3, Quiet DEF dict
  <1> QED BY <1>2, <1>3 DEF Fails

\* A client starts, or its process is killed or ends.
LEMMA ProcessKeeps ==
    ASSUME IInv, NEW c \in Clients,
           NEW s \in {"running", "ended", "terminated", "killed"},
           process' = [process EXCEPT ![c] = s], server' \in [Clients -> BOOLEAN],
           s = "ended" => at[c].pc = "done",
           UNCHANGED <<serverUp, crashes, factoryKnown, factoryUp, roomList, users,
                       nickUserDictionary, userRooms, at>>
    PROVE  IInv'
  <1>1. process' \in [Clients -> {"off", "running", "ended", "terminated", "killed"}]
    BY DEF IInv, TypeOK
  <1>2. TypeOK'
    BY <1>1 DEF IInv, TypeOK
  <1>3. \A d \in Clients : process'[d] = "ended" => process[d] = "ended" \/ at[d].pc = "done"
    BY DEF IInv, TypeOK
  <1> QED BY <1>2, <1>3, Quiet DEF dict

\* Steps of the server and of the factory.
LEMMA EnvironmentKeeps ==
    ASSUME IInv, serverUp' \in BOOLEAN, crashes' \in 0 .. MaxCrashes,
           factoryKnown' \in BOOLEAN, factoryUp' \in BOOLEAN, roomList' \subseteq Rooms,
           UNCHANGED <<users, nickUserDictionary, process, server, userRooms, at>>
    PROVE  IInv'
  <1>1. TypeOK'
    BY DEF IInv, TypeOK
  <1> QED BY <1>1, Quiet DEF dict

-----------------------------------------------------------------------------
(* Steps that change a room. *)

\* What the main thread of c knows when its call has reached the room.
LEMMA InRoom ==
    ASSUME IInv, NEW c \in Clients, NEW op, CallsRoom(c, op)
    PROVE  /\ c \in Running /\ at[c].pc = "room" /\ at[c].op = op
           /\ at[c] \in Points /\ at[c].room \in Rooms
           /\ at[c].place \in Nat /\ at[c].counter \in Nat
           /\ userRooms[c] \in Seq(Rooms) /\ NickOf[c] \in Nicks
           /\ Sound(c, at[c], userRooms[c], dict)
  <1>1. c \in Running /\ at[c].pc = "room" /\ at[c].op = op
    BY DEF CallsRoom
  <1>2. at[c] \in Points /\ userRooms[c] \in Seq(Rooms) /\ Sound(c, at[c], userRooms[c], dict)
    BY DEF IInv, TypeOK, OnTheWay
  <1>3. at[c].room \in Rooms
    BY <1>1, <1>2 DEF Sound
  <1> QED BY <1>1, <1>2, <1>3, PointTypes, NickOfType

LEMMA TailType ==
    ASSUME NEW S, NEW s \in Seq(S), s # <<>>
    PROVE  Tail(s) \in Seq(S)
  OBVIOUS

LEMMA Forgets ==
    ASSUME IInv, NEW c \in Clients, NEW r \in Rooms, NickOf[c] \in Listed(r), RoomForgets(c, r)
    PROVE  /\ users' \in [Rooms -> Seq(Nicks)]
           /\ nickUserDictionary' \in [Rooms -> [Nicks -> Clients \cup {NullPrx, NoEntry}]]
           /\ \A q \in Rooms, n \in Nicks :
                dict'[q][n] = IF q = r /\ n = NickOf[c] THEN NoEntry ELSE dict[q][n]
  <1>1. users[r] # <<>> /\ users[r] \in Seq(Nicks)
    BY DEF Listed, IInv, TypeOK
  <1>2. Tail(users[r]) \in Seq(Nicks)
    BY <1>1, TailType
  <1>3. users' \in [Rooms -> Seq(Nicks)]
    BY <1>2 DEF RoomForgets, IInv, TypeOK
  <1> DEFINE old == nickUserDictionary
             new == [old EXCEPT ![r][NickOf[c]] = NoEntry]
  <1>4. old \in [Rooms -> [Nicks -> Clients \cup {NullPrx, NoEntry}]] /\ NickOf[c] \in Nicks
    BY NickOfType DEF IInv, TypeOK
  <1>5. new \in [Rooms -> [Nicks -> Clients \cup {NullPrx, NoEntry}]]
    BY <1>4
  <1>6. \A q \in Rooms, n \in Nicks :
          new[q][n] = IF q = r /\ n = NickOf[c] THEN NoEntry ELSE old[q][n]
    BY <1>4
  <1>7. dict' = new /\ nickUserDictionary' = new
    BY DEF RoomForgets, dict
  <1> QED BY <1>3, <1>5, <1>6, <1>7 DEF dict

\* A Leave of the loops: the entry is erased and the main thread goes on to p.
LEMMA LoopLeaves ==
    ASSUME IInv, NEW c \in Clients, NEW r \in Rooms, NickOf[c] \in Listed(r), RoomForgets(c, r),
           NEW p \in Points, Sound(c, p, userRooms[c], dict'), Goes(c, p),
           UNCHANGED <<serverUp, crashes, factoryKnown, factoryUp, roomList, process, server,
                       userRooms>>
    PROVE  IInv'
  <1>1. at' = [at EXCEPT ![c] = p] /\ at \in [Clients -> Points]
    BY DEF Goes, IInv, TypeOK
  <1>2. at' \in [Clients -> Points]
    BY <1>1
  <1>3. TypeOK'
    BY <1>2, Forgets DEF IInv, TypeOK
  <1>4. \A d \in Clients : at'[d] = at[d] \/ Sound(d, at'[d], userRooms[d], dict')
    BY <1>1
  <1>5. \A q \in Rooms, n \in Nicks : dict'[q][n] = dict[q][n] \/ dict'[q][n] \notin Clients
    BY Forgets, SentinelsDiffer
  <1> QED BY <1>3, <1>4, <1>5, Quiet

LEMMA DisconnectsKeeps ==
    ASSUME IInv, NEW c \in Clients, Disconnects(c)
    PROVE  IInv'
  <1> DEFINE p == at[c]
             own == userRooms[c]
             next == DisconnectingFrom(c, p.place + 1, p.counter + 1)
  <1>1. /\ CallsRoom(c, "disconnect") /\ NickOf[c] \in Listed(p.room) /\ RoomForgets(c, p.room)
        /\ Goes(c, next)
        /\ UNCHANGED <<serverUp, crashes, factoryKnown, factoryUp, roomList, process, server,
                       userRooms>>
    BY DEF Disconnects, environment, serverState
  <1>2. /\ p.op = "disconnect" /\ p.room \in Rooms /\ p.place \in Nat /\ p.counter \in Nat
        /\ own \in Seq(Rooms) /\ NickOf[c] \in Nicks /\ Sound(c, p, own, dict)
    BY <1>1, InRoom
  <1>3. /\ p.counter \in 1 .. p.place /\ p.place \in DOMAIN own /\ p.room = own[p.counter]
        /\ \A k \in 1 .. p.counter - 1 : Left(c, k, own, dict)
    BY <1>2 DEF Sound
  <1>4. \A q \in Rooms, n \in Nicks :
          dict'[q][n] = IF q = p.room /\ n = NickOf[c] THEN NoEntry ELSE dict[q][n]
    BY <1>1, <1>2, Forgets
  <1>5. ASSUME NEW k \in DOMAIN own, k < p.counter + 1 PROVE Left(c, k, own, dict')
    <2>1. own[k] \in Rooms
      BY <1>2
    <2>2. CASE k = p.counter
      <3>1. dict'[own[k]][NickOf[c]] = NoEntry
        BY <1>2, <1>3, <1>4, <2>1, <2>2
      <3> QED BY <3>1, SentinelsDiffer DEF Left
    <2>3. CASE k # p.counter
      <3>1. k \in 1 .. p.counter - 1
        BY <1>2, <1>5, <2>3
      <3>2. dict[own[k]][NickOf[c]] # c
        BY <1>3, <3>1 DEF Left
      <3> QED BY <1>2, <1>4, <2>1, <3>2, SentinelsDiffer DEF Left
    <2> QED BY <2>2, <2>3
  <1>6. p.place + 1 \in Nat \ {0} /\ p.counter + 1 \in 1 .. p.place + 1
    BY <1>2, <1>3
  <1>7. next \in Points /\ Sound(c, next, own, dict')
    <2> HIDE DEF p
    <2> QED BY <1>2, <1>5, <1>6, DisconnectingSound
  <1> HIDE DEF next, p
  <1> QED BY <1>1, <1>2, <1>7, LoopLeaves DEF p

LEMMA LeavesAgainKeeps ==
    ASSUME IInv, NEW c \in Clients, LeavesAgain(c)
    PROVE  IInv'
  <1> DEFINE p == at[c]
             own == userRooms[c]
             next == DestroyingFrom(c, p.place + 1)
  <1>1. /\ CallsRoom(c, "destroy") /\ NickOf[c] \in Listed(p.room) /\ RoomForgets(c, p.room)
        /\ Goes(c, next)
        /\ UNCHANGED <<serverUp, crashes, factoryKnown, factoryUp, roomList, process, server,
                       userRooms>>
    BY DEF LeavesAgain, environment, serverState
  <1>2. /\ p.op = "destroy" /\ p.pc = "room" /\ p.room \in Rooms /\ p.place \in Nat
        /\ own \in Seq(Rooms) /\ NickOf[c] \in Nicks /\ Sound(c, p, own, dict)
    BY <1>1, InRoom
  <1>3. /\ p.place \in DOMAIN own /\ p.room = own[p.place]
        /\ \A k \in 1 .. p.place - 1 : Left(c, k, own, dict)
    BY <1>2 DEF Sound
  <1>4. \A q \in Rooms, n \in Nicks :
          dict'[q][n] = IF q = p.room /\ n = NickOf[c] THEN NoEntry ELSE dict[q][n]
    BY <1>1, <1>2, Forgets
  <1>5. ASSUME NEW k \in DOMAIN own, k < p.place + 1 PROVE Left(c, k, own, dict')
    <2>1. own[k] \in Rooms
      BY <1>2
    <2>2. CASE k = p.place
      <3>1. dict'[own[k]][NickOf[c]] = NoEntry
        BY <1>2, <1>3, <1>4, <2>1, <2>2
      <3> QED BY <3>1, SentinelsDiffer DEF Left
    <2>3. CASE k # p.place
      <3>1. k \in 1 .. p.place - 1
        BY <1>2, <1>5, <2>3
      <3>2. dict[own[k]][NickOf[c]] # c
        BY <1>3, <3>1 DEF Left
      <3> QED BY <1>2, <1>4, <2>1, <3>2, SentinelsDiffer DEF Left
    <2> QED BY <2>2, <2>3
  <1>6. p.place + 1 \in Nat \ {0}
    BY <1>2
  <1>7. next \in Points /\ Sound(c, next, own, dict')
    <2> HIDE DEF p
    <2> QED BY <1>2, <1>5, <1>6, DestroyingSound
  <1> HIDE DEF next, p
  <1> QED BY <1>1, <1>2, <1>7, LoopLeaves DEF p

LEMMA AppendFacts ==
    ASSUME NEW S, NEW s \in Seq(S), NEW e \in S
    PROVE  /\ Append(s, e) \in Seq(S) /\ DOMAIN s \subseteq DOMAIN Append(s, e)
           /\ \A k \in DOMAIN s : Append(s, e)[k] = s[k]
           /\ \E k \in DOMAIN Append(s, e) : Append(s, e)[k] = e
  <1>1. Append(s, e) \in Seq(S) /\ Len(Append(s, e)) = Len(s) + 1
    OBVIOUS
  <1>2. Append(s, e)[Len(s) + 1] = e /\ Len(s) + 1 \in DOMAIN Append(s, e)
    OBVIOUS
  <1> QED BY <1>1, <1>2

LEMMA WithoutFacts ==
    ASSUME NEW S, NEW s \in Seq(S), NEW i \in DOMAIN s
    PROVE  /\ Without(s, i) \in Seq(S)
           /\ \A k \in DOMAIN s : k # i => \E m \in DOMAIN Without(s, i) : Without(s, i)[m] = s[k]
           /\ \A m \in DOMAIN Without(s, i) : \E k \in DOMAIN s : Without(s, i)[m] = s[k]
  <1> DEFINE front == SubSeq(s, 1, i - 1)
             back == SubSeq(s, i + 1, Len(s))
  <1>1. /\ front \in Seq(S) /\ Len(front) = i - 1
        /\ \A m \in 1 .. i - 1 : front[m] = s[m]
    OBVIOUS
  <1>2. /\ back \in Seq(S) /\ Len(back) = Len(s) - i
        /\ \A m \in 1 .. Len(s) - i : back[m] = s[m + i]
    OBVIOUS
  <1> HIDE DEF front, back
  <1>3. /\ front \o back \in Seq(S) /\ Len(front \o back) = Len(s) - 1
        /\ \A m \in 1 .. i - 1 : (front \o back)[m] = s[m]
        /\ \A m \in i .. Len(s) - 1 : (front \o back)[m] = s[m + 1]
    <2>1. front \o back \in Seq(S) /\ Len(front \o back) = Len(s) - 1
      BY <1>1, <1>2
    <2>2. \A m \in 1 .. i - 1 : (front \o back)[m] = s[m]
      BY <1>1, <1>2
    <2>3. ASSUME NEW m \in i .. Len(s) - 1 PROVE (front \o back)[m] = s[m + 1]
      <3>1. (front \o back)[m] = back[m - (i - 1)]
        BY <1>1, <1>2
      <3>2. m - (i - 1) \in 1 .. Len(s) - i
        OBVIOUS
      <3>3. back[m - (i - 1)] = s[m - (i - 1) + i]
        BY <1>2, <3>2
      <3> QED BY <3>1, <3>3
    <2> QED BY <2>1, <2>2, <2>3
  <1>4. Without(s, i) = front \o back
    BY DEF Without, front, back
  <1>5. ASSUME NEW k \in DOMAIN s, k # i
        PROVE  \E m \in DOMAIN (front \o back) : (front \o back)[m] = s[k]
    <2>1. CASE k < i
      <3>1. k \in 1 .. i - 1 /\ k \in DOMAIN (front \o back)
        BY <1>3, <2>1
      <3> QED BY <1>3, <3>1
    <2>2. CASE k > i
      <3>1. k - 1 \in i .. Len(s) - 1 /\ k - 1 \in DOMAIN (front \o back)
        BY <1>3, <2>2
      <3>2. (front \o back)[k - 1] = s[k - 1 + 1]
        BY <1>3, <3>1
      <3> QED BY <3>1, <3>2
    <2> QED BY <1>5, <2>1, <2>2
  <1>6. ASSUME NEW m \in DOMAIN (front \o back)
        PROVE  \E k \in DOMAIN s : (front \o back)[m] = s[k]
    <2>1. m \in 1 .. Len(s) - 1 /\ m \in DOMAIN s /\ m + 1 \in DOMAIN s
      BY <1>3
    <2>2. m \in 1 .. i - 1 \/ m \in i .. Len(s) - 1
      BY <2>1
    <2> QED BY <1>3, <2>1, <2>2
  <1> QED BY <1>3, <1>4, <1>5, <1>6

\* What is in a sequence that has gained or lost one entry.
LEMMA AppendRange ==
    ASSUME NEW S, NEW s \in Seq(S), NEW e \in S
    PROVE  {Append(s, e)[k] : k \in DOMAIN Append(s, e)} = {s[k] : k \in DOMAIN s} \cup {e}
  <1>1. \A k \in DOMAIN Append(s, e) : k \in DOMAIN s \/ Append(s, e)[k] = e
    OBVIOUS
  <1> QED BY <1>1, AppendFacts

LEMMA WithoutRange ==
    ASSUME NEW S, NEW s \in Seq(S), NEW i \in DOMAIN s
    PROVE  {Without(s, i)[k] : k \in DOMAIN Without(s, i)}
             \in {{s[k] : k \in DOMAIN s}, {s[k] : k \in DOMAIN s} \ {s[i]}}
  <1> DEFINE all == {s[k] : k \in DOMAIN s}
             rest == {Without(s, i)[k] : k \in DOMAIN Without(s, i)}
  <1>1. all \ {s[i]} \subseteq rest
    BY WithoutFacts, SMTT(30)
  <1>2. rest \subseteq all
    BY WithoutFacts
  <1> QED BY <1>1, <1>2

LEMMA JoinsKeeps ==
    ASSUME IInv, NEW c \in Clients, Joins(c)
    PROVE  IInv'
  <1> DEFINE r == at[c].room
             nick == NickOf[c]
             old == nickUserDictionary
             new == [old EXCEPT ![r][nick] = c]
  <1>1. /\ CallsRoom(c, "join")
        /\ users' = [users EXCEPT ![r] = Append(@, nick)]
        /\ userRooms' = [userRooms EXCEPT ![c] = Append(@, r)]
        /\ at' = [at EXCEPT ![c] = Menu]
        /\ UNCHANGED <<serverUp, crashes, factoryKnown, factoryUp, roomList, process, server>>
    BY DEF Joins, Goes, environment, serverState
  <1>2. dict' = new /\ nickUserDictionary' = new
    BY DEF Joins, dict
  <1>3. r \in Rooms /\ nick \in Nicks /\ process[c] = "running"
    BY <1>1, InRoom DEF Running
  <1>4. /\ old \in [Rooms -> [Nicks -> Clients \cup {NullPrx, NoEntry}]]
        /\ users \in [Rooms -> Seq(Nicks)] /\ userRooms \in [Clients -> Seq(Rooms)]
        /\ at \in [Clients -> Points]
    BY DEF IInv, TypeOK
  <1>5. /\ new \in [Rooms -> [Nicks -> Clients \cup {NullPrx, NoEntry}]]
        /\ \A q \in Rooms, n \in Nicks : new[q][n] = IF q = r /\ n = nick THEN c ELSE old[q][n]
    BY <1>3, <1>4
  <1> HIDE DEF r, nick, new
  <1>6. /\ userRooms' \in [Clients -> Seq(Rooms)]
        /\ userRooms'[c] = Append(userRooms[c], r)
        /\ \A d \in Clients \ {c} : userRooms'[d] = userRooms[d]
    BY <1>1, <1>3, <1>4, AppendFacts
  <1>7. /\ Menu \in Points
        /\ \A d \in Clients : at'[d] = IF d = c THEN Menu ELSE at[d]
    BY <1>1, <1>4, PlainPoints
  <1>8. TypeOK'
    <2>1. users' \in [Rooms -> Seq(Nicks)]
      BY <1>1, <1>3, <1>4, AppendFacts
    <2>2. at' \in [Clients -> Points]
      BY <1>1, <1>4, <1>7
    <2> QED BY <1>1, <1>2, <1>5, <1>6, <2>1, <2>2 DEF IInv, TypeOK
  <1>9. Named'
    BY <1>2, <1>5 DEF IInv, Named, dict, nick
  <1>10. Noted'
    <2> SUFFICES ASSUME NEW d \in Clients, NEW q \in Rooms, dict'[q][NickOf[d]] = d
                 PROVE  \E k \in DOMAIN userRooms'[d] : userRooms'[d][k] = q
      BY DEF Noted
    <2>1. NickOf[d] \in Nicks
      BY NickOfType
    <2>2. CASE d = c /\ q = r
      <3>1. \E k \in DOMAIN Append(userRooms[c], r) : Append(userRooms[c], r)[k] = r
        <4>1. userRooms[c] \in Seq(Rooms)
          BY <1>4
        <4> QED BY <1>3, <4>1, AppendFacts
      <3> QED BY <1>6, <2>2, <3>1
    <2>3. CASE ~(d = c /\ q = r)
      <3>1. dict[q][NickOf[d]] = d
        BY <1>2, <1>5, <2>1, <2>3 DEF dict, nick
      <3>2. PICK k \in DOMAIN userRooms[d] : userRooms[d][k] = q
        BY <3>1 DEF IInv, Noted
      <3>3. CASE d = c
        <4>1. k \in DOMAIN Append(userRooms[c], r) /\ Append(userRooms[c], r)[k] = userRooms[c][k]
          BY <1>3, <1>4, <3>2, <3>3, AppendFacts
        <4> QED BY <1>6, <3>2, <3>3, <4>1
      <3>4. CASE d # c
        BY <1>6, <3>2, <3>4
      <3> QED BY <3>3, <3>4
    <2> QED BY <2>2, <2>3
  <1>11. OnTheWay'
    <2> SUFFICES ASSUME NEW d \in Clients PROVE Sound(d, at'[d], userRooms'[d], dict')
      BY DEF OnTheWay
    <2>1. CASE d = c
      BY <1>7, <2>1, PlainPoints
    <2>2. CASE d # c
      <3>1. Sound(d, at[d], userRooms[d], dict) /\ at[d] \in Points /\ userRooms[d] \in Seq(Rooms)
        BY <1>4 DEF IInv, OnTheWay
      <3>2. at[d].place \in Nat /\ at[d].counter \in Nat
        BY <3>1, PointTypes
      <3>3. \A q \in Rooms : dict'[q][NickOf[d]] = d => dict[q][NickOf[d]] = d
        BY <1>2, <1>5, <2>2, NickOfType DEF dict
      <3>4. Sound(d, at[d], userRooms[d], dict')
        BY <3>1, <3>2, <3>3, SoundShrinks
      <3> QED BY <1>6, <1>7, <2>2, <3>4
    <2> QED BY <2>1, <2>2
  <1>12. EndsWithoutTrace'
    <2> SUFFICES ASSUME NEW d \in Clients, process'[d] = "ended", NEW q \in Rooms, NEW n \in Nicks
                 PROVE  dict'[q][n] # d
      BY DEF EndsWithoutTrace, dict
    <2>1. process[d] = "ended" /\ d # c
      BY <1>1, <1>3
    <2>2. dict[q][n] # d
      BY <2>1 DEF IInv, EndsWithoutTrace, dict
    <2> QED BY <1>2, <1>5, <2>1, <2>2 DEF dict
  <1> QED BY <1>8, <1>9, <1>10, <1>11, <1>12 DEF IInv

LEMMA LeavesRoomKeeps ==
    ASSUME IInv, NEW c \in Clients, LeavesRoom(c)
    PROVE  IInv'
  <1> DEFINE r == at[c].room
             i == at[c].place
             own == userRooms[c]
  <1>1. /\ CallsRoom(c, "Leave") /\ NickOf[c] \in Listed(r) /\ RoomForgets(c, r)
        /\ userRooms' = [userRooms EXCEPT ![c] = Without(@, i)]
        /\ at' = [at EXCEPT ![c] = Menu]
        /\ UNCHANGED <<serverUp, crashes, factoryKnown, factoryUp, roomList, process, server>>
    BY DEF LeavesRoom, Goes, environment, serverState
  <1>2. r \in Rooms /\ i \in DOMAIN own /\ own[i] = r /\ own \in Seq(Rooms)
    BY <1>1, InRoom DEF Sound
  <1>3. /\ users' \in [Rooms -> Seq(Nicks)]
        /\ nickUserDictionary' \in [Rooms -> [Nicks -> Clients \cup {NullPrx, NoEntry}]]
        /\ \A q \in Rooms, n \in Nicks :
             dict'[q][n] = IF q = r /\ n = NickOf[c] THEN NoEntry ELSE dict[q][n]
    BY <1>1, <1>2, Forgets
  <1>4. userRooms \in [Clients -> Seq(Rooms)] /\ at \in [Clients -> Points]
    BY DEF IInv, TypeOK
  <1> HIDE DEF r, i
  <1>5. Without(own, i) \in Seq(Rooms)
    BY <1>2, WithoutFacts
  <1>6. /\ userRooms' \in [Clients -> Seq(Rooms)]
        /\ \A d \in Clients : userRooms'[d] = IF d = c THEN Without(own, i) ELSE userRooms[d]
    BY <1>1, <1>4, <1>5
  <1>7. \A d \in Clients : at'[d] = IF d = c THEN Menu ELSE at[d]
    BY <1>1, <1>4
  <1>8. TypeOK'
    <2>1. at' \in [Clients -> Points]
      BY <1>1, <1>4, PlainPoints
    <2> QED BY <1>1, <1>3, <1>6, <2>1 DEF IInv, TypeOK
  <1>9. \A q \in Rooms, n \in Nicks, d \in Clients : dict'[q][n] = d => dict[q][n] = d
    BY <1>3, SentinelsDiffer
  <1>10. Named'
    BY <1>9 DEF IInv, Named
  <1>11. Noted'
    <2> SUFFICES ASSUME NEW d \in Clients, NEW q \in Rooms, dict'[q][NickOf[d]] = d
                 PROVE  \E k \in DOMAIN userRooms'[d] : userRooms'[d][k] = q
      BY DEF Noted
    <2>1. NickOf[d] \in Nicks /\ dict[q][NickOf[d]] = d
      BY <1>9, NickOfType
    <2>2. PICK k \in DOMAIN userRooms[d] : userRooms[d][k] = q
      BY <2>1 DEF IInv, Noted
    <2>3. CASE d = c
      <3>1. q # r
        BY <1>3, <2>1, <2>3, SentinelsDiffer
      <3>2. k \in DOMAIN own /\ own[k] = q /\ k # i
        BY <1>2, <2>2, <2>3, <3>1
      <3>3. \E m \in DOMAIN Without(own, i) : Without(own, i)[m] = q
        <4> HIDE DEF own
        <4> QED BY <1>2, <3>2, WithoutFacts
      <3> QED BY <1>6, <2>3, <3>3
    <2>4. CASE d # c
      BY <1>6, <2>2, <2>4
    <2> QED BY <2>3, <2>4
  <1>12. OnTheWay'
    <2> SUFFICES ASSUME NEW d \in Clients PROVE Sound(d, at'[d], userRooms'[d], dict')
      BY DEF OnTheWay
    <2>1. CASE d = c
      BY <1>7, <2>1, PlainPoints
    <2>2. CASE d # c
      <3>1. Sound(d, at[d], userRooms[d], dict) /\ at[d] \in Points /\ userRooms[d] \in Seq(Rooms)
        BY <1>4 DEF IInv, OnTheWay
      <3>2. at[d].place \in Nat /\ at[d].counter \in Nat
        BY <3>1, PointTypes
      <3>3. \A q \in Rooms : dict'[q][NickOf[d]] = d => dict[q][NickOf[d]] = d
        BY <1>9, NickOfType
      <3>4. Sound(d, at[d], userRooms[d], dict')
        BY <3>1, <3>2, <3>3, SoundShrinks
      <3> QED BY <1>6, <1>7, <2>2, <3>4
    <2> QED BY <2>1, <2>2
  <1>13. EndsWithoutTrace'
    BY <1>1, <1>9 DEF IInv, EndsWithoutTrace, dict
  <1> QED BY <1>8, <1>10, <1>11, <1>12, <1>13 DEF IInv

\* getUser may insert a null proxy, which is no client.
LEMMA FindsUserKeeps ==
    ASSUME IInv, NEW c \in Clients, FindsUser(c)
    PROVE  IInv'
  <1> DEFINE r == at[c].room
             n == at[c].nick
             old == nickUserDictionary
             entry == IF old[r][n] = NoEntry THEN NullPrx ELSE old[r][n]
             new == [old EXCEPT ![r][n] = entry]
             p == [at[c] EXCEPT !.pc = "user", !.prx = new[r][n]]
  <1>1. /\ CallsRoom(c, "getUser") /\ n \in Listed(r)
        /\ UNCHANGED <<serverUp, crashes, factoryKnown, factoryUp, roomList, users, process,
                       server, userRooms>>
    BY DEF FindsUser, environment, serverState
  <1>2. r \in Rooms /\ at[c] \in Points /\ at[c].op = "getUser"
    BY <1>1, InRoom
  <1>3. /\ old \in [Rooms -> [Nicks -> Clients \cup {NullPrx, NoEntry}]]
        /\ users[r] \in Seq(Nicks) /\ at \in [Clients -> Points]
    BY <1>2 DEF IInv, TypeOK
  <1>4. n \in Nicks
    BY <1>1, <1>3 DEF Listed
  <1>5. nickUserDictionary' = new /\ dict' = new
    BY DEF FindsUser, dict
  <1>6. at' = [at EXCEPT ![c] = p]
    BY <1>3, <1>5 DEF FindsUser
  <1>7. entry \in Clients \cup {NullPrx} /\ (entry # old[r][n] => entry \notin Clients)
    BY <1>2, <1>3, <1>4, SentinelsDiffer
  <1> HIDE DEF entry
  <1>8. /\ new \in [Rooms -> [Nicks -> Clients \cup {NullPrx, NoEntry}]]
        /\ \A q \in Rooms, m \in Nicks : new[q][m] = IF q = r /\ m = n THEN entry ELSE old[q][m]
    BY <1>2, <1>3, <1>4, <1>7
  <1>9. new[r][n] = entry
    BY <1>2, <1>4, <1>8
  <1> HIDE DEF new
  <1>10. /\ p \in Points /\ p.pc = "user" /\ p.op = "getUser"
         /\ p.prx = entry /\ p.nick = n
    BY <1>2, <1>7, <1>9 DEF Points
  <1>11. entry = NullPrx \/ NickOf[entry] = n
    <2>1. CASE entry \in Clients
      <3>1. dict[r][n] = entry
        BY <1>7, <2>1 DEF dict
      <3> QED BY <1>2, <1>4, <2>1, <3>1 DEF IInv, Named
    <2> QED BY <1>7, <2>1
  <1> HIDE DEF p
  <1>12. Sound(c, p, userRooms[c], dict')
    BY <1>10, <1>11 DEF Sound
  <1>13. TypeOK'
    <2>1. at' \in [Clients -> Points]
      BY <1>3, <1>6, <1>10
    <2> QED BY <1>1, <1>5, <1>8, <2>1 DEF IInv, TypeOK
  <1>14. \A q \in Rooms, m \in Nicks : dict'[q][m] = dict[q][m] \/ dict'[q][m] \notin Clients
    BY <1>5, <1>7, <1>8 DEF dict
  <1>15. \A d \in Clients : at'[d] = at[d] \/ Sound(d, at'[d], userRooms[d], dict')
    BY <1>3, <1>6, <1>12
  <1> QED BY <1>1, <1>13, <1>14, <1>15, Quiet

-----------------------------------------------------------------------------
(* The steps that only move a main thread on. *)

LEMMA ChoosesKeeps ==
    ASSUME IInv, NEW c \in Clients, Chooses(c) \/ Addresses(c)
    PROVE  IInv'
  <1>1. UNCHANGED <<serverUp, crashes, factoryKnown, factoryUp, roomList, users,
                    nickUserDictionary, process, server, userRooms>>
    BY DEF Chooses, Addresses, environment, serverState, rooms
  <1>2. userRooms[c] \in Seq(Rooms) /\ at[c] \in Points
    BY DEF IInv, TypeOK
  <1>3. at[c].room \in Rooms \cup {NoRoom} /\ at[c].names \in SUBSET Nicks
    BY <1>2, PointTypes
  <1>4. CASE Chooses(c)
    <2>1. PICK p \in Chosen(c) : Goes(c, p)
      BY <1>4 DEF Chooses
    <2>2. p \in Points /\ Sound(c, p, userRooms[c], dict)
      <3>1. CASE \E r \in Rooms : p = LeavingFrom(c, r, 1)
        BY <1>2, <3>1, LeavingSound
      <3>2. CASE p = DisconnectingFrom(c, 1, 1)
        <4>1. 1 \in Nat \ {0} /\ 1 \in 1 .. 1
          OBVIOUS
        <4>2. \A k \in DOMAIN userRooms[c] : k < 1 => Left(c, k, userRooms[c], dict)
          BY <1>2
        <4> QED BY <1>2, <3>2, <4>1, <4>2, DisconnectingSound
      <3>3. CASE \E op \in {"getRooms", "join", "listUsers", "names", "postMessage"},
                    r \in Rooms \cup {NoRoom} : p = Asking(op, r)
        BY <3>3, PlainPoints DEF Ops
      <3>4. CASE \E r \in Rooms : p = Asking("newChatRoom", r)
        BY <3>4, PlainPoints
      <3>5. \/ \E r \in Rooms : p = LeavingFrom(c, r, 1)
            \/ \E r \in Rooms : p = Asking("newChatRoom", r)
            \/ p = DisconnectingFrom(c, 1, 1)
            \/ \E op \in {"getRooms", "join", "listUsers", "names", "postMessage"},
                  r \in Rooms \cup {NoRoom} : p = Asking(op, r)
        BY DEF Chosen
      <3> QED BY <3>1, <3>2, <3>3, <3>4, <3>5
    <2> QED BY <1>1, <2>1, <2>2, Moves
  <1>5. CASE Addresses(c)
    <2>1. PICK n \in Nicks : Goes(c, IF n \in at[c].names THEN Writing(at[c].room, n) ELSE Menu)
      BY <1>5 DEF Addresses
    <2>2. CASE n \in at[c].names
      BY <1>1, <1>3, <2>1, <2>2, PlainPoints, Moves
    <2>3. CASE n \notin at[c].names
      BY <1>1, <2>1, <2>3, PlainPoints, Moves
    <2> QED BY <2>2, <2>3
  <1> QED BY <1>4, <1>5

LEMMA AtServerKeeps ==
    ASSUME IInv, NEW c \in Clients, AtServer(c)
    PROVE  IInv'
  <1>1. CASE ServerCallFails(c)
    BY <1>1, FailsKeeps DEF ServerCallFails
  <1>2. CASE ListsRooms(c)
    <2>1. UNCHANGED <<serverUp, crashes, factoryKnown, factoryUp, roomList, users,
                      nickUserDictionary, process, server, userRooms>>
      BY <1>2 DEF ListsRooms, environment, serverState, rooms
    <2>2. Goes(c, Menu)
      BY <1>2 DEF ListsRooms
    <2> QED BY <2>1, <2>2, PlainPoints, Moves
  <1>3. CASE CreatesRoom(c)
    <2>1. /\ UNCHANGED <<serverUp, crashes, factoryKnown, factoryUp, users, nickUserDictionary,
                         process, server, userRooms>>
          /\ roomList' = roomList \cup {at[c].room}
          /\ at' = [at EXCEPT ![c] = Menu]
          /\ at[c].op = "newChatRoom"
      BY <1>3 DEF CreatesRoom, rooms, Goes
    <2>2. at[c].room \in Rooms
      BY <2>1 DEF IInv, OnTheWay, Sound
    <2>3. at \in [Clients -> Points] /\ roomList \subseteq Rooms
      BY DEF IInv, TypeOK
    <2>4. at' \in [Clients -> Points] /\ \A d \in Clients : at'[d] = IF d = c THEN Menu ELSE at[d]
      BY <2>1, <2>3, PlainPoints
    <2>5. TypeOK'
      BY <2>1, <2>2, <2>3, <2>4 DEF IInv, TypeOK
    <2>6. \A d \in Clients : at'[d] = at[d] \/ Sound(d, at'[d], userRooms[d], dict')
      BY <2>4, PlainPoints
    <2> QED BY <2>1, <2>5, <2>6, Quiet DEF dict
  <1>4. CASE CreationFails(c)
    BY <1>4, FailsKeeps DEF CreationFails
  <1>5. CASE GetsRoom(c)
    <2>1. UNCHANGED <<serverUp, crashes, factoryKnown, factoryUp, roomList, users,
                      nickUserDictionary, process, server, userRooms>>
      BY <1>5 DEF GetsRoom, environment, serverState, rooms
    <2> DEFINE p == [at[c] EXCEPT !.pc = "room"]
    <2>2. at \in [Clients -> Points] /\ at[c] \in Points /\ roomList \subseteq Rooms
      BY DEF IInv, TypeOK
    <2>3. Goes(c, p) /\ at[c].room \in Rooms /\ at[c].pc = "server"
      BY <1>5, <2>2 DEF GetsRoom, Goes, CallsServer
    <2>4. /\ p \in Points /\ p.pc = "room" /\ p.op = at[c].op /\ p.room = at[c].room
          /\ p.place = at[c].place /\ p.counter = at[c].counter
      BY <2>2 DEF Points
    <2>5. Sound(c, at[c], userRooms[c], dict)
      BY DEF IInv, OnTheWay
    <2> HIDE DEF p
    <2>6. Sound(c, p, userRooms[c], dict)
      BY <2>3, <2>4, <2>5 DEF Sound
    <2> QED BY <2>1, <2>3, <2>4, <2>6, Moves
  <1>6. CASE RoomUnknown(c)
    BY <1>6, FailsKeeps DEF RoomUnknown
  <1> QED BY <1>1, <1>2, <1>3, <1>4, <1>5, <1>6 DEF AtServer

LEMMA AtRoomKeeps ==
    ASSUME IInv, NEW c \in Clients, AtRoom(c)
    PROVE  IInv'
  <1>1. CASE RoomGone(c)
    BY <1>1, FailsKeeps DEF RoomGone
  <1>2. CASE Joins(c)
    BY <1>2, JoinsKeeps
  <1>3. CASE JoinRefused(c)
    BY <1>3, FailsKeeps DEF JoinRefused
  <1>4. CASE LeavesRoom(c)
    BY <1>4, LeavesRoomKeeps
  <1>5. CASE Disconnects(c)
    BY <1>5, DisconnectsKeeps
  <1>6. CASE LeavesAgain(c)
    BY <1>6, LeavesAgainKeeps
  <1>7. CASE LeaveRefused(c)
    BY <1>7, FailsKeeps DEF LeaveRefused
  <1>8. CASE ListsUsers(c)
    <2>1. UNCHANGED <<serverUp, crashes, factoryKnown, factoryUp, roomList, users,
                      nickUserDictionary, process, server, userRooms>>
      BY <1>8 DEF ListsUsers, environment, serverState, rooms
    <2>2. at[c].room \in Rooms
      BY <1>8, InRoom DEF ListsUsers
    <2>3. Listed(at[c].room) \in SUBSET Nicks
      <3>1. users[at[c].room] \in Seq(Nicks)
        BY <2>2 DEF IInv, TypeOK
      <3> QED BY <3>1 DEF Listed
    <2>4. \/ Goes(c, Menu)
          \/ Goes(c, Choosing(at[c].room, Listed(at[c].room)))
      BY <1>8 DEF ListsUsers
    <2> QED BY <2>1, <2>2, <2>3, <2>4, PlainPoints, Moves
  <1>9. CASE Posts(c)
    <2>1. UNCHANGED <<serverUp, crashes, factoryKnown, factoryUp, roomList, users,
                      nickUserDictionary, process, server, userRooms>>
      BY <1>9 DEF Posts, environment, serverState, rooms
    <2>2. Goes(c, Menu)
      BY <1>9 DEF Posts
    <2> QED BY <2>1, <2>2, PlainPoints, Moves
  <1>10. CASE PostFails(c)
    BY <1>10, FailsKeeps DEF PostFails
  <1>11. CASE FindsUser(c)
    BY <1>11, FindsUserKeeps
  <1>12. CASE UserUnknown(c)
    BY <1>12, FailsKeeps DEF UserUnknown
  <1> QED BY <1>1, <1>2, <1>3, <1>4, <1>5, <1>6, <1>7, <1>8, <1>9, <1>10, <1>11, <1>12 DEF AtRoom

LEMMA ProceedsKeeps ==
    ASSUME IInv, NEW c \in Clients, Proceeds(c)
    PROVE  IInv'
  <1>1. CASE AtServer(c) \/ AtRoom(c)
    BY <1>1, AtServerKeeps, AtRoomKeeps
  <1>2. CASE WritesTo(c)
    <2>1. CASE at[c].prx \in Running
      <3>1. UNCHANGED <<serverUp, crashes, factoryKnown, factoryUp, roomList, users,
                        nickUserDictionary, process, server, userRooms>>
        BY <1>2, <2>1 DEF WritesTo, environment, serverState, rooms
      <3>2. Goes(c, Menu)
        BY <1>2, <2>1 DEF WritesTo
      <3> QED BY <3>1, <3>2, PlainPoints, Moves
    <2>2. CASE at[c].prx \notin Running
      BY <1>2, <2>2, FailsKeeps DEF WritesTo
    <2> QED BY <2>1, <2>2
  <1>3. CASE Ends(c)
    <2>1. UNCHANGED <<serverUp, crashes, factoryKnown, factoryUp, roomList, users,
                      nickUserDictionary, server, userRooms, at>>
      BY <1>3 DEF Ends, environment, serverState, rooms
    <2>2. process' = [process EXCEPT ![c] = "ended"] /\ at[c].pc = "done"
      BY <1>3 DEF Ends
    <2>3. server' \in [Clients -> BOOLEAN]
      BY <2>1 DEF IInv, TypeOK
    <2> QED BY <2>1, <2>2, <2>3, ProcessKeeps
  <1> QED BY <1>1, <1>2, <1>3 DEF Proceeds

-----------------------------------------------------------------------------
(* The theorems. *)

\* The invariant holds at the start and no step ends it (all of Client.cpp and
\* of the room).
THEOREM Inductive == Spec => []IInv
  <1>1. Init => IInv
    <2> SUFFICES ASSUME Init PROVE IInv
      OBVIOUS
    <2>1. TypeOK
      <3>1. Menu \in Points /\ 0 \in 0 .. MaxCrashes /\ <<>> \in Seq(Nicks) /\ <<>> \in Seq(Rooms)
        BY PlainPoints, BoundsType
      <3> QED BY <3>1 DEF Init, TypeOK
    <2>2. \A r \in Rooms, n \in Nicks : dict[r][n] = NoEntry
      BY DEF Init, dict
    <2>3. \A r \in Rooms, n \in Nicks : dict[r][n] \notin Clients
      BY <2>2, SentinelsDiffer
    <2>4. Named /\ Noted /\ EndsWithoutTrace
      BY <2>3, NickOfType DEF Named, Noted, EndsWithoutTrace, dict
    <2>5. OnTheWay
      BY PlainPoints DEF Init, OnTheWay
    <2> QED BY <2>1, <2>4, <2>5 DEF IInv
  <1>2. IInv /\ [Next]_vars => IInv'
    <2> SUFFICES ASSUME IInv, [Next]_vars PROVE IInv'
      OBVIOUS
    <2>1. CASE \E c \in Clients : Starts(c)
      <3>1. PICK c \in Clients : Starts(c)
        BY <2>1
      <3>2. UNCHANGED <<serverUp, crashes, factoryKnown, factoryUp, roomList, users,
                        nickUserDictionary, userRooms, at>>
        BY <3>1 DEF Starts, environment, serverState, rooms
      <3>3. PICK s \in {"running", "terminated"} : process' = [process EXCEPT ![c] = s]
        BY <3>1 DEF Starts
      <3>4. server' \in [Clients -> BOOLEAN]
        BY <3>1 DEF Starts, IInv, TypeOK
      <3> QED BY <3>2, <3>3, <3>4, ProcessKeeps
    <2>2. CASE \E c \in Clients : Chooses(c) \/ Addresses(c)
      BY <2>2, ChoosesKeeps
    <2>3. CASE \E c \in Clients : Proceeds(c)
      BY <2>3, ProceedsKeeps
    <2>4. CASE \E c \in Clients : Killed(c)
      <3>1. PICK c \in Clients : Killed(c)
        BY <2>4
      <3>2. UNCHANGED <<serverUp, crashes, factoryKnown, factoryUp, roomList, users,
                        nickUserDictionary, server, userRooms, at>>
        BY <3>1 DEF Killed, environment, serverState, rooms
      <3>3. process' = [process EXCEPT ![c] = "killed"]
        BY <3>1 DEF Killed
      <3>4. server' \in [Clients -> BOOLEAN]
        BY <3>2 DEF IInv, TypeOK
      <3> QED BY <3>2, <3>3, <3>4, ProcessKeeps
    <2>5. CASE ServerEnds
      <3>1. UNCHANGED <<factoryUp, users, nickUserDictionary, process, server, userRooms, at>>
        BY <2>5 DEF ServerEnds, rooms
      <3>2. /\ serverUp' = FALSE /\ roomList' = {} /\ factoryKnown' = FALSE
            /\ crashes' \in 0 .. MaxCrashes
        BY <2>5, BoundsType DEF ServerEnds, IInv, TypeOK
      <3>3. factoryUp' \in BOOLEAN
        BY <3>1 DEF IInv, TypeOK
      <3> QED BY <3>1, <3>2, <3>3, EnvironmentKeeps
    <2>6. CASE ServerStarts
      <3>1. /\ UNCHANGED <<crashes, factoryKnown, factoryUp, roomList, users, nickUserDictionary,
                           process, server, userRooms, at>>
            /\ serverUp' = TRUE
        BY <2>6 DEF ServerStarts, rooms
      <3>2. /\ crashes' \in 0 .. MaxCrashes /\ factoryKnown' \in BOOLEAN
            /\ factoryUp' \in BOOLEAN /\ roomList' \subseteq Rooms
        BY <3>1 DEF IInv, TypeOK
      <3> QED BY <3>1, <3>2, EnvironmentKeeps
    <2>7. CASE FactoryEnds
      <3>1. /\ UNCHANGED <<serverUp, roomList, users, nickUserDictionary, process, server,
                           userRooms, at>>
            /\ factoryUp' = FALSE
        BY <2>7 DEF FactoryEnds, rooms
      <3>2. crashes' \in 0 .. MaxCrashes
        BY <2>7, BoundsType DEF FactoryEnds, IInv, TypeOK
      <3>3. factoryKnown' \in BOOLEAN
        BY <2>7 DEF FactoryEnds, IInv, TypeOK
      <3>4. serverUp' \in BOOLEAN /\ roomList' \subseteq Rooms
        BY <3>1 DEF IInv, TypeOK
      <3> QED BY <3>1, <3>2, <3>3, <3>4, EnvironmentKeeps
    <2>8. CASE UNCHANGED vars
      <3>1. UNCHANGED <<serverUp, crashes, factoryKnown, factoryUp, roomList, users,
                        nickUserDictionary, process, server, userRooms, at>>
        BY <2>8 DEF vars
      <3>2. /\ serverUp' \in BOOLEAN /\ crashes' \in 0 .. MaxCrashes /\ factoryKnown' \in BOOLEAN
            /\ factoryUp' \in BOOLEAN /\ roomList' \subseteq Rooms
        BY <3>1 DEF IInv, TypeOK
      <3> QED BY <3>1, <3>2, EnvironmentKeeps
    <2> QED BY <2>1, <2>2, <2>3, <2>4, <2>5, <2>6, <2>7, <2>8 DEF Next
  <1> QED BY <1>1, <1>2, PTL DEF Spec

\* Every variable of the client, of the server's list and of the rooms keeps
\* its type, and a place of userRooms that a loop is at exists.
THEOREM TypeCorrect == Spec => []TypeOK
  <1>1. IInv => TypeOK
    BY DEF IInv
  <1> QED BY <1>1, Inductive, PTL

\* A client that can be written to in a room finds the room in its userRooms
\* (Client.cpp:80 and 161, ChatRoomImpl.cpp:20 and 37).
THEOREM RoomsKnown == Spec => []Known
  <1>1. IInv => Known
    <2> SUFFICES ASSUME IInv, NEW c \in Running, NEW r \in Rooms,
                        nickUserDictionary[r][NickOf[c]] = c
                 PROVE  Places(c, r, 1) # {}
      BY DEF Known
    <2>1. c \in Clients /\ userRooms[c] \in Seq(Rooms)
      BY DEF Running, IInv, TypeOK
    <2>2. PICK k \in DOMAIN userRooms[c] : userRooms[c][k] = r
      BY <2>1 DEF IInv, Noted, dict
    <2>3. 1 <= k
      BY <2>1
    <2> QED BY <2>2, <2>3 DEF Places
  <1> QED BY <1>1, Inductive, PTL

\* A client that has exited is in no room's map (Client.cpp:31-36, 133-150).
THEOREM NoTrace == Spec => []EndsWithoutTrace
  <1>1. IInv => EndsWithoutTrace
    BY DEF IInv
  <1> QED BY <1>1, Inductive, PTL

\* The counter of disconnect stays inside userRooms and behind it no room has an
\* entry of the client (Client.cpp:137-143).
THEOREM CounterInside == Spec => []LeftSoFar
  <1>1. IInv => LeftSoFar
    <2> SUFFICES ASSUME IInv, NEW c \in Running, at[c].op = "disconnect"
                 PROVE  /\ at[c].counter \in DOMAIN userRooms[c]
                        /\ at[c].room = userRooms[c][at[c].counter]
                        /\ \A k \in 1 .. at[c].counter - 1 :
                             nickUserDictionary[userRooms[c][k]][NickOf[c]] # c
      BY DEF LeftSoFar
    <2>1. c \in Clients /\ userRooms[c] \in Seq(Rooms)
      BY DEF Running, IInv, TypeOK
    <2>2. Sound(c, at[c], userRooms[c], dict)
      BY <2>1 DEF IInv, OnTheWay
    <2>3. /\ at[c].counter \in 1 .. at[c].place /\ at[c].place \in DOMAIN userRooms[c]
          /\ at[c].room = userRooms[c][at[c].counter]
          /\ \A k \in 1 .. at[c].counter - 1 : Left(c, k, userRooms[c], dict)
      BY <2>2 DEF Sound
    <2>4. at[c].counter \in DOMAIN userRooms[c]
      BY <2>1, <2>3
    <2> QED BY <2>3, <2>4 DEF Left, dict
  <1> QED BY <1>1, Inductive, PTL

\* A private message goes to a user of the name that was typed
\* (Client.cpp:196-198).
THEOREM TargetNamed == Spec => []TargetIsNamed
  <1>1. IInv => TargetIsNamed
    BY DEF IInv, OnTheWay, Sound, TargetIsNamed, Running
  <1> QED BY <1>1, Inductive, PTL

-----------------------------------------------------------------------------
(* The promise to the users. *)

\* A step that changes nothing the users see.
LEMMA Unseen ==
    ASSUME UNCHANGED <<process, userRooms>>,
           \A r \in Rooms, n \in Nicks : ReachedAs(r, n)' = ReachedAs(r, n)
    PROVE  UNCHANGED Users!vars
  <1>1. [c \in Clients |-> Life(c)]' = [c \in Clients |-> Life(c)]
    BY DEF Life
  <1>2. [c \in Clients |-> Own(c)]' = [c \in Clients |-> Own(c)]
    BY DEF Own
  <1>3. [r \in Rooms |-> [n \in Nicks |-> ReachedAs(r, n)]]'
          = [r \in Rooms |-> [n \in Nicks |-> ReachedAs(r, n)]]
    OBVIOUS
  <1> QED BY <1>1, <1>2, <1>3 DEF Users!vars

LEMMA RoomsKept ==
    ASSUME UNCHANGED <<userRooms, nickUserDictionary>>
    PROVE  /\ UNCHANGED [c \in Clients |-> Own(c)]
           /\ UNCHANGED [r \in Rooms |-> [n \in Nicks |-> ReachedAs(r, n)]]
           /\ \A r \in Rooms, n \in Nicks : ReachedAs(r, n)' = ReachedAs(r, n)
  BY DEF Own, ReachedAs

LEMMA LifeKept ==
    ASSUME UNCHANGED process
    PROVE  UNCHANGED [c \in Clients |-> Life(c)]
  BY DEF Life

\* One process changes.
LEMMA LifeChanges ==
    ASSUME IInv, NEW c \in Clients, NEW s, process' = [process EXCEPT ![c] = s], NEW l,
           l = IF s \in {"terminated", "killed"} THEN "dead" ELSE s
    PROVE  [d \in Clients |-> Life(d)]' = [[d \in Clients |-> Life(d)] EXCEPT ![c] = l]
  <1>1. \A d \in Clients : process'[d] = IF d = c THEN s ELSE process[d]
    BY DEF IInv, TypeOK
  <1>2. \A d \in Clients : Life(d)' = IF d = c THEN l ELSE Life(d)
    BY <1>1 DEF Life
  <1> QED BY <1>2

\* A running client dies.
LEMMA DiesAs ==
    ASSUME IInv, NEW c \in Running, NEW s \in {"terminated", "killed"},
           process' = [process EXCEPT ![c] = s],
           UNCHANGED <<userRooms, nickUserDictionary>>
    PROVE  Users!Die(c)
  <1>1. c \in Clients /\ Life(c) = "running"
    BY DEF Running, Life
  <1>2. [d \in Clients |-> Life(d)]' = [[d \in Clients |-> Life(d)] EXCEPT ![c] = "dead"]
    BY <1>1, LifeChanges
  <1> QED BY <1>1, <1>2, RoomsKept DEF Users!Die

LEMMA FailsUnseen ==
    ASSUME IInv, NEW c \in Running, NEW exc, Fails(c, exc)
    PROVE  Users!Die(c) \/ UNCHANGED Users!vars
  <1>1. UNCHANGED <<userRooms, nickUserDictionary>>
    BY DEF Fails, rooms
  <1>2. CASE UNCHANGED process
    BY <1>1, <1>2, RoomsKept, Unseen
  <1>3. CASE process' = [process EXCEPT ![c] = "terminated"]
    BY <1>1, <1>3, DiesAs
  <1> QED BY <1>2, <1>3 DEF Fails

\* One entry of the map of one room changes.
LEMMA ReachedChanges ==
    ASSUME NEW r \in Rooms, NEW m \in Nicks, NEW x \in Clients \cup {NoEntry},
           \A q \in Rooms, n \in Nicks :
             dict'[q][n] = IF q = r /\ n = m THEN x ELSE dict[q][n]
    PROVE  [q \in Rooms |-> [n \in Nicks |-> ReachedAs(q, n)]]'
             = [[q \in Rooms |-> [n \in Nicks |-> ReachedAs(q, n)]] EXCEPT ![r][m] = x]
  <1> DEFINE old == [q \in Rooms |-> [n \in Nicks |-> ReachedAs(q, n)]]
             new == [q \in Rooms |-> [n \in Nicks |-> ReachedAs(q, n)']]
  <1>1. \A q \in Rooms, n \in Nicks :
          ReachedAs(q, n)' = IF q = r /\ n = m THEN x ELSE ReachedAs(q, n)
    BY SentinelsDiffer DEF ReachedAs, dict
  <1>2. \A q \in Rooms :
          [n \in Nicks |-> ReachedAs(q, n)'] = [old EXCEPT ![r][m] = x][q]
    <2> SUFFICES ASSUME NEW q \in Rooms
                 PROVE  [n \in Nicks |-> ReachedAs(q, n)'] = [old EXCEPT ![r][m] = x][q]
      OBVIOUS
    <2>1. CASE q = r
      <3>1. [old EXCEPT ![r][m] = x][q] = [[n \in Nicks |-> ReachedAs(q, n)] EXCEPT ![m] = x]
        BY <2>1
      <3>2. [n \in Nicks |-> ReachedAs(q, n)'] = [[n \in Nicks |-> ReachedAs(q, n)] EXCEPT ![m] = x]
        BY <1>1, <2>1
      <3> QED BY <3>1, <3>2
    <2>2. CASE q # r
      <3>1. [old EXCEPT ![r][m] = x][q] = [n \in Nicks |-> ReachedAs(q, n)]
        BY <2>2
      <3>2. \A n \in Nicks : ReachedAs(q, n)' = ReachedAs(q, n)
        BY <1>1, <2>2
      <3> QED BY <3>1, <3>2
    <2> QED BY <2>1, <2>2
  <1>3. new = [old EXCEPT ![r][m] = x]
    BY <1>2
  <1> QED BY <1>3

LEMMA JoinsEnters ==
    ASSUME IInv, NEW c \in Clients, Joins(c)
    PROVE  Users!Enter(c, at[c].room)
  <1>0. PICK r \in Rooms : r = at[c].room
    <2>1. CallsRoom(c, "join")
      BY DEF Joins
    <2> QED BY <2>1, InRoom
  <1>m. PICK m \in Nicks : m = NickOf[c]
    BY NickOfType
  <1>1. /\ CallsRoom(c, "join")
        /\ nickUserDictionary' = [nickUserDictionary EXCEPT ![r][NickOf[c]] = c]
        /\ userRooms' = [userRooms EXCEPT ![c] = Append(@, r)]
        /\ UNCHANGED process
    BY <1>0, <1>m DEF Joins
  <1>2. /\ c \in Running /\ m \in Nicks /\ userRooms[c] \in Seq(Rooms)
    BY <1>1, InRoom
  <1>3. Life(c) = "running"
    BY <1>2 DEF Running, Life
  <1>4. [q \in Rooms |-> [n \in Nicks |-> ReachedAs(q, n)]]'
          = [[q \in Rooms |-> [n \in Nicks |-> ReachedAs(q, n)]] EXCEPT ![r][m] = c]
    <2>1. \A q \in Rooms, n \in Nicks :
            dict'[q][n] = IF q = r /\ n = m THEN c ELSE dict[q][n]
      BY <1>1, <1>2, <1>m DEF IInv, TypeOK, dict
    <2>2. r \in Rooms /\ m \in Nicks /\ c \in Clients \cup {NoEntry}
      BY <1>0, <1>m
    <2> QED BY <2>1, <2>2, ReachedChanges, SMTT(30)
  <1>5. [d \in Clients |-> Own(d)]' = [[d \in Clients |-> Own(d)] EXCEPT ![c] = @ \cup {r}]
    <2>1. \A d \in Clients : userRooms'[d] = IF d = c THEN Append(userRooms[c], r) ELSE userRooms[d]
      BY <1>1 DEF IInv, TypeOK
    <2>2. {Append(userRooms[c], r)[k] : k \in DOMAIN Append(userRooms[c], r)} = Own(c) \cup {r}
      <3>1. {Append(userRooms[c], r)[k] : k \in DOMAIN Append(userRooms[c], r)}
              = {userRooms[c][k] : k \in DOMAIN userRooms[c]} \cup {r}
        <4>1. r \in Rooms /\ userRooms[c] \in Seq(Rooms)
          BY <1>0, <1>2
        <4> QED BY <4>1, AppendRange, SMTT(30)
      <3> QED BY <3>1 DEF Own
    <2>3. \A d \in Clients : Own(d)' = IF d = c THEN Own(c) \cup {r} ELSE Own(d)
      BY <2>1, <2>2 DEF Own
    <2> QED BY <2>3
  <1> QED BY <1>0, <1>1, <1>2, <1>3, <1>4, <1>5, <1>m, LifeKept DEF Users!Enter

\* A Leave of any of the three loops, which may take the room out of userRooms.
LEMMA ForgetsLeaves ==
    ASSUME IInv, NEW c \in Running, NEW r \in Rooms, r \in Own(c),
           NickOf[c] \in Listed(r), RoomForgets(c, r), UNCHANGED process,
           \/ UNCHANGED userRooms
           \/ \E i \in DOMAIN userRooms[c] :
                userRooms[c][i] = r /\ userRooms' = [userRooms EXCEPT ![c] = Without(@, i)]
    PROVE  Users!Leave(c, r)
  <1>1. c \in Clients /\ Life(c) = "running" /\ NickOf[c] \in Nicks
    BY NickOfType DEF Running, Life
  <1>2. [q \in Rooms |-> [n \in Nicks |-> ReachedAs(q, n)]]'
          = [[q \in Rooms |-> [n \in Nicks |-> ReachedAs(q, n)]] EXCEPT ![r][NickOf[c]] = NoEntry]
    <2>1. PICK m \in Nicks : m = NickOf[c]
      BY <1>1
    <2>2. \A q \in Rooms, n \in Nicks :
            dict'[q][n] = IF q = r /\ n = m THEN NoEntry ELSE dict[q][n]
      BY <1>1, <2>1, Forgets
    <2>3. [q \in Rooms |-> [n \in Nicks |-> ReachedAs(q, n)]]'
            = [[q \in Rooms |-> [n \in Nicks |-> ReachedAs(q, n)]] EXCEPT ![r][m] = NoEntry]
      BY <2>2, ReachedChanges, SMTT(30)
    <2> QED BY <2>1, <2>3
  <1>3. CASE UNCHANGED userRooms
    <2>1. UNCHANGED [d \in Clients |-> Own(d)]
      BY <1>3 DEF Own
    <2> QED BY <1>1, <1>2, <2>1, LifeKept DEF Users!Leave
  <1>4. ASSUME NEW i \in DOMAIN userRooms[c], userRooms[c][i] = r,
               userRooms' = [userRooms EXCEPT ![c] = Without(@, i)]
        PROVE  Users!Leave(c, r)
    <2>1. /\ userRooms[c] \in Seq(Rooms)
          /\ \A d \in Clients :
               userRooms'[d] = IF d = c THEN Without(userRooms[c], i) ELSE userRooms[d]
      BY <1>1, <1>4 DEF IInv, TypeOK
    <2>2. {Without(userRooms[c], i)[k] : k \in DOMAIN Without(userRooms[c], i)}
            \in {Own(c), Own(c) \ {r}}
      BY <1>4, <2>1, WithoutRange DEF Own
    <2>3. \A d \in Clients : d # c => Own(d)' = Own(d)
      BY <2>1 DEF Own
    <2>4. Own(c)' \in {Own(c), Own(c) \ {r}}
      BY <1>1, <2>1, <2>2, ZenonT(30) DEF Own
    <2>5. [d \in Clients |-> Own(d)]'
            \in {[d \in Clients |-> Own(d)],
                 [[d \in Clients |-> Own(d)] EXCEPT ![c] = @ \ {r}]}
      BY <1>1, <2>3, <2>4
    <2> QED BY <1>1, <1>2, <2>5, LifeKept DEF Users!Leave
  <1> QED BY <1>3, <1>4

LEMMA LeavesLeaves ==
    ASSUME IInv, NEW c \in Clients, LeavesRoom(c) \/ Disconnects(c) \/ LeavesAgain(c)
    PROVE  Users!Leave(c, at[c].room)
  <1>1. PICK op \in {"Leave", "disconnect", "destroy"} : CallsRoom(c, op)
    BY DEF LeavesRoom, Disconnects, LeavesAgain
  <1>2. /\ c \in Running /\ at[c].room \in Rooms /\ at[c].pc = "room" /\ at[c].op = op
        /\ at[c].place \in Nat /\ at[c].counter \in Nat /\ userRooms[c] \in Seq(Rooms)
        /\ Sound(c, at[c], userRooms[c], dict)
    BY <1>1, InRoom
  <1>3. at[c].room \in Own(c)
    <2>1. CASE op \in {"Leave", "destroy"}
      BY <1>2, <2>1 DEF Sound, Own
    <2>2. CASE op = "disconnect"
      <3>1. at[c].counter \in DOMAIN userRooms[c] /\ at[c].room = userRooms[c][at[c].counter]
        BY <1>2, <2>2 DEF Sound
      <3> QED BY <3>1 DEF Own
    <2> QED BY <2>1, <2>2
  <1>4. /\ NickOf[c] \in Listed(at[c].room) /\ RoomForgets(c, at[c].room) /\ UNCHANGED process
    BY DEF LeavesRoom, Disconnects, LeavesAgain
  <1>5. CASE Disconnects(c) \/ LeavesAgain(c)
    <2>1. UNCHANGED userRooms
      BY <1>5 DEF Disconnects, LeavesAgain
    <2> QED BY <1>2, <1>3, <1>4, <2>1, ForgetsLeaves
  <1>6. CASE LeavesRoom(c)
    <2>1. op = "Leave" /\ userRooms' = [userRooms EXCEPT ![c] = Without(@, at[c].place)]
      BY <1>2, <1>6 DEF LeavesRoom, CallsRoom
    <2>2. at[c].place \in DOMAIN userRooms[c] /\ userRooms[c][at[c].place] = at[c].room
      BY <1>2, <2>1 DEF Sound
    <2> QED BY <1>2, <1>3, <1>4, <2>1, <2>2, ForgetsLeaves
  <1> QED BY <1>5, <1>6

LEMMA EndsEnds ==
    ASSUME IInv, NEW c \in Clients, Ends(c)
    PROVE  Users!End(c)
  <1>1. /\ c \in Running /\ at[c].pc = "done" /\ process' = [process EXCEPT ![c] = "ended"]
        /\ UNCHANGED <<userRooms, nickUserDictionary>>
    BY DEF Ends, rooms
  <1>2. ASSUME NEW r \in Rooms, NEW n \in Nicks PROVE dict[r][n] # c
    <2>1. SUFFICES ASSUME dict[r][n] = c PROVE FALSE
      OBVIOUS
    <2>2. NickOf[c] = n
      BY <2>1 DEF IInv, Named
    <2>3. PICK k \in DOMAIN userRooms[c] : userRooms[c][k] = r
      BY <2>1, <2>2 DEF IInv, Noted
    <2>4. Left(c, k, userRooms[c], dict)
      BY <1>1 DEF IInv, OnTheWay, Sound
    <2> QED BY <2>1, <2>2, <2>3, <2>4 DEF Left
  <1>3. \A r \in Rooms, n \in Nicks : ReachedAs(r, n) # c
    BY <1>2, SentinelsDiffer DEF ReachedAs, dict
  <1>4. Life(c) = "running"
    BY <1>1 DEF Running, Life
  <1>5. [d \in Clients |-> Life(d)]' = [[d \in Clients |-> Life(d)] EXCEPT ![c] = "ended"]
    BY <1>1, LifeChanges
  <1> QED BY <1>1, <1>3, <1>4, <1>5, RoomsKept DEF Users!End

LEMMA FindsUserUnseen ==
    ASSUME IInv, NEW c \in Clients, FindsUser(c)
    PROVE  UNCHANGED Users!vars
  <1> DEFINE r == at[c].room
             m == at[c].nick
  <1>1. r \in Rooms /\ m \in Nicks
    <2>1. CallsRoom(c, "getUser") /\ m \in Listed(r)
      BY DEF FindsUser
    <2>2. r \in Rooms
      BY <2>1, InRoom
    <2>3. users[r] \in Seq(Nicks)
      BY <2>2 DEF IInv, TypeOK
    <2> QED BY <2>1, <2>2, <2>3 DEF Listed
  <1> HIDE DEF r, m
  <1>2. \A q \in Rooms, n \in Nicks :
          nickUserDictionary'[q][n] = IF q = r /\ n = m /\ nickUserDictionary[q][n] = NoEntry
                                      THEN NullPrx ELSE nickUserDictionary[q][n]
    BY <1>1 DEF FindsUser, IInv, TypeOK, r, m
  <1>3. \A q \in Rooms, n \in Nicks : ReachedAs(q, n)' = ReachedAs(q, n)
    BY <1>2, SentinelsDiffer DEF ReachedAs
  <1>4. UNCHANGED <<process, userRooms>>
    BY DEF FindsUser
  <1> QED BY <1>3, <1>4, Unseen

LEMMA UsersInit == Init => Users!Init
  <1> SUFFICES ASSUME Init PROVE Users!Init
    OBVIOUS
  <1>1. \A c \in Clients : Life(c) = "off" /\ Own(c) = {}
    BY DEF Init, Life, Own
  <1>2. \A r \in Rooms, n \in Nicks : ReachedAs(r, n) = NoEntry
    BY SentinelsDiffer DEF Init, ReachedAs
  <1> QED BY <1>1, <1>2 DEF Users!Init

LEMMA UsersStep == IInv /\ [Next]_vars => [Users!Next]_(Users!vars)
  <1> SUFFICES ASSUME IInv, [Next]_vars PROVE [Users!Next]_(Users!vars)
    OBVIOUS
  <1>1. ASSUME NEW c \in Clients, Starts(c) PROVE Users!Start(c)
    <2>1. PICK s \in {"running", "terminated"} : process' = [process EXCEPT ![c] = s]
      BY <1>1 DEF Starts
    <2>2. PICK l \in {"running", "dead"} : l = IF s \in {"terminated", "killed"} THEN "dead" ELSE s
      OBVIOUS
    <2>3. Life(c) = "off" /\ UNCHANGED <<userRooms, nickUserDictionary>>
      BY <1>1 DEF Starts, Life, rooms
    <2>4. [d \in Clients |-> Life(d)]' = [[d \in Clients |-> Life(d)] EXCEPT ![c] = l]
      BY <2>1, <2>2, LifeChanges
    <2> QED BY <2>3, <2>4, RoomsKept DEF Users!Start
  <1>2. ASSUME UNCHANGED <<process, userRooms, nickUserDictionary>> PROVE UNCHANGED Users!vars
    BY <1>2, RoomsKept, Unseen
  <1>3. ASSUME NEW c \in Clients, Proceeds(c)
        PROVE  \/ \E r \in Rooms : Users!Enter(c, r) \/ Users!Leave(c, r)
               \/ Users!End(c) \/ Users!Die(c) \/ UNCHANGED Users!vars
    <2>1. CASE AtServer(c)
      <3>1. CASE ListsRooms(c) \/ CreatesRoom(c) \/ GetsRoom(c)
        BY <1>2, <3>1 DEF ListsRooms, CreatesRoom, GetsRoom, rooms
      <3>2. CASE ServerCallFails(c) \/ CreationFails(c) \/ RoomUnknown(c)
        BY <3>2, FailsUnseen DEF ServerCallFails, CreationFails, RoomUnknown, CallsServer
      <3> QED BY <2>1, <3>1, <3>2 DEF AtServer
    <2>2. CASE Joins(c)
      <3>1. at[c].room \in Rooms
        BY <2>2, InRoom DEF Joins
      <3> QED BY <2>2, <3>1, JoinsEnters
    <2>3. CASE LeavesRoom(c) \/ Disconnects(c) \/ LeavesAgain(c)
      <3>1. at[c].room \in Rooms
        BY <2>3, InRoom DEF LeavesRoom, Disconnects, LeavesAgain
      <3> QED BY <2>3, <3>1, LeavesLeaves
    <2>4. CASE RoomGone(c) \/ JoinRefused(c) \/ LeaveRefused(c) \/ PostFails(c) \/ UserUnknown(c)
      <3>1. c \in Running /\ \E exc : Fails(c, exc)
        BY <2>4 DEF RoomGone, JoinRefused, LeaveRefused, PostFails, UserUnknown, CallsRoom
      <3> QED BY <3>1, FailsUnseen
    <2>5. CASE ListsUsers(c) \/ Posts(c)
      BY <1>2, <2>5 DEF ListsUsers, Posts, rooms
    <2>6. CASE FindsUser(c)
      BY <2>6, FindsUserUnseen
    <2>7. CASE WritesTo(c)
      <3>1. CASE at[c].prx \in Running
        BY <1>2, <2>7, <3>1 DEF WritesTo, rooms
      <3>2. CASE at[c].prx \notin Running
        BY <2>7, <3>2, FailsUnseen DEF WritesTo
      <3> QED BY <3>1, <3>2
    <2>8. CASE Ends(c)
      BY <2>8, EndsEnds
    <2> QED BY <1>3, <2>1, <2>2, <2>3, <2>4, <2>5, <2>6, <2>7, <2>8 DEF Proceeds, AtRoom
  <1>4. ASSUME NEW c \in Clients, Killed(c) PROVE Users!Die(c)
    <2>1. c \in Running /\ process' = [process EXCEPT ![c] = "killed"]
          /\ UNCHANGED <<userRooms, nickUserDictionary>>
      BY <1>4 DEF Killed, rooms
    <2> QED BY <2>1, DiesAs
  <1>5. CASE \/ \E c \in Clients : Chooses(c) \/ Addresses(c)
             \/ ServerEnds \/ ServerStarts \/ FactoryEnds \/ UNCHANGED vars
    BY <1>2, <1>5 DEF Chooses, Addresses, ServerEnds, ServerStarts, FactoryEnds, rooms, vars
  <1> QED BY <1>1, <1>3, <1>4, <1>5 DEF Next, Users!Next

\* A user is reached in a room from his join until his own client leaves it or
\* another of his name joins it, and a client that has exited nowhere, for any
\* number of rooms and clients and whatever fails (ChatRoomImpl.cpp:14-43,
\* Client.cpp:31-36, 73-78, 133-150 and 156-163).
THEOREM UsersStayReached == Spec => UsersReached
  <1> QED BY Inductive, UsersInit, UsersStep, PTL DEF Spec, UsersReached, Users!Spec
=============================================================================
