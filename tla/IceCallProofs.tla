---------------------------- MODULE IceCallProofs ----------------------------
(***************************************************************************)
(* Proofs about modules IceStubs and IceCall, for any number of calls,     *)
(* types, values and failures: the binary search of the generated code     *)
(* finds a name in every sorted table, so each of the four dispatch tables *)
(* leads to the function that was named; the two orders in which arguments *)
(* and results are written and read agree, for every operation; and a call *)
(* keeps the promise of module RemoteCall.                                 *)
(***************************************************************************)
EXTENDS IceCall, FiniteSetTheorems, TLAPS

-----------------------------------------------------------------------------
(* The binary search. Its recursion is on the number of entries: what holds  *)
(* of it for every number is shown by the least number it would not hold of. *)

\* The intervals from 0 to a member are finite, and inclusion is well-founded
\* on them.
LEMMA Least ==
    ASSUME NEW S, S \subseteq Nat, S # {}
    PROVE  \E k \in S : \A m \in S : k <= m
  <1> DEFINE T == {0 .. k : k \in S}
  <1>1. T \subseteq FiniteSubsetsOf(Nat) /\ T # {}
    <2>1. ASSUME NEW k \in S PROVE 0 .. k \in FiniteSubsetsOf(Nat)
      <3>1. IsFiniteSet(0 .. k)
        BY FS_Interval
      <3>2. 0 .. k \in SUBSET Nat
        OBVIOUS
      <3> QED BY <3>1, <3>2 DEF FiniteSubsetsOf
    <2> QED BY <2>1
  <1>2. IsWellFoundedOn(StrictSubsetOrdering(Nat), FiniteSubsetsOf(Nat))
    BY FS_StrictSubsetOrderingWellFounded
  <1>3. \E x \in T : \A y \in T : ~(<<y, x>> \in StrictSubsetOrdering(Nat))
    <2> HIDE DEF T
    <2> QED BY <1>1, <1>2, WFMin
  <1>4. PICK k \in S : \A m \in S : ~(<<0 .. m, 0 .. k>> \in StrictSubsetOrdering(Nat))
    BY <1>3
  <1>5. ASSUME NEW m \in S PROVE k <= m
    <2>1. SUFFICES ASSUME m < k PROVE FALSE
      OBVIOUS
    <2>2. 0 .. m \in SUBSET Nat /\ 0 .. k \in SUBSET Nat /\ 0 .. m \subseteq 0 .. k
      BY <2>1
    <2>3. 0 .. m # 0 .. k
      <3>1. k \in 0 .. k /\ k \notin 0 .. m
        BY <2>1
      <3> QED BY <3>1
    <2>4. <<0 .. m, 0 .. k>> \in StrictSubsetOrdering(Nat)
      BY <2>2, <2>3 DEF StrictSubsetOrdering
    <2> QED BY <1>4, <2>4
  <1> QED BY <1>5

\* The search of n entries in terms of the search f of fewer.
Halving(table, s, f, n) ==
    LET half == n \div 2
    IN  [a \in Nat |->
           IF n = 0 THEN a
           ELSE IF Before(table[a + half], s)
                THEN f[n - half - 1][a + half + 1]
                ELSE f[half][a]]

Searches(table, s, f) == f = [n \in Nat |-> Halving(table, s, f, n)]

SearchesUpTo(table, s, f, n) == \A m \in 0 .. n : f[m] = Halving(table, s, f, m)

Search(table, s) == CHOOSE f : Searches(table, s, f)

\* The recursive definition of LowerBound is that of Search.
LEMMA LowerBoundSearches ==
    ASSUME NEW table, NEW s
    PROVE  LowerBound(table, s) = Search(table, s)[Len(table)][1]
  BY DEF LowerBound, Search, Searches, Halving

\* A search of n entries goes on with fewer than n.
LEMMA HalvingLooksBack ==
    ASSUME NEW table, NEW s, NEW f, NEW g, NEW n \in Nat,
           \A m \in 0 .. n - 1 : f[m] = g[m]
    PROVE  Halving(table, s, f, n) = Halving(table, s, g, n)
  BY DEF Halving

LEMMA PartialSearchExists ==
    ASSUME NEW table, NEW s, NEW n \in Nat
    PROVE  \E f : SearchesUpTo(table, s, f, n)
  <1> DEFINE Without == {m \in Nat : ~ \E f : SearchesUpTo(table, s, f, m)}
  <1>1. SUFFICES ASSUME Without # {} PROVE FALSE
    OBVIOUS
  <1>2. PICK k \in Without : \A m \in Without : k <= m
    BY <1>1, Least
  <1>3. ASSUME NEW g, \A m \in 0 .. k - 1 : g[m] = Halving(table, s, g, m)
        PROVE  FALSE
    <2> DEFINE f == [m \in 0 .. k |-> IF m < k THEN g[m] ELSE Halving(table, s, g, k)]
    <2>1. ASSUME NEW m \in 0 .. k PROVE f[m] = Halving(table, s, f, m)
      <3>1. \A l \in 0 .. m - 1 : f[l] = g[l]
        OBVIOUS
      <3>2. Halving(table, s, f, m) = Halving(table, s, g, m)
        <4> HIDE DEF f
        <4> QED BY <3>1, HalvingLooksBack
      <3>3. f[m] = Halving(table, s, g, m)
        BY <1>3
      <3> QED BY <3>2, <3>3
    <2>2. SearchesUpTo(table, s, f, k)
      BY <2>1 DEF SearchesUpTo
    <2> QED BY <2>2
  <1>4. CASE k = 0
    BY <1>3, <1>4
  <1>5. CASE k # 0
    <2>1. k - 1 \in Nat /\ k - 1 \notin Without
      BY <1>2, <1>5
    <2>2. PICK g : SearchesUpTo(table, s, g, k - 1)
      BY <2>1
    <2> QED BY <1>3, <2>2 DEF SearchesUpTo
  <1> QED BY <1>4, <1>5

LEMMA PartialSearchUnique ==
    ASSUME NEW table, NEW s, NEW n \in Nat, NEW f, NEW g,
           SearchesUpTo(table, s, f, n), SearchesUpTo(table, s, g, n)
    PROVE  f[n] = g[n]
  <1> DEFINE Differing == {m \in 0 .. n : f[m] # g[m]}
  <1>1. SUFFICES ASSUME Differing # {} PROVE FALSE
    OBVIOUS
  <1>2. PICK k \in Differing : \A m \in Differing : k <= m
    <2>1. Differing \subseteq Nat
      OBVIOUS
    <2> HIDE DEF Differing
    <2> QED BY <1>1, <2>1, Least
  <1>3. \A m \in 0 .. k - 1 : f[m] = g[m]
    BY <1>2
  <1>4. Halving(table, s, f, k) = Halving(table, s, g, k)
    BY <1>3, HalvingLooksBack
  <1> QED BY <1>2, <1>4 DEF SearchesUpTo

LEMMA SearchExists ==
    ASSUME NEW table, NEW s
    PROVE  \E f : Searches(table, s, f)
  <1> DEFINE part(n) == CHOOSE f : SearchesUpTo(table, s, f, n)
  <1> DEFINE whole == [n \in Nat |-> part(n)[n]]
  <1>1. \A n \in Nat : SearchesUpTo(table, s, part(n), n)
    BY Zenon, PartialSearchExists
  <1>2. ASSUME NEW n \in Nat PROVE whole[n] = Halving(table, s, whole, n)
    <2> HIDE DEF part
    <2>1. ASSUME NEW m \in 0 .. n - 1 PROVE whole[m] = part(n)[m]
      <3>1. SearchesUpTo(table, s, part(n), m) /\ SearchesUpTo(table, s, part(m), m)
        BY <1>1 DEF SearchesUpTo
      <3>2. part(m)[m] = part(n)[m]
        BY <3>1, PartialSearchUnique
      <3> QED BY <3>2
    <2>2. Halving(table, s, whole, n) = Halving(table, s, part(n), n)
      <3> HIDE DEF whole
      <3> QED BY <2>1, HalvingLooksBack
    <2>3. part(n)[n] = Halving(table, s, part(n), n)
      BY <1>1 DEF SearchesUpTo
    <2> QED BY <2>2, <2>3
  <1>3. Searches(table, s, whole)
    <2> HIDE DEF part
    <2> QED BY <1>2 DEF Searches
  <1> QED BY <1>3

LEMMA SearchHalves ==
    ASSUME NEW table, NEW s, NEW n \in Nat
    PROVE  Search(table, s)[n] = Halving(table, s, Search(table, s), n)
  <1>1. Searches(table, s, Search(table, s))
    BY Zenon, SearchExists DEF Search
  <1> QED BY <1>1 DEF Searches

\* A table the generated code can search: every name once, in the order of
\* std::string.
Sorted(table) ==
    /\ table \in Seq(DOMAIN Rank)
    /\ \A i, j \in 1 .. Len(table) : i < j => Before(table[i], table[j])

LEMMA Ranks == \A s \in DOMAIN Rank : Rank[s] \in Nat
  <1>1. DOMAIN Alphabet = 1 .. 22
    BY DEF Alphabet
  <1> QED BY <1>1 DEF Rank

LEMMA Places ==
    /\ DOMAIN Alphabet = 1 .. 22
    /\ \A i \in DOMAIN Alphabet : Alphabet[i] \in DOMAIN Rank /\ Rank[Alphabet[i]] = i
  <1>1. DOMAIN Alphabet = 1 .. 22
    BY DEF Alphabet
  <1>2. \A i, j \in DOMAIN Alphabet : i # j => Alphabet[i] # Alphabet[j]
    BY <1>1 DEF Alphabet
  <1> QED BY <1>1, <1>2 DEF Rank

\* The place r divides the table into what is before s and what is not.
Divides(table, s, r) ==
    /\ \A i \in 1 .. r - 1 : Before(table[i], s)
    /\ \A i \in r .. Len(table) : ~Before(table[i], s)

\* Between a and b there is such a place.
Around(table, s, a, b) ==
    /\ \A i \in 1 .. a - 1 : Before(table[i], s)
    /\ \A i \in b .. Len(table) : ~Before(table[i], s)

\* In a sorted table what is left of an entry is before it.
LEMMA SortedSides ==
    ASSUME NEW table, Sorted(table), NEW s \in DOMAIN Rank, NEW p \in 1 .. Len(table)
    PROVE  /\ Before(table[p], s) => \A i \in 1 .. p : Before(table[i], s)
           /\ ~Before(table[p], s) => \A i \in p .. Len(table) : ~Before(table[i], s)
  <1>1. Len(table) \in Nat /\ \A i \in 1 .. Len(table) : table[i] \in DOMAIN Rank
    BY DEF Sorted
  <1>2. \A q, r, t \in DOMAIN Rank : Before(q, r) /\ Before(r, t) => Before(q, t)
    BY Ranks DEF Before
  <1>3. ASSUME NEW i \in 1 .. p, Before(table[p], s) PROVE Before(table[i], s)
    <2>1. i \in 1 .. Len(table)
      BY <1>1
    <2>2. i = p \/ Before(table[i], table[p])
      BY <1>1, <2>1 DEF Sorted
    <2> QED BY <1>1, <1>2, <1>3, <2>1, <2>2
  <1>4. ASSUME NEW i \in p .. Len(table), ~Before(table[p], s) PROVE ~Before(table[i], s)
    <2>1. i \in 1 .. Len(table)
      BY <1>1
    <2>2. i = p \/ Before(table[p], table[i])
      BY <1>1, <2>1 DEF Sorted
    <2> QED BY <1>1, <1>2, <1>4, <2>1, <2>2
  <1> QED BY <1>3, <1>4

LEMMA SearchDivides ==
    ASSUME NEW table, Sorted(table), NEW s \in DOMAIN Rank, NEW n \in 0 .. Len(table),
           NEW a \in 1 .. Len(table) + 1 - n, Around(table, s, a, a + n)
    PROVE  /\ Search(table, s)[n][a] \in 1 .. Len(table) + 1
           /\ Divides(table, s, Search(table, s)[n][a])
  <1> DEFINE F == Search(table, s)
  <1> DEFINE Right(r) == r \in 1 .. Len(table) + 1 /\ Divides(table, s, r)
  <1> DEFINE Wrong == {m \in 0 .. Len(table) : \E b \in 1 .. Len(table) + 1 - m :
                         Around(table, s, b, b + m) /\ ~Right(F[m][b])}
  <1>1. SUFFICES ASSUME Wrong # {} PROVE FALSE
    OBVIOUS
  <1>0. Len(table) \in Nat
    BY DEF Sorted
  <1>2. PICK k \in Wrong : \A m \in Wrong : k <= m
    <2>1. Wrong \subseteq Nat
      BY <1>0
    <2> HIDE DEF Wrong
    <2> QED BY <1>1, <2>1, Least
  <1>3. PICK b \in 1 .. Len(table) + 1 - k : Around(table, s, b, b + k) /\ ~Right(F[k][b])
    BY <1>2
  <1>4. k \in Nat /\ b \in Nat /\ F[k] = Halving(table, s, F, k)
    BY <1>0, SearchHalves
  <1>5. ASSUME NEW m \in 0 .. k - 1, NEW c \in 1 .. Len(table) + 1 - m,
               Around(table, s, c, c + m)
        PROVE  Right(F[m][c])
    <2>1. m \in 0 .. Len(table) /\ ~(k <= m)
      BY <1>0, <1>4
    <2>2. m \notin Wrong
      BY <1>2, <2>1
    <2> HIDE DEF F, Right
    <2> QED BY <1>5, <2>1, <2>2
  <1>6. CASE k = 0
    <2>1. F[k][b] = b
      BY <1>4, <1>6 DEF Halving
    <2>2. Divides(table, s, b)
      BY <1>3, <1>4, <1>6 DEF Divides, Around
    <2> QED BY <1>0, <1>3, <1>4, <1>6, <2>1, <2>2
  <1>7. CASE k # 0
    <2> DEFINE half == k \div 2
    <2> DEFINE p == b + half
    <2> DEFINE rest == k - half - 1
    <2>1. half \in 0 .. k - 1 /\ rest \in 0 .. k - 1
      BY <1>4, <1>7
    <2>2. /\ p \in 1 .. Len(table) /\ p + 1 \in 1 .. Len(table) + 1 - rest
          /\ p + 1 + rest = b + k /\ b \in 1 .. Len(table) + 1 - half
      <3> HIDE DEF half
      <3> QED BY <1>0, <1>4, <2>1
    <2>3. CASE Before(table[p], s)
      <3>1. F[k][b] = F[rest][p + 1]
        BY <1>4, <1>7, <2>3 DEF Halving
      <3> HIDE DEF half, p, rest
      <3>2. \A i \in 1 .. p : Before(table[i], s)
        BY <2>2, <2>3, SortedSides
      <3>3. Around(table, s, p + 1, p + 1 + rest)
        <4>1. p + 1 - 1 = p
          BY <2>2
        <4> QED BY <1>3, <2>2, <3>2, <4>1 DEF Around
      <3>4. Right(F[rest][p + 1])
        <4> HIDE DEF F, Right
        <4> QED BY <1>5, <2>1, <2>2, <3>3
      <3> QED BY <1>3, <3>1, <3>4
    <2>4. CASE ~Before(table[p], s)
      <3>1. F[k][b] = F[half][b]
        BY <1>4, <1>7, <2>4 DEF Halving
      <3>2. \A i \in p .. Len(table) : ~Before(table[i], s)
        <4> HIDE DEF half, p, rest
        <4> QED BY <2>2, <2>4, SortedSides
      <3>3. Around(table, s, b, b + half)
        BY <1>3, <3>2 DEF Around
      <3>4. Right(F[half][b])
        <4> HIDE DEF half, F, Right
        <4> QED BY <1>5, <2>1, <2>2, <3>3
      <3> QED BY <1>3, <3>1, <3>4
    <2> QED BY <2>3, <2>4
  <1> QED BY <1>6, <1>7

LEMMA RankInjective == \A s, r \in DOMAIN Rank : Rank[s] = Rank[r] => s = r
  <1>1. \A s \in DOMAIN Rank : \E i \in DOMAIN Alphabet : Alphabet[i] = s
    BY DEF Rank
  <1> QED BY <1>1, Places

\* In every sorted table the binary search of the generated code finds a name
\* that is listed, at its place, and no other (the tables of chat.cpp and their
\* std::equal_range and std::binary_search).
THEOREM BinarySearchFinds ==
    ASSUME NEW table, Sorted(table), NEW s \in DOMAIN Rank
    PROVE  /\ Found(table, s) <=> \E i \in 1 .. Len(table) : table[i] = s
           /\ \A i \in 1 .. Len(table) : table[i] = s => LowerBound(table, s) = i
  <1> DEFINE r == LowerBound(table, s)
  <1>1. /\ Len(table) \in Nat /\ Rank[s] \in Nat
        /\ \A i \in 1 .. Len(table) : table[i] \in DOMAIN Rank /\ Rank[table[i]] \in Nat
    BY Ranks DEF Sorted
  <1>2. r \in 1 .. Len(table) + 1 /\ Divides(table, s, r)
    <2>1. Len(table) \in 0 .. Len(table) /\ 1 \in 1 .. Len(table) + 1 - Len(table)
      BY <1>1
    <2>2. Around(table, s, 1, 1 + Len(table))
      BY <1>1 DEF Around
    <2>3. r = Search(table, s)[Len(table)][1]
      BY LowerBoundSearches
    <2> HIDE DEF r
    <2> QED BY <2>1, <2>2, <2>3, SearchDivides
  <1> HIDE DEF r
  <1>3. ASSUME NEW i \in 1 .. Len(table), table[i] = s PROVE r = i
    <2>1. ~Before(s, s)
      BY <1>1 DEF Before
    <2>2. ~(i < r)
      BY <1>1, <1>2, <1>3, <2>1 DEF Divides
    <2>3. r \in 1 .. Len(table)
      BY <1>1, <1>2, <2>2
    <2>4. ~Before(table[r], table[i])
      BY <1>2, <1>3, <2>3 DEF Divides
    <2>5. ~(r < i)
      BY <2>3, <2>4 DEF Sorted
    <2> QED BY <1>1, <2>2, <2>3, <2>5
  <1>4. ASSUME Found(table, s) PROVE \E i \in 1 .. Len(table) : table[i] = s
    <2>1. r \in 1 .. Len(table) /\ ~Before(s, table[r])
      BY <1>1, <1>2, <1>4 DEF Found, r
    <2>2. ~Before(table[r], s)
      BY <1>2, <2>1 DEF Divides
    <2>3. table[r] \in DOMAIN Rank /\ Rank[table[r]] = Rank[s]
      BY <1>1, <2>1, <2>2 DEF Before
    <2> QED BY <2>1, <2>3, RankInjective
  <1>5. ASSUME NEW i \in 1 .. Len(table), table[i] = s PROVE Found(table, s)
    <2>1. r = i
      BY <1>3, <1>5
    <2> QED BY <1>1, <1>5, <2>1 DEF Found, Before, r
  <1> QED BY <1>3, <1>4, <1>5 DEF r

-----------------------------------------------------------------------------
(* The tables of chat.cpp. *)

LEMMA RankValues ==
    /\ "::Ice::Object" \in DOMAIN Rank /\ Rank["::Ice::Object"] = 1
    /\ "::chat::ChatRoom" \in DOMAIN Rank /\ Rank["::chat::ChatRoom"] = 2
    /\ "::chat::ChatRoomFactory" \in DOMAIN Rank /\ Rank["::chat::ChatRoomFactory"] = 3
    /\ "::chat::ChatServer" \in DOMAIN Rank /\ Rank["::chat::ChatServer"] = 4
    /\ "::chat::User" \in DOMAIN Rank /\ Rank["::chat::User"] = 5
    /\ "Leave" \in DOMAIN Rank /\ Rank["Leave"] = 6
    /\ "getNumberOfRooms" \in DOMAIN Rank /\ Rank["getNumberOfRooms"] = 7
    /\ "getRoom" \in DOMAIN Rank /\ Rank["getRoom"] = 8
    /\ "getRooms" \in DOMAIN Rank /\ Rank["getRooms"] = 9
    /\ "getUser" \in DOMAIN Rank /\ Rank["getUser"] = 10
    /\ "ice_id" \in DOMAIN Rank /\ Rank["ice_id"] = 11
    /\ "ice_ids" \in DOMAIN Rank /\ Rank["ice_ids"] = 12
    /\ "ice_isA" \in DOMAIN Rank /\ Rank["ice_isA"] = 13
    /\ "ice_ping" \in DOMAIN Rank /\ Rank["ice_ping"] = 14
    /\ "join" \in DOMAIN Rank /\ Rank["join"] = 15
    /\ "listUsers" \in DOMAIN Rank /\ Rank["listUsers"] = 16
    /\ "newChatRoom" \in DOMAIN Rank /\ Rank["newChatRoom"] = 17
    /\ "postMessage" \in DOMAIN Rank /\ Rank["postMessage"] = 18
    /\ "registerFactory" \in DOMAIN Rank /\ Rank["registerFactory"] = 19
    /\ "sendMessage" \in DOMAIN Rank /\ Rank["sendMessage"] = 20
    /\ "sendPrivateMessage" \in DOMAIN Rank /\ Rank["sendPrivateMessage"] = 21
    /\ "unregisterFactory" \in DOMAIN Rank /\ Rank["unregisterFactory"] = 22
  <1>1. /\ Alphabet[1] = "::Ice::Object" /\ Alphabet[2] = "::chat::ChatRoom"
        /\ Alphabet[3] = "::chat::ChatRoomFactory" /\ Alphabet[4] = "::chat::ChatServer"
        /\ Alphabet[5] = "::chat::User" /\ Alphabet[6] = "Leave"
        /\ Alphabet[7] = "getNumberOfRooms" /\ Alphabet[8] = "getRoom"
        /\ Alphabet[9] = "getRooms" /\ Alphabet[10] = "getUser" /\ Alphabet[11] = "ice_id"
        /\ Alphabet[12] = "ice_ids" /\ Alphabet[13] = "ice_isA" /\ Alphabet[14] = "ice_ping"
        /\ Alphabet[15] = "join" /\ Alphabet[16] = "listUsers"
        /\ Alphabet[17] = "newChatRoom" /\ Alphabet[18] = "postMessage"
        /\ Alphabet[19] = "registerFactory" /\ Alphabet[20] = "sendMessage"
        /\ Alphabet[21] = "sendPrivateMessage" /\ Alphabet[22] = "unregisterFactory"
    BY DEF Alphabet
  <1> QED BY <1>1, Places

LEMMA DispatchSorted ==
    /\ Sorted(UserDispatch.all)
    /\ Sorted(ChatRoomDispatch.all)
    /\ Sorted(ChatRoomFactoryDispatch.all)
    /\ Sorted(ChatServerDispatch.all)
  <1>1. Sorted(UserDispatch.all)
    BY RankValues DEF UserDispatch, Sorted, Before
  <1>2. Sorted(ChatRoomDispatch.all)
    BY RankValues DEF ChatRoomDispatch, Sorted, Before
  <1>3. Sorted(ChatRoomFactoryDispatch.all)
    BY RankValues DEF ChatRoomFactoryDispatch, Sorted, Before
  <1>4. Sorted(ChatServerDispatch.all)
    BY RankValues DEF ChatServerDispatch, Sorted, Before
  <1> QED BY <1>1, <1>2, <1>3, <1>4

LEMMA IdsSorted ==
    Sorted(UserIds) /\ Sorted(ChatRoomIds) /\ Sorted(ChatRoomFactoryIds) /\ Sorted(ChatServerIds)
  BY RankValues DEF UserIds, ChatRoomIds, ChatRoomFactoryIds, ChatServerIds, Sorted, Before

LEMMA OperationsOf ==
    /\ Operations("User") = {"sendMessage", "sendPrivateMessage", "ice_isA"}
    /\ Operations("ChatRoom") =
         {"listUsers", "join", "postMessage", "getUser", "Leave", "ice_isA"}
    /\ Operations("ChatRoomFactory") = {"newChatRoom", "getNumberOfRooms", "ice_isA"}
    /\ Operations("ChatServer") =
         {"getRooms", "getRoom", "newChatRoom", "registerFactory", "unregisterFactory",
          "ice_isA"}
  BY DEF Operations, Declared, ProxyOf, UserProxy, ChatRoomProxy, ChatRoomFactoryProxy,
     ChatServerProxy, ObjectProxy

\* What every object answers and no proxy of the chat asks.
Inherited == {"ice_id", "ice_ids", "ice_ping"}

\* A table lists the operations of its type, and case i is the function of name i.
LEMMA DispatchLists ==
    \A t \in Types :
        /\ DispatchOf[t].all = DispatchOf[t].cases
        /\ Sorted(DispatchOf[t].all)
        /\ \A op : (\E i \in 1 .. Len(DispatchOf[t].all) : DispatchOf[t].all[i] = op)
                     <=> op \in Operations(t) \cup Inherited
  <1>1. /\ UserDispatch.all = UserDispatch.cases
        /\ \A op : (\E i \in 1 .. Len(UserDispatch.all) : UserDispatch.all[i] = op)
                     <=> op \in Operations("User") \cup Inherited
    BY OperationsOf DEF UserDispatch, Inherited
  <1>2. /\ ChatRoomDispatch.all = ChatRoomDispatch.cases
        /\ \A op : (\E i \in 1 .. Len(ChatRoomDispatch.all) : ChatRoomDispatch.all[i] = op)
                     <=> op \in Operations("ChatRoom") \cup Inherited
    BY OperationsOf DEF ChatRoomDispatch, Inherited
  <1>3. /\ ChatRoomFactoryDispatch.all = ChatRoomFactoryDispatch.cases
        /\ \A op : (\E i \in 1 .. Len(ChatRoomFactoryDispatch.all) :
                      ChatRoomFactoryDispatch.all[i] = op)
                     <=> op \in Operations("ChatRoomFactory") \cup Inherited
    BY OperationsOf DEF ChatRoomFactoryDispatch, Inherited
  <1>4. /\ ChatServerDispatch.all = ChatServerDispatch.cases
        /\ \A op : (\E i \in 1 .. Len(ChatServerDispatch.all) : ChatServerDispatch.all[i] = op)
                     <=> op \in Operations("ChatServer") \cup Inherited
    BY OperationsOf DEF ChatServerDispatch, Inherited
  <1>5. /\ DispatchOf["User"] = UserDispatch /\ DispatchOf["ChatRoom"] = ChatRoomDispatch
        /\ DispatchOf["ChatRoomFactory"] = ChatRoomFactoryDispatch
        /\ DispatchOf["ChatServer"] = ChatServerDispatch
    BY DEF DispatchOf
  <1> QED BY <1>1, <1>2, <1>3, <1>4, <1>5, DispatchSorted DEF Types

LEMMA OperationsRanked == \A t \in Types : Operations(t) \cup Inherited \subseteq DOMAIN Rank
  BY OperationsOf, RankValues DEF Types, Inherited

\* A request for an operation of its interface is dispatched to the function of
\* that name; one for another interface's is refused (_iceDispatch,
\* chat.cpp:1954, 2174, 2354, 2572).
THEOREM DispatchFindsNamed ==
    ASSUME NEW t \in Types, NEW op \in DOMAIN Rank
    PROVE  /\ Exists(t, op) <=> op \in Operations(t) \cup Inherited
           /\ Exists(t, op) => Function(t, op) = op
  <1> DEFINE names == DispatchOf[t].all
  <1>1. /\ Sorted(names) /\ names = DispatchOf[t].cases
        /\ (\E i \in 1 .. Len(names) : names[i] = op) <=> op \in Operations(t) \cup Inherited
    BY DispatchLists
  <1>2. Exists(t, op) <=> \E i \in 1 .. Len(names) : names[i] = op
    <2> HIDE DEF names
    <2>1. Found(names, op) <=> \E i \in 1 .. Len(names) : names[i] = op
      BY <1>1, BinarySearchFinds
    <2> QED BY <2>1 DEF Exists, names
  <1>3. ASSUME NEW i \in 1 .. Len(names), names[i] = op PROVE Function(t, op) = op
    <2>1. LowerBound(names, op) = i
      <3> HIDE DEF names
      <3> QED BY <1>1, <1>3, BinarySearchFinds
    <2> QED BY <1>1, <1>3, <2>1 DEF Function
  <1> QED BY <1>1, <1>2, <1>3

\* An object answers checkedCast's question with yes for its own type only.
LEMMA IsOwnType ==
    ASSUME NEW t \in Types, NEW id \in TypeIds
    PROVE  IsA(t, id) <=> id = StaticId(t)
  <1>1. TypeIds = {"::chat::User", "::chat::ChatRoom", "::chat::ChatRoomFactory",
                   "::chat::ChatServer"}
    BY DEF TypeIds, Types, IdsOf, UserIds, ChatRoomIds, ChatRoomFactoryIds, ChatServerIds
  <1>2. Sorted(IdsOf[t]) /\ IdsOf[t] = <<"::Ice::Object", StaticId(t)>>
    <2>1. /\ IdsOf["User"] = UserIds /\ IdsOf["ChatRoom"] = ChatRoomIds
          /\ IdsOf["ChatRoomFactory"] = ChatRoomFactoryIds
          /\ IdsOf["ChatServer"] = ChatServerIds
      BY DEF IdsOf
    <2> QED BY <2>1, IdsSorted
        DEF Types, StaticId, UserIds, ChatRoomIds, ChatRoomFactoryIds, ChatServerIds
  <1>3. id \in DOMAIN Rank
    BY <1>1, RankValues
  <1>4. IsA(t, id) <=> \E i \in 1 .. Len(IdsOf[t]) : IdsOf[t][i] = id
    BY <1>2, <1>3, BinarySearchFinds DEF IsA
  <1>5. (\E i \in 1 .. Len(IdsOf[t]) : IdsOf[t][i] = id)
          <=> id = "::Ice::Object" \/ id = StaticId(t)
    BY <1>2
  <1> QED BY <1>1, <1>4, <1>5

-----------------------------------------------------------------------------
(* The two orders of arguments and results, for every operation.             *)

Parameters == {<<>>, <<"message", "fromWho">>, <<"nick", "who">>, <<"name">>, <<"crf">>, <<"id">>}

LEMMA OrdersOf ==
    ASSUME NEW t \in Types, NEW op \in Operations(t)
    PROVE  /\ ParametersOf(t, op) \in Parameters
           /\ op = "ice_isA" => ParametersOf(t, op) = <<"id">>
           /\ Halves(t, op).writes = ParametersOf(t, op)
           /\ SkeletonOf(t, op).reads = ParametersOf(t, op)
           /\ SkeletonOf(t, op).passes = ParametersOf(t, op)
           /\ ServantParameters(t, op) = ParametersOf(t, op)
  <1> USE DEF ParametersOf, Parameters, Halves, Half, SkeletonOf, Skeleton, ServantParameters,
              Declared, ProxyOf, HalvesOf, SkeletonsOf, ServantOf, ObjectProxy
  <1>1. CASE t = "User"
    BY <1>1, OperationsOf DEF UserProxy, UserHalves, UserSkeletons, UserServant
  <1>2. CASE t = "ChatRoom"
    BY <1>2, OperationsOf DEF ChatRoomProxy, ChatRoomHalves, ChatRoomSkeletons, ChatRoomServant
  <1>3. CASE t = "ChatRoomFactory"
    BY <1>3, OperationsOf DEF ChatRoomFactoryProxy, ChatRoomFactoryHalves,
       ChatRoomFactorySkeletons, ChatRoomFactoryServant
  <1>4. CASE t = "ChatServer"
    BY <1>4, OperationsOf DEF ChatServerProxy, ChatServerHalves, ChatServerSkeletons,
       ChatServerServant
  <1> QED BY <1>1, <1>2, <1>3, <1>4 DEF Types

\* The result is read if and only if it is written.
LEMMA ResultOf ==
    ASSUME NEW t \in Types, NEW op \in Operations(t)
    PROVE  /\ SkeletonOf(t, op).writes \in {<<>>, <<Result>>}
           /\ Halves(t, op).reads = SkeletonOf(t, op).writes
           /\ op = "ice_isA" => SkeletonOf(t, op).writes = <<Result>>
  <1> USE DEF Halves, Half, SkeletonOf, Skeleton, Declared, ProxyOf, HalvesOf, SkeletonsOf
  <1>1. CASE t = "User"
    BY <1>1, OperationsOf DEF UserProxy, UserHalves, UserSkeletons
  <1>2. CASE t = "ChatRoom"
    BY <1>2, OperationsOf DEF ChatRoomProxy, ChatRoomHalves, ChatRoomSkeletons
  <1>3. CASE t = "ChatRoomFactory"
    BY <1>3, OperationsOf DEF ChatRoomFactoryProxy, ChatRoomFactoryHalves,
       ChatRoomFactorySkeletons
  <1>4. CASE t = "ChatServer"
    BY <1>4, OperationsOf DEF ChatServerProxy, ChatServerHalves, ChatServerSkeletons
  <1> QED BY <1>1, <1>2, <1>3, <1>4 DEF Types

LEMMA DeclaredOf ==
    ASSUME NEW t \in Types, NEW op \in Operations(t)
    PROVE  op \in Declared(t) <=> op # "ice_isA"
  BY OperationsOf DEF Types, Declared, Operations, ProxyOf, UserProxy, ChatRoomProxy,
     ChatRoomFactoryProxy, ChatServerProxy, ObjectProxy

\* end_op rethrows what chat.ice declares.
LEMMA RethrowsOf ==
    ASSUME NEW i, i.type \in Types, i.op \in Operations(i.type)
    PROVE  Halves(i.type, i.op).rethrows = Throws[ThrowsKey(i)]
  <1> DEFINE t == i.type
  <1> DEFINE op == i.op
  <1>1. t \in Types /\ op \in Operations(t)
    OBVIOUS
  <1>2. /\ t = "ChatRoomFactory" /\ op = "newChatRoom" => ThrowsKey(i) = "factoryNewChatRoom"
        /\ ~(t = "ChatRoomFactory" /\ op = "newChatRoom") => ThrowsKey(i) = op
    BY DEF ThrowsKey
  <1> HIDE DEF t, op
  <1> USE DEF HalvesOf, Throws
  <1>3. CASE t = "User"
    <2>1. ThrowsKey(i) = op
      BY <1>2, <1>3
    <2>2. Halves(t, op).rethrows = {}
      BY <1>1, <1>3, OperationsOf
         DEF Halves, Half, Declared, ProxyOf, UserProxy, UserHalves
    <2>3. Throws[op] = {}
      BY <1>1, <1>3, OperationsOf
    <2> QED BY <2>1, <2>2, <2>3 DEF t, op
  <1>4. CASE t = "ChatRoom"
    <2>1. ThrowsKey(i) = op
      BY <1>2, <1>4
    <2>2. Halves(t, op).rethrows = CASE op = "join" -> {"NickNotAvailable"}
                                     [] op = "getUser" -> {"NoSuchUser"}
                                     [] OTHER -> {}
      <3>1. Halves(t, op) = IF op = "ice_isA" THEN Half(<<"id">>, <<Result>>, {})
                            ELSE ChatRoomHalves[op]
        <4>1. op \in Declared(t) <=> op # "ice_isA"
          BY <1>1, DeclaredOf
        <4>2. HalvesOf[t] = ChatRoomHalves
          BY <1>4
        <4> QED BY Zenon, <4>1, <4>2 DEF Halves
      <3>2. op \in Operations("ChatRoom")
        BY <1>1, <1>4
      <3>3. /\ ChatRoomHalves["listUsers"].rethrows = {}
            /\ ChatRoomHalves["join"].rethrows = {"NickNotAvailable"}
            /\ ChatRoomHalves["postMessage"].rethrows = {}
            /\ ChatRoomHalves["getUser"].rethrows = {"NoSuchUser"}
            /\ ChatRoomHalves["Leave"].rethrows = {}
        BY DEF ChatRoomHalves, Half
      <3>4. op = "ice_isA" => Halves(t, op).rethrows = {}
        BY <3>1 DEF Half
      <3> QED BY <3>1, <3>2, <3>3, <3>4, OperationsOf
    <2>3. Throws[op] = CASE op = "join" -> {"NickNotAvailable"}
                         [] op = "getUser" -> {"NoSuchUser"}
                         [] OTHER -> {}
      BY <1>1, <1>4, OperationsOf
    <2> QED BY <2>1, <2>2, <2>3 DEF t, op
  <1>5. CASE t = "ChatRoomFactory"
    <2>1. Halves(t, op).rethrows = {}
      BY <1>1, <1>5, OperationsOf
         DEF Halves, Half, Declared, ProxyOf, ChatRoomFactoryProxy, ChatRoomFactoryHalves
    <2>2. Throws[ThrowsKey(i)] = {}
      BY <1>1, <1>2, <1>5, OperationsOf
    <2> QED BY <2>1, <2>2 DEF t, op
  <1>6. CASE t = "ChatServer"
    <2>1. ThrowsKey(i) = op
      BY <1>2, <1>6
    <2>2. Halves(t, op).rethrows = CASE op = "getRoom" -> {"NoSuchRoom"}
                                     [] op = "newChatRoom" -> {"NameAlreadyExists"}
                                     [] OTHER -> {}
      <3>1. Halves(t, op) = IF op = "ice_isA" THEN Half(<<"id">>, <<Result>>, {})
                            ELSE ChatServerHalves[op]
        <4>1. op \in Declared(t) <=> op # "ice_isA"
          BY <1>1, DeclaredOf
        <4>2. HalvesOf[t] = ChatServerHalves
          BY <1>6
        <4> QED BY Zenon, <4>1, <4>2 DEF Halves
      <3>2. op \in Operations("ChatServer")
        BY <1>1, <1>6
      <3>3. /\ ChatServerHalves["getRooms"].rethrows = {}
            /\ ChatServerHalves["getRoom"].rethrows = {"NoSuchRoom"}
            /\ ChatServerHalves["newChatRoom"].rethrows = {"NameAlreadyExists"}
            /\ ChatServerHalves["registerFactory"].rethrows = {}
            /\ ChatServerHalves["unregisterFactory"].rethrows = {}
        BY DEF ChatServerHalves, Half
      <3>4. op = "ice_isA" => Halves(t, op).rethrows = {}
        BY <3>1 DEF Half
      <3> QED BY <3>1, <3>2, <3>3, <3>4, OperationsOf
    <2>3. Throws[op] = CASE op = "getRoom" -> {"NoSuchRoom"}
                         [] op = "newChatRoom" -> {"NameAlreadyExists"}
                         [] OTHER -> {}
      BY <1>1, <1>6, OperationsOf
    <2> QED BY <2>1, <2>2, <2>3 DEF t, op
  <1> QED BY <1>1, <1>3, <1>4, <1>5, <1>6 DEF Types

LEMMA ThrowsDeclared ==
    ASSUME NEW i, i.type \in Types, i.op \in Operations(i.type)
    PROVE  Throws[ThrowsKey(i)] \subseteq UserExceptions
  <1>1. \A key \in DOMAIN Throws : Throws[key] \subseteq UserExceptions
    BY DEF Throws, UserExceptions
  <1>2. DOMAIN Throws =
          {"listUsers", "join", "postMessage", "getUser", "Leave", "getRooms", "getRoom",
           "newChatRoom", "factoryNewChatRoom", "getNumberOfRooms", "registerFactory",
           "unregisterFactory", "sendMessage", "sendPrivateMessage", "ice_isA"}
    BY DEF Throws
  <1>3. ThrowsKey(i) \in DOMAIN Throws
    BY <1>2, OperationsOf DEF ThrowsKey, Types
  <1> QED BY <1>1, <1>3

LEMMA ReorderedSame ==
    ASSUME NEW P, NEW S, NEW a \in [DOMAIN P -> S],
           \A i, j \in DOMAIN P : P[i] = P[j] => i = j
    PROVE  Reordered(a, P, P) = a
  BY DEF Reordered

LEMMA InvocationFits ==
    ASSUME NEW i \in Invocations
    PROVE  /\ i.type \in Types /\ i.op \in Operations(i.type)
           /\ i.args \in Arguments(i.type, i.op)
           /\ i = [type |-> i.type, op |-> i.op, args |-> i.args]
  BY CalledTypes DEF Invocations

LEMMA ArgumentsFit ==
    ASSUME NEW i \in Invocations
    PROVE  /\ \E S : i.args \in [DOMAIN ParametersOf(i.type, i.op) -> S]
           /\ i.op = "ice_isA" => i.args[1] \in TypeIds
  <1>1. CASE i.op = "ice_isA"
    <2>1. PICK u \in Called : i.args = <<StaticId(u)>>
      BY <1>1, InvocationFits DEF Arguments
    <2>2. ParametersOf(i.type, i.op) = <<"id">>
      BY <1>1, InvocationFits, OrdersOf
    <2>3. StaticId(u) \in TypeIds
      BY <2>1, CalledTypes DEF StaticId, TypeIds
    <2> QED BY <2>1, <2>2, <2>3
  <1>2. CASE i.op # "ice_isA"
    BY <1>2, InvocationFits DEF Arguments
  <1> QED BY <1>1, <1>2

LEMMA ArgumentsKept ==
    ASSUME NEW i \in Invocations, NEW k
    PROVE  /\ RequestOf(k, i) = Request(k, i.type, i.op, i.args)
           /\ Passed(Request(k, i.type, i.op, i.args), i.op) = i.args
  <1> DEFINE P == ParametersOf(i.type, i.op)
  <1>1. i.type \in Types /\ i.op \in Operations(i.type)
    BY InvocationFits
  <1>2. \A m, n \in DOMAIN P : P[m] = P[n] => m = n
    BY <1>1, OrdersOf DEF Parameters
  <1>3. PICK S : i.args \in [DOMAIN P -> S]
    BY ArgumentsFit
  <1>4. Reordered(i.args, P, P) = i.args
    <2> HIDE DEF P
    <2> QED BY <1>2, <1>3, ReorderedSame
  <1>5. /\ Halves(i.type, i.op).writes = P /\ SkeletonOf(i.type, i.op).reads = P
        /\ SkeletonOf(i.type, i.op).passes = P /\ ServantParameters(i.type, i.op) = P
    BY <1>1, OrdersOf
  <1>6. RequestOf(k, i) = Request(k, i.type, i.op, i.args)
    BY <1>4, <1>5 DEF RequestOf
  <1>7. Passed(Request(k, i.type, i.op, i.args), i.op) = i.args
    BY <1>4, <1>5 DEF Passed, Request
  <1> QED BY <1>6, <1>7

LEMMA InvocationFound ==
    ASSUME NEW i \in Invocations
    PROVE  Exists(i.type, i.op) /\ Function(i.type, i.op) = i.op
  BY InvocationFits, OperationsRanked, DispatchFindsNamed

LEMMA PromisedAsReturned == ASSUME NEW i \in Invocations PROVE Results(i) = PromisedResults(i)
  <1>1. CASE i.op = "ice_isA"
    <2>1. IsA(i.type, i.args[1]) <=> i.args[1] = StaticId(i.type)
      BY <1>1, InvocationFits, ArgumentsFit, IsOwnType
    <2> QED BY <1>1, <2>1 DEF Results, PromisedResults
  <1>2. CASE i.op # "ice_isA"
    BY <1>2 DEF PromisedResults
  <1> QED BY <1>1, <1>2

-----------------------------------------------------------------------------
(* The inductive invariant: what is on its way or being done for a call      *)
(* belongs to what the call was for.                                         *)

\* The request of a call that was made.
Pending(k) == Request(k, call[k].type, call[k].op, call[k].args)

\* What was not called has left no trace.
Unasked == \A k \in Calls : call[k] = Nothing =>
    /\ response[k] = Nothing /\ ran[k] = Nothing
    /\ \A m \in requests : m.from # k
    /\ \A r \in replies : r.to # k

\* A request on its way is its call's; only ice_isA is sent again once it has run.
Requested == \A m \in requests :
    /\ m = Pending(m.from)
    /\ m.op # "ice_isA" => ran[m.from] = Nothing

Served == serving # Nothing =>
    /\ serving = Pending(serving.from)
    /\ ran[serving.from] # Nothing
    /\ serving.op # "ice_isA" => answer[serving.from] = Nothing

\* The servant runs what was called; ice_isA has one answer, however often it runs.
RanAsCalled == \A k \in Calls :
    /\ ran[k] # Nothing => ran[k] = call[k]
    /\ answer[k] # Nothing =>
         /\ ran[k] # Nothing
         /\ answer[k] \in Promise!Answers(call[k])
         /\ call[k].op = "ice_isA" => \E v \in Results(call[k]) : answer[k] = Value(v)

\* What a reply makes of its call is what the servant's function ended with.
Carries(k, r) ==
    /\ answer[k] # Nothing
    /\ Outcome(call[k], r) = Promise!Delivered(call[k], answer[k])

Replied == \A r \in replies : Carries(r.to, r)

Completed == \A k \in Calls : response[k] # Nothing =>
    \/ Carries(k, response[k])
    \/ \E e \in TransportFailures : Outcome(call[k], response[k]) = Exception(e)

IInv == TypeOK /\ Unasked /\ Requested /\ Served /\ RanAsCalled /\ Replied /\ Completed

LEMMA CallFits ==
    ASSUME IInv, NEW k \in Calls, call[k] # Nothing
    PROVE  /\ call[k] \in Invocations
           /\ Pending(k) \in Requests /\ Pending(k) = RequestOf(k, call[k])
           /\ Pending(k).from = k /\ Pending(k).type = call[k].type
           /\ Pending(k).op = call[k].op
  <1>1. call[k] \in Invocations
    BY DEF IInv, TypeOK
  <1>2. Pending(k) = RequestOf(k, call[k])
    BY <1>1, ArgumentsKept DEF Pending
  <1>3. Pending(k) \in Requests
    BY <1>1 DEF Pending, Requests
  <1> QED BY <1>1, <1>2, <1>3 DEF Pending, Request

LEMMA RequestFits ==
    ASSUME IInv, NEW m \in requests
    PROVE  /\ m \in Requests /\ m.from \in Calls /\ call[m.from] # Nothing
           /\ m = Pending(m.from)
  <1>1. m \in Requests /\ m = Pending(m.from)
    BY DEF IInv, TypeOK, Requested
  <1>2. m.from \in Calls
    BY <1>1 DEF Requests, Request
  <1>3. call[m.from] # Nothing
    BY <1>2 DEF IInv, Unasked
  <1> QED BY <1>1, <1>2, <1>3

LEMMA ServingFits ==
    ASSUME IInv, serving # Nothing
    PROVE  /\ serving \in Requests /\ serving.from \in Calls /\ call[serving.from] # Nothing
           /\ serving = Pending(serving.from) /\ ran[serving.from] = call[serving.from]
  <1>1. serving \in Requests /\ serving = Pending(serving.from)
    BY DEF IInv, TypeOK, Served
  <1>2. serving.from \in Calls
    BY <1>1 DEF Requests, Request
  <1>3. call[serving.from] # Nothing /\ ran[serving.from] = call[serving.from]
    BY <1>2 DEF IInv, Unasked, Served, RanAsCalled
  <1> QED BY <1>1, <1>2, <1>3

LEMMA ReplyFits ==
    ASSUME IInv, NEW r \in replies
    PROVE  r \in Replies /\ r.to \in Calls /\ call[r.to] # Nothing /\ r # Nothing
  <1>1. r \in Replies
    BY DEF IInv, TypeOK
  <1>2. r.to \in Calls
    BY <1>1 DEF Replies
  <1> QED BY <1>1, <1>2, NothingApart DEF IInv, Unasked

\* The failures of connection and process as a call is completed with them.
LEMMA FailureFits ==
    ASSUME NEW k \in Calls, NEW e \in TransportFailures
    PROVE  /\ Reply(k, "failure", <<e>>) \in Replies
           /\ Reply(k, "failure", <<e>>) # Nothing
           /\ Reply(k, "failure", <<e>>).to = k
           /\ \A i : Outcome(i, Reply(k, "failure", <<e>>)) = Exception(e)
  <1>1. Reply(k, "failure", <<e>>) \in Replies
    BY DEF Reply, Replies, Bodies
  <1>2. \A i : Outcome(i, Reply(k, "failure", <<e>>)) = Exception(e)
    BY DEF Outcome, Reply
  <1> QED BY <1>1, <1>2, NothingApart DEF Reply

\* A step that leaves a call and its answer alone leaves what a reply carries.
LEMMA CarriesKept ==
    ASSUME NEW k, NEW r, call'[k] = call[k], answer'[k] = answer[k], Carries(k, r)
    PROVE  Carries(k, r)'
  BY DEF Carries

LEMMA BeginsKeeps ==
    ASSUME IInv, NEW k \in Calls, NEW i \in Invocations, Begins(k, i)
    PROVE  IInv'
  <1> USE DEF Begins, results, wire, process, history
  <1>0. i # Nothing /\ call[k] = Nothing /\ response[k] = Nothing /\ ran[k] = Nothing
    BY NothingApart DEF IInv, Unasked
  <1>1. RequestOf(k, i) = Request(k, i.type, i.op, i.args)
    BY ArgumentsKept
  <1>2. /\ call' = [call EXCEPT ![k] = i] /\ call \in [Calls -> Invocations \cup {Nothing}]
        /\ call'[k] = i /\ \A j \in Calls : j # k => call'[j] = call[j]
    BY DEF IInv, TypeOK
  <1>3. TypeOK'
    <2>1. RequestOf(k, i) \in Requests
      BY <1>1 DEF Requests
    <2>2. call' \in [Calls -> Invocations \cup {Nothing}]
      BY <1>2
    <2>3. \A j \in Calls : got[j] # Nothing => call'[j] # Nothing
      BY <1>0, <1>2 DEF IInv, TypeOK
    <2> QED BY <2>1, <2>2, <2>3 DEF IInv, TypeOK
  <1>4. Unasked'
    BY <1>0, <1>1, <1>2 DEF IInv, Unasked, Request
  <1>5. Requested'
    <2>1. ASSUME NEW m \in requests PROVE m.from # k
      BY <1>0, RequestFits
    <2>2. ASSUME NEW m \in requests
          PROVE  m = Pending(m.from)' /\ (m.op # "ice_isA" => ran'[m.from] = Nothing)
      BY <1>2, <2>1, RequestFits DEF IInv, Requested, Pending
    <2>3. RequestOf(k, i) = Pending(RequestOf(k, i).from)' /\ ran'[RequestOf(k, i).from] = Nothing
      BY <1>0, <1>1, <1>2 DEF Pending, Request
    <2> QED BY <2>2, <2>3, RequestFits DEF IInv, Requested
  <1>6. Served'
    <2>1. serving # Nothing => serving.from \in Calls /\ serving.from # k
      BY <1>0, ServingFits
    <2> QED BY <1>2, <2>1 DEF IInv, Served, Pending
  <1>7. RanAsCalled'
    BY <1>0, <1>2 DEF IInv, RanAsCalled
  <1>8. Replied'
    BY <1>0, <1>2, ReplyFits, CarriesKept DEF IInv, Replied
  <1>9. Completed'
    BY <1>0, <1>2, CarriesKept DEF IInv, Completed
  <1> QED BY <1>3, <1>4, <1>5, <1>6, <1>7, <1>8, <1>9 DEF IInv

LEMMA BeginFailsKeeps ==
    ASSUME IInv, NEW k \in Calls, NEW i \in Invocations, BeginFails(k, i)
    PROVE  IInv'
  <1> USE DEF BeginFails, results, wire, process, history
  <1> DEFINE failure == Reply(k, "failure", <<"ConnectFailed">>)
  <1>0. i # Nothing /\ call[k] = Nothing /\ response[k] = Nothing /\ ran[k] = Nothing
    BY NothingApart DEF IInv, Unasked
  <1>1. /\ failure \in Replies /\ failure # Nothing /\ failure.to = k
        /\ \A j : Outcome(j, failure) = Exception("ConnectFailed")
    BY FailureFits DEF TransportFailures
  <1>2. /\ call \in [Calls -> Invocations \cup {Nothing}]
        /\ call'[k] = i /\ \A j \in Calls : j # k => call'[j] = call[j]
    BY DEF IInv, TypeOK
  <1>3. /\ response \in [Calls -> Replies \cup {Nothing}]
        /\ response'[k] = failure /\ \A j \in Calls : j # k => response'[j] = response[j]
    BY DEF IInv, TypeOK
  <1>4. TypeOK'
    <2> HIDE DEF failure
    <2>1. call' \in [Calls -> Invocations \cup {Nothing}]
      BY <1>2
    <2>2. response' \in [Calls -> Replies \cup {Nothing}]
      BY <1>1, <1>3 DEF failure
    <2>3. \A j \in Calls : response'[j] # Nothing => response'[j].to = j
      BY <1>1, <1>3 DEF IInv, TypeOK
    <2>4. \A j \in Calls : got[j] # Nothing => call'[j] # Nothing /\ response'[j] # Nothing
      BY <1>0, <1>2, <1>3 DEF IInv, TypeOK
    <2> QED BY <2>1, <2>2, <2>3, <2>4 DEF IInv, TypeOK
  <1> HIDE DEF failure
  <1>5. Unasked'
    BY <1>0, <1>2, <1>3 DEF IInv, Unasked
  <1>6. Requested'
    <2>1. ASSUME NEW m \in requests PROVE m = Pending(m.from)'
      BY <1>0, <1>2, RequestFits DEF Pending
    <2> QED BY <2>1 DEF IInv, Requested
  <1>7. Served'
    <2>1. serving # Nothing => serving.from \in Calls /\ serving.from # k
      BY <1>0, ServingFits
    <2> QED BY <1>2, <2>1 DEF IInv, Served, Pending
  <1>8. RanAsCalled'
    BY <1>0, <1>2 DEF IInv, RanAsCalled
  <1>9. Replied'
    BY <1>0, <1>2, ReplyFits, CarriesKept DEF IInv, Replied
  <1>10. Completed'
    <2>1. "ConnectFailed" \in TransportFailures
      BY DEF TransportFailures
    <2>2. ASSUME NEW j \in Calls, j # k, Carries(j, response[j]) PROVE Carries(j, response[j])'
      BY <1>2, <1>3, <2>2, CarriesKept
    <2> QED BY <1>1, <1>2, <1>3, <2>1, <2>2 DEF IInv, Completed
  <1> QED BY <1>4, <1>5, <1>6, <1>7, <1>8, <1>9, <1>10 DEF IInv

LEMMA ReceivesKeeps ==
    ASSUME IInv, NEW r \in replies, Receives(r)
    PROVE  IInv'
  <1> USE DEF Receives, results, wire, process, history
  <1>1. r \in Replies /\ r.to \in Calls /\ call[r.to] # Nothing /\ r # Nothing
    BY ReplyFits
  <1>2. /\ response \in [Calls -> Replies \cup {Nothing}]
        /\ response'[r.to] = r /\ \A j \in Calls : j # r.to => response'[j] = response[j]
    BY <1>1 DEF IInv, TypeOK
  <1>3. TypeOK'
    BY <1>1, <1>2 DEF IInv, TypeOK
  <1>4. Unasked'
    BY <1>1, <1>2 DEF IInv, Unasked
  <1>5. Requested' /\ Served' /\ RanAsCalled'
    BY DEF IInv, Requested, Served, RanAsCalled, Pending
  <1>6. Replied'
    BY CarriesKept DEF IInv, Replied
  <1>7. Completed'
    <2>1. ASSUME NEW j \in Calls, NEW q, Carries(j, q) PROVE Carries(j, q)'
      BY <2>1, CarriesKept
    <2>2. Carries(r.to, r)
      BY DEF IInv, Replied
    <2> QED BY <1>1, <1>2, <2>1, <2>2 DEF IInv, Completed, Carries
  <1> QED BY <1>3, <1>4, <1>5, <1>6, <1>7 DEF IInv

LEMMA EndsKeeps ==
    ASSUME IInv, NEW k \in Calls, Ends(k)
    PROVE  /\ IInv' /\ call[k] # Nothing
           /\ got' = [got EXCEPT ![k] = Outcome(call[k], response[k])]
           /\ \/ Carries(k, response[k])
              \/ \E e \in TransportFailures : Outcome(call[k], response[k]) = Exception(e)
  <1> USE DEF Ends, results, wire, process, history
  <1> DEFINE out == Outcome(call[k], response[k])
  <1>1. call[k] # Nothing
    BY DEF IInv, Unasked
  <1>2. \/ Carries(k, response[k])
        \/ \E e \in TransportFailures : out = Exception(e)
    BY DEF IInv, Completed
  <1>3. out \in Ended
    <2>1. ASSUME NEW e \in TransportFailures PROVE Exception(e) \in Ended
      BY DEF Ended
    <2>2. CASE Carries(k, response[k])
      <3>1. answer[k] \in Ended /\ answer[k] \in Promise!Answers(call[k])
        BY <2>2, NothingApart DEF IInv, TypeOK, RanAsCalled, Carries
      <3>2. out = Promise!Delivered(call[k], answer[k])
        BY <2>2 DEF Carries
      <3>3. CASE answer[k].kind = "value"
        BY <3>1, <3>2, <3>3 DEF Promise!Delivered
      <3>4. CASE answer[k].kind # "value"
        <4>1. \E e \in Errors : answer[k] = Exception(e)
          BY <3>1, <3>4 DEF Promise!Answers, Promise!Value, Promise!Exception, Exception,
             Errors, UserExceptions, LocalExceptions, RequestFailures,
             Promise!UserExceptions, Promise!LocalExceptions, Promise!RequestFailures
        <4>2. PICK e \in Errors : answer[k] = Exception(e)
          BY <4>1
        <4>3. out = Exception(Promise!Received(ThrowsKey(call[k]), e))
          BY <3>2, <3>4, <4>2 DEF Promise!Delivered, Promise!Exception, Exception
        <4>4. Promise!Received(ThrowsKey(call[k]), e) \in Errors \cup UnknownExceptions
          BY <4>2 DEF Promise!Received, Promise!UserExceptions, Promise!LocalExceptions,
             UnknownExceptions
        <4> QED BY <4>3, <4>4 DEF Ended
      <3> QED BY <3>3, <3>4
    <2> QED BY <1>2, <2>1, <2>2
  <1> HIDE DEF out
  <1>4. TypeOK'
    <2>1. got' \in [Calls -> Ended \cup {Nothing}]
      BY <1>3 DEF IInv, TypeOK, out
    <2>2. \A j \in Calls : got'[j] # Nothing => call[j] # Nothing /\ response[j] # Nothing
      BY <1>1 DEF IInv, TypeOK
    <2> QED BY <2>1, <2>2 DEF IInv, TypeOK
  <1>5. Unasked' /\ Requested' /\ Served' /\ RanAsCalled'
    BY DEF IInv, Unasked, Requested, Served, RanAsCalled, Pending
  <1>6. Replied' /\ Completed'
    <2>1. ASSUME NEW j, NEW q, Carries(j, q) PROVE Carries(j, q)'
      BY <2>1, CarriesKept
    <2> QED BY <2>1 DEF IInv, Replied, Completed
  <1> QED BY <1>1, <1>2, <1>4, <1>5, <1>6 DEF IInv, out

\* What arrives is run as it was called: the name is found, the arguments are in
\* their order.
LEMMA DispatchesRuns ==
    ASSUME IInv, NEW m \in requests, Dispatches(m)
    PROVE  /\ serving' = m
           /\ ran' = [ran EXCEPT ![m.from] = call[m.from]]
           /\ replies' = replies
  <1> DEFINE i == call[m.from]
  <1>1. m.from \in Calls /\ i \in Invocations /\ m = Pending(m.from)
    BY RequestFits, CallFits
  <1>2. m = Request(m.from, i.type, i.op, i.args) /\ m.type = i.type /\ m.op = i.op
    BY <1>1 DEF Pending, Request
  <1> HIDE DEF i
  <1>3. Exists(m.type, m.op) /\ Function(m.type, m.op) = m.op
    BY <1>1, <1>2, InvocationFound
  <1>4. Passed(m, m.op) = i.args
    <2>1. Passed(Request(m.from, i.type, i.op, i.args), i.op) = i.args
      BY <1>1, ArgumentsKept
    <2> QED BY <1>2, <2>1
  <1>5. /\ serving' = Request(m.from, m.type, m.op, Passed(m, m.op))
        /\ ran' = [ran EXCEPT ![m.from] =
                     [type |-> m.type, op |-> m.op, args |-> Passed(m, m.op)]]
        /\ replies' = replies
    BY <1>3 DEF Dispatches
  <1>6. i = [type |-> i.type, op |-> i.op, args |-> i.args]
    BY <1>1, InvocationFits
  <1>7. serving' = m
    BY <1>2, <1>4, <1>5
  <1>8. [type |-> m.type, op |-> m.op, args |-> Passed(m, m.op)] = i
    BY <1>2, <1>4, <1>6
  <1> QED BY <1>5, <1>7, <1>8 DEF i

LEMMA DispatchesKeeps ==
    ASSUME IInv, NEW m \in requests, Dispatches(m)
    PROVE  IInv'
  <1> USE DEF results, wire, process, history
  <1> DEFINE k == m.from
  <1>1. m \in Requests /\ k \in Calls /\ call[k] # Nothing /\ m = Pending(k)
    BY RequestFits
  <1>2. call[k] \in Invocations /\ m.op = call[k].op /\ m # Nothing
    BY <1>1, CallFits, NothingApart
  <1>3. /\ serving' = m /\ ran' = [ran EXCEPT ![k] = call[k]] /\ replies' = replies
        /\ requests' = requests \ {m}
        /\ UNCHANGED <<call, response, got, retried, up, crashes, answer>>
    BY DispatchesRuns DEF Dispatches
  <1>4. ran'[k] = call[k] /\ \A j \in Calls : j # k => ran'[j] = ran[j]
    BY <1>1, <1>3 DEF IInv, TypeOK
  <1> HIDE DEF k
  <1>5. TypeOK'
    <2>1. ran' \in [Calls -> Invocations \cup {Nothing}]
      BY <1>1, <1>2, <1>3 DEF IInv, TypeOK
    <2>2. serving' # Nothing => ran'[serving'.from].op = serving'.op
      BY <1>2, <1>3, <1>4 DEF k
    <2>3. \A j \in Calls : answer'[j] # Nothing => ran'[j] # Nothing
      BY <1>1, <1>3, <1>4 DEF IInv, TypeOK
    <2> QED BY <1>1, <1>3, <2>1, <2>2, <2>3 DEF IInv, TypeOK
  <1>6. Unasked'
    BY <1>1, <1>3, <1>4 DEF IInv, Unasked
  <1>7. Requested'
    <2> SUFFICES ASSUME NEW n \in requests \ {m}
                 PROVE  n = Pending(n.from)' /\ (n.op # "ice_isA" => ran'[n.from] = Nothing)
      BY <1>3 DEF Requested
    <2>1. /\ n.from \in Calls /\ n = Pending(n.from)
          /\ n.op # "ice_isA" => ran[n.from] = Nothing
      BY RequestFits DEF IInv, Requested
    <2>2. n.from # k
      BY <1>1, <2>1
    <2> QED BY <1>3, <1>4, <2>1, <2>2 DEF Pending
  <1>8. Served'
    <2>1. serving' = m /\ m = Pending(k)' /\ m.from = k
      BY <1>1, <1>3 DEF Pending, k
    <2>2. ran'[k] # Nothing
      BY <1>1, <1>4
    <2>3. m.op # "ice_isA" => answer'[k] = Nothing
      <3>1. m.op # "ice_isA" => ran[k] = Nothing
        BY DEF IInv, Requested, k
      <3> QED BY <1>1, <1>3, <3>1 DEF IInv, RanAsCalled
    <2> QED BY <2>1, <2>2, <2>3 DEF Served
  <1>9. RanAsCalled'
    BY <1>1, <1>3, <1>4 DEF IInv, RanAsCalled
  <1>10. Replied' /\ Completed'
    <2>1. ASSUME NEW j, NEW q, Carries(j, q) PROVE Carries(j, q)'
      BY <1>3, <2>1, CarriesKept
    <2> QED BY <1>3, <2>1 DEF IInv, Replied, Completed
  <1> QED BY <1>5, <1>6, <1>7, <1>8, <1>9, <1>10 DEF IInv

\* The end of a servant's function, and the reply that carries it.
LEMMA FinishesKeeps ==
    ASSUME IInv, serving # Nothing, NEW a \in Ended, NEW status, NEW body,
           Finishes(a, status, body),
           a \in Promise!Answers(call[serving.from]),
           serving.op = "ice_isA" => \E v \in Results(call[serving.from]) : a = Value(v),
           Reply(serving.from, status, body) \in Replies,
           Outcome(call[serving.from], Reply(serving.from, status, body)) =
             Promise!Delivered(call[serving.from], a)
    PROVE  /\ IInv'
           /\ answer[serving.from] # Nothing => answer' = answer
  <1> USE DEF results, wire, process, history
  <1> PICK k : k = serving.from
    OBVIOUS
  <1> PICK reply : reply = Reply(k, status, body)
    OBVIOUS
  <1>1. /\ k \in Calls /\ call[k] # Nothing /\ serving = Pending(k) /\ ran[k] = call[k]
        /\ serving.op = call[k].op /\ call[k] \in Invocations
    BY ServingFits, CallFits
  <1>2. /\ answer' = [answer EXCEPT ![k] = a]
        /\ replies' \in {replies, replies \cup {reply}} /\ serving' = Nothing
        /\ UNCHANGED <<call, response, got, requests, retried, up, crashes, ran>>
    BY DEF Finishes
  <1>3. reply \in Replies /\ reply.to = k /\ a # Nothing
    BY NothingApart DEF Reply
  <1>4. /\ answer \in [Calls -> Ended \cup {Nothing}]
        /\ answer'[k] = a /\ \A j \in Calls : j # k => answer'[j] = answer[j]
    BY <1>1, <1>2 DEF IInv, TypeOK
  <1>5. answer[k] # Nothing => answer[k] = a
    <2>1. CASE serving.op = "ice_isA"
      <3>1. \A v, w \in Results(call[k]) : v = w
        BY <1>1, <2>1 DEF Results
      <3>2. answer[k] # Nothing => \E v \in Results(call[k]) : answer[k] = Value(v)
        BY <1>1, <2>1 DEF IInv, RanAsCalled
      <3>3. \E v \in Results(call[k]) : a = Value(v)
        BY <2>1
      <3> QED BY <3>1, <3>2, <3>3
    <2>2. CASE serving.op # "ice_isA"
      BY <2>2 DEF IInv, Served
    <2> QED BY <2>1, <2>2
  <1>6. Carries(k, reply)'
    BY <1>2, <1>3, <1>4 DEF Carries
  <1>7. ASSUME NEW j \in Calls, NEW q, Carries(j, q) PROVE Carries(j, q)'
    <2>1. answer'[j] = answer[j]
      BY <1>4, <1>5, <1>7 DEF Carries
    <2> QED BY <1>2, <1>7, <2>1, CarriesKept
  <1>8. answer[k] # Nothing => answer' = answer
    BY <1>1, <1>2, <1>4, <1>5
  <1>9. /\ a \in Promise!Answers(call[k])
        /\ call[k].op = "ice_isA" => \E v \in Results(call[k]) : a = Value(v)
    BY <1>1
  <1>10. TypeOK'
    <2>1. answer' \in [Calls -> Ended \cup {Nothing}]
      BY <1>2, <1>4
    <2>2. replies' \subseteq Replies
      BY <1>2, <1>3 DEF IInv, TypeOK
    <2>3. \A j \in Calls : answer'[j] # Nothing => ran'[j] # Nothing
      BY <1>1, <1>2, <1>4 DEF IInv, TypeOK
    <2> QED BY <1>2, <2>1, <2>2, <2>3 DEF IInv, TypeOK
  <1>11. Unasked'
    BY <1>1, <1>2, <1>3 DEF IInv, Unasked
  <1>12. Requested'
    BY <1>2 DEF IInv, Requested, Pending
  <1>13. Served'
    BY <1>2 DEF Served
  <1>14. RanAsCalled'
    BY <1>1, <1>2, <1>4, <1>9 DEF IInv, RanAsCalled
  <1>15. Replied'
    <2>1. \A r \in replies : Carries(r.to, r)'
      BY <1>7, ReplyFits DEF IInv, Replied
    <2> QED BY <1>2, <1>3, <1>6, <2>1 DEF Replied
  <1>16. Completed'
    BY <1>2, <1>7 DEF IInv, Completed
  <1> QED BY <1>8, <1>10, <1>11, <1>12, <1>13, <1>14, <1>15, <1>16 DEF IInv

\* What is written is read: the result as the caller gets it.
LEMMA ReturnedAsDelivered ==
    ASSUME NEW i \in Invocations, NEW k \in Calls, NEW v \in Results(i)
    PROVE  LET body == IF SkeletonOf(i.type, i.op).writes = <<>> THEN <<>> ELSE <<v>>
           IN  /\ Reply(k, "ok", body) \in Replies
               /\ Outcome(i, Reply(k, "ok", body)) = Value(v)
               /\ Promise!Delivered(i, Value(v)) = Value(v)
               /\ Value(v) \in Ended /\ Value(v) \in Promise!Answers(i)
  <1> DEFINE written == SkeletonOf(i.type, i.op).writes
  <1> DEFINE body == IF written = <<>> THEN <<>> ELSE <<v>>
  <1>1. /\ i.type \in Types /\ i.op \in Operations(i.type)
        /\ written \in {<<>>, <<Result>>} /\ Halves(i.type, i.op).reads = written
        /\ i.op = "ice_isA" => written = <<Result>>
    BY InvocationFits, ResultOf
  <1>2. /\ written = <<>> => v = Void
        /\ written # <<>> => v \in Values \cup {Yes, No}
    BY <1>1 DEF Results
  <1>3. Reply(k, "ok", body) \in Replies
    BY <1>2 DEF Reply, Replies, Bodies
  <1>4. Outcome(i, Reply(k, "ok", body)) = Value(v)
    <2> DEFINE r == Reply(k, "ok", body)
    <2>1. r.status = "ok" /\ r.body = body
      BY DEF Reply
    <2> HIDE DEF r
    <2>2. Outcome(i, r) = Value(IF Halves(i.type, i.op).reads = <<>> THEN Void ELSE r.body[1])
      BY <2>1 DEF Outcome
    <2>3. CASE written = <<>>
      BY <1>1, <1>2, <2>2, <2>3 DEF r
    <2>4. CASE written # <<>>
      BY <1>1, <2>1, <2>2, <2>4 DEF r
    <2> QED BY <2>3, <2>4
  <1>5. Promise!Delivered(i, Value(v)) = Value(v)
    BY DEF Promise!Delivered, Value
  <1>6. Value(v) \in Ended
    BY <1>2 DEF Ended
  <1>7. Value(v) \in Promise!Answers(i)
    BY PromisedAsReturned DEF Promise!Answers, Promise!Value, Value
  <1> QED BY <1>3, <1>4, <1>5, <1>6, <1>7

LEMMA ThrownOf == \A e \in UserExceptions : Thrown(IceId[e]) = e
  <1>1. \A e, f \in UserExceptions : IceId[e] = IceId[f] => e = f
    BY DEF UserExceptions, IceId
  <1> QED BY <1>1 DEF Thrown

\* What is thrown arrives as chat.ice declares it.
LEMMA ThrownAsDelivered ==
    ASSUME NEW i \in Invocations, NEW k \in Calls, NEW e \in Errors
    PROVE  LET status == IF e \in UserExceptions THEN "user" ELSE "failure"
               body == IF e \in UserExceptions THEN <<IceId[e]>>
                       ELSE <<FailureName(e)>>
           IN  /\ Reply(k, status, body) \in Replies
               /\ Outcome(i, Reply(k, status, body)) = Promise!Delivered(i, Exception(e))
               /\ Exception(e) \in Ended /\ Exception(e) \in Promise!Answers(i)
  <1>1. Exception(e) \in Ended
    BY DEF Ended
  <1>2. Exception(e) \in Promise!Answers(i)
    BY DEF Promise!Answers, Promise!Exception, Exception, Errors, Promise!UserExceptions,
       Promise!LocalExceptions, Promise!RequestFailures, UserExceptions, LocalExceptions,
       RequestFailures
  <1>3. Promise!Delivered(i, Exception(e)) = Exception(Received(ThrowsKey(i), e))
    <2>1. Promise!Received(ThrowsKey(i), e) = Received(ThrowsKey(i), e)
      BY DEF Promise!Received, Received, Promise!UserExceptions, Promise!LocalExceptions,
         Promise!RequestFailures, UserExceptions, LocalExceptions, RequestFailures,
         Promise!Throws, Throws
    <2> QED BY <2>1 DEF Promise!Delivered, Promise!Exception, Exception
  <1>4. Halves(i.type, i.op).rethrows = Throws[ThrowsKey(i)]
    BY InvocationFits, RethrowsOf
  <1>5. CASE e \in UserExceptions
    <2> DEFINE r == Reply(k, "user", <<IceId[e]>>)
    <2>1. r \in Replies /\ r.status = "user" /\ r.body[1] = IceId[e]
      BY <1>5 DEF Reply, Replies, Bodies
    <2>2. Outcome(i, r) = Exception(IF e \in Halves(i.type, i.op).rethrows
                                    THEN e ELSE "UnknownUserException")
      <3> HIDE DEF r
      <3> QED BY <1>5, <2>1, ThrownOf DEF Outcome
    <2>3. Outcome(i, r) = Exception(Received(ThrowsKey(i), e))
      <3> HIDE DEF r
      <3> QED BY <1>4, <1>5, <2>2 DEF Received, UserExceptions, RequestFailures
    <2> QED BY <1>1, <1>2, <1>3, <1>5, <2>1, <2>3
  <1>6. CASE e \notin UserExceptions
    <2> DEFINE name == FailureName(e)
    <2> DEFINE r == Reply(k, "failure", <<name>>)
    <2>1. r \in Replies /\ r.status = "failure" /\ r.body[1] = name
      <3>1. name \in UnknownExceptions \cup RequestFailures
        BY DEF FailureName, UnknownExceptions
      <3> HIDE DEF name
      <3> QED BY <3>1 DEF Reply, Replies, Bodies
    <2>2. Outcome(i, r) = Exception(name)
      <3> HIDE DEF r, name
      <3> QED BY <2>1 DEF Outcome
    <2>3. Received(ThrowsKey(i), e) = name
      <3>1. Throws[ThrowsKey(i)] \subseteq UserExceptions
        BY InvocationFits, ThrowsDeclared
      <3>2. RequestFailures \cap LocalExceptions = {}
        BY DEF RequestFailures, LocalExceptions
      <3> QED BY <1>6, <3>1, <3>2 DEF Received, FailureName
    <2> QED BY <1>1, <1>2, <1>3, <1>6, <2>1, <2>2, <2>3
  <1> QED BY <1>5, <1>6

LEMMA ReturnsKeeps ==
    ASSUME IInv, NEW v, Returns(v)
    PROVE  /\ IInv' /\ serving # Nothing
           /\ answer[serving.from] # Nothing => answer' = answer
           /\ \E a \in Promise!Answers(call[serving.from]) :
                answer' = [answer EXCEPT ![serving.from] = a]
  <1> DEFINE i == call[serving.from]
  <1>1. serving # Nothing /\ v \in Results(ran[serving.from])
    BY DEF Returns
  <1>2. /\ serving.from \in Calls /\ i \in Invocations /\ ran[serving.from] = i
        /\ serving.type = i.type /\ serving.op = i.op
    BY <1>1, ServingFits, CallFits
  <1> DEFINE body == IF SkeletonOf(i.type, i.op).writes = <<>> THEN <<>> ELSE <<v>>
  <1>3. Finishes(Value(v), "ok", body)
    BY <1>2 DEF Returns
  <1> HIDE DEF i
  <1>4. /\ Reply(serving.from, "ok", body) \in Replies
        /\ Outcome(i, Reply(serving.from, "ok", body)) = Promise!Delivered(i, Value(v))
        /\ Value(v) \in Ended /\ Value(v) \in Promise!Answers(i)
    BY <1>1, <1>2, ReturnedAsDelivered
  <1> HIDE DEF body
  <1>5. IInv' /\ (answer[serving.from] # Nothing => answer' = answer)
    BY <1>1, <1>2, <1>3, <1>4, FinishesKeeps DEF i
  <1>6. answer' = [answer EXCEPT ![serving.from] = Value(v)]
    BY <1>3 DEF Finishes
  <1> QED BY <1>1, <1>4, <1>5, <1>6 DEF i

LEMMA ThrowingKeeps ==
    ASSUME IInv, NEW e \in Errors, Throwing(e)
    PROVE  /\ IInv' /\ serving # Nothing
           /\ answer[serving.from] # Nothing => answer' = answer
           /\ \E a \in Promise!Answers(call[serving.from]) :
                answer' = [answer EXCEPT ![serving.from] = a]
  <1> DEFINE i == call[serving.from]
  <1> DEFINE status == IF e \in UserExceptions THEN "user" ELSE "failure"
  <1> DEFINE body == IF e \in UserExceptions THEN <<IceId[e]>>
                     ELSE <<FailureName(e)>>
  <1>1. serving # Nothing /\ serving.op # "ice_isA" /\ Finishes(Exception(e), status, body)
    BY DEF Throwing
  <1>2. serving.from \in Calls /\ i \in Invocations
    BY <1>1, ServingFits, CallFits
  <1> HIDE DEF i
  <1>3. /\ Reply(serving.from, status, body) \in Replies
        /\ Outcome(i, Reply(serving.from, status, body)) = Promise!Delivered(i, Exception(e))
        /\ Exception(e) \in Ended /\ Exception(e) \in Promise!Answers(i)
    BY <1>2, ThrownAsDelivered
  <1> HIDE DEF status, body
  <1>4. IInv' /\ (answer[serving.from] # Nothing => answer' = answer)
    BY <1>1, <1>3, FinishesKeeps DEF i
  <1>5. answer' = [answer EXCEPT ![serving.from] = Exception(e)]
    BY <1>1 DEF Finishes
  <1> QED BY <1>1, <1>3, <1>4, <1>5 DEF i

LEMMA ConnectionBreaksKeeps ==
    ASSUME IInv, NEW k \in Calls, ConnectionBreaks(k)
    PROVE  IInv'
  <1> USE DEF results, wire, process, history
  <1> DEFINE failure == Reply(k, "failure", <<"ConnectionLost">>)
  <1>0. /\ call[k] # Nothing /\ response[k] = Nothing
        /\ replies' \subseteq replies
        /\ UNCHANGED <<call, got, serving, up, crashes, ran, answer>>
    BY DEF ConnectionBreaks, Waiting
  <1>1. /\ failure \in Replies /\ failure # Nothing /\ failure.to = k
        /\ \A j : Outcome(j, failure) = Exception("ConnectionLost")
    BY FailureFits DEF TransportFailures
  <1>2. \/ /\ Retries(k) /\ requests' = requests \cup {Pending(k)}
           /\ retried' = retried \cup {k} /\ response' = response
        \/ /\ requests' \subseteq requests /\ retried' = retried
           /\ response' = [response EXCEPT ![k] = failure]
    BY <1>0, CallFits DEF ConnectionBreaks
  <1>3. response \in [Calls -> Replies \cup {Nothing}]
    BY DEF IInv, TypeOK
  <1>4. /\ \A j \in Calls : response'[j] = response[j] \/ (j = k /\ response'[j] = failure)
        /\ response' \in [Calls -> Replies \cup {Nothing}]
    BY <1>1, <1>2, <1>3
  <1> HIDE DEF failure
  <1>5. /\ requests' \subseteq requests \cup {Pending(k)}
        /\ retried' \subseteq Calls
    BY <1>2 DEF IInv, TypeOK
  <1>6. /\ Pending(k) \in Requests /\ Pending(k).from = k
        /\ Pending(k) \in requests' \ requests => Pending(k).op = "ice_isA"
    <2>1. Pending(k) \in Requests /\ Pending(k).from = k /\ Pending(k).op = call[k].op
      BY <1>0, CallFits
    <2>2. Retries(k) => call[k].op = "ice_isA"
      <3>1. call[k].type \in Types /\ call[k].op \in Operations(call[k].type)
        BY <1>0, CallFits, InvocationFits
      <3> QED BY <3>1, DeclaredOf DEF Retries, Mode
    <2> QED BY <1>2, <2>1, <2>2
  <1>7. TypeOK'
    <2>1. \A j \in Calls : response'[j] # Nothing => response'[j].to = j
      BY <1>1, <1>4 DEF IInv, TypeOK
    <2>2. \A j \in Calls : got'[j] # Nothing => call'[j] # Nothing /\ response'[j] # Nothing
      BY <1>0, <1>1, <1>4 DEF IInv, TypeOK
    <2>3. requests' \subseteq Requests
      BY <1>5, <1>6 DEF IInv, TypeOK
    <2> QED BY <1>0, <1>4, <1>5, <2>1, <2>2, <2>3 DEF IInv, TypeOK
  <1>8. Unasked'
    BY <1>0, <1>4, <1>5, <1>6 DEF IInv, Unasked
  <1>9. Requested'
    <2>1. ASSUME NEW m \in requests'
          PROVE  m = Pending(m.from)' /\ (m.op # "ice_isA" => ran'[m.from] = Nothing)
      <3>1. CASE m \in requests
        BY <1>0, <3>1 DEF IInv, Requested, Pending
      <3>2. CASE m \notin requests
        <4>1. m = Pending(k) /\ m.op = "ice_isA" /\ m.from = k
          BY <1>5, <1>6, <3>2
        <4> QED BY <1>0, <4>1 DEF Pending
      <3> QED BY <3>1, <3>2
    <2> QED BY <2>1 DEF Requested
  <1>10. Served' /\ RanAsCalled'
    BY <1>0 DEF IInv, Served, RanAsCalled, Pending
  <1>11. Replied' /\ Completed'
    <2>1. ASSUME NEW j, NEW q, Carries(j, q) PROVE Carries(j, q)'
      BY <1>0, <2>1, CarriesKept
    <2>2. Replied'
      BY <1>0, <2>1 DEF IInv, Replied
    <2>3. "ConnectionLost" \in TransportFailures
      BY DEF TransportFailures
    <2>4. Completed'
      BY <1>0, <1>1, <1>4, <2>1, <2>3 DEF IInv, Completed
    <2> QED BY <2>2, <2>4
  <1> QED BY <1>7, <1>8, <1>9, <1>10, <1>11 DEF IInv

LEMMA ProcessEndsKeeps ==
    ASSUME IInv, ProcessEnds
    PROVE  IInv'
  <1> USE DEF results, wire, process, history
  <1>0. /\ requests' = {} /\ replies' = {} /\ serving' = Nothing
        /\ crashes' \in 0 .. MaxCrashes /\ up' = FALSE
        /\ UNCHANGED <<call, got, retried, ran, answer>>
    BY MaxCrashesType DEF ProcessEnds, IInv, TypeOK
  <1>1. ASSUME NEW j \in Calls
        PROVE  \/ response'[j] = response[j]
               \/ /\ call[j] # Nothing /\ response'[j] \in Replies
                  /\ response'[j] # Nothing /\ response'[j].to = j
                  /\ \E e \in TransportFailures :
                       Outcome(call[j], response'[j]) = Exception(e)
    <2>1. \/ response'[j] = response[j]
          \/ /\ call[j] # Nothing
             /\ \E e \in TransportFailures : response'[j] = Reply(j, "failure", <<e>>)
      BY DEF ProcessEnds, Waiting, TransportFailures
    <2>2. ASSUME NEW e \in TransportFailures, response'[j] = Reply(j, "failure", <<e>>)
          PROVE  /\ response'[j] \in Replies /\ response'[j] # Nothing
                 /\ response'[j].to = j /\ Outcome(call[j], response'[j]) = Exception(e)
      BY <2>2, FailureFits
    <2> QED BY <2>1, <2>2
  <1>2. response' \in [Calls -> Replies \cup {Nothing}]
    <2>1. \A j \in Calls : response'[j] \in Replies \cup {Nothing}
      BY <1>1 DEF IInv, TypeOK
    <2>2. response' = [j \in Calls |-> response'[j]]
      BY DEF ProcessEnds
    <2> QED BY <2>1, <2>2
  <1>3. TypeOK'
    <2>1. \A j \in Calls : response'[j] # Nothing => response'[j].to = j
      BY <1>1 DEF IInv, TypeOK
    <2>2. \A j \in Calls : got'[j] # Nothing => call'[j] # Nothing /\ response'[j] # Nothing
      BY <1>0, <1>1 DEF IInv, TypeOK
    <2> QED BY <1>0, <1>2, <2>1, <2>2 DEF IInv, TypeOK
  <1>4. Unasked'
    BY <1>0, <1>1 DEF IInv, Unasked
  <1>5. Requested' /\ Served' /\ Replied'
    BY <1>0 DEF Requested, Served, Replied
  <1>6. RanAsCalled'
    BY <1>0 DEF IInv, RanAsCalled
  <1>7. Completed'
    <2>1. ASSUME NEW j, NEW q, Carries(j, q) PROVE Carries(j, q)'
      BY <1>0, <2>1, CarriesKept
    <2> QED BY <1>0, <1>1, <2>1 DEF IInv, Completed
  <1> QED BY <1>3, <1>4, <1>5, <1>6, <1>7 DEF IInv

LEMMA QuietKeeps ==
    ASSUME IInv, up' \in BOOLEAN,
           UNCHANGED <<call, response, got, requests, serving, replies, retried, crashes,
                       ran, answer>>
    PROVE  IInv'
  <1>1. TypeOK'
    BY DEF IInv, TypeOK
  <1>2. Unasked' /\ Requested' /\ Served' /\ RanAsCalled'
    BY DEF IInv, Unasked, Requested, Served, RanAsCalled, Pending
  <1>3. Replied' /\ Completed'
    <2>1. ASSUME NEW j, NEW q, Carries(j, q) PROVE Carries(j, q)'
      BY <2>1, CarriesKept
    <2> QED BY <2>1 DEF IInv, Replied, Completed
  <1> QED BY <1>1, <1>2, <1>3 DEF IInv

-----------------------------------------------------------------------------
(* The theorems. *)

LEMMA InitInv == Init => IInv
  <1> SUFFICES ASSUME Init PROVE IInv
    OBVIOUS
  <1>1. TypeOK
    BY MaxCrashesType DEF Init, TypeOK
  <1>2. Unasked /\ Requested /\ Served /\ RanAsCalled
    BY DEF Init, Unasked, Requested, Served, RanAsCalled
  <1>3. Replied /\ Completed
    BY DEF Init, Replied, Completed
  <1> QED BY <1>1, <1>2, <1>3 DEF IInv

LEMMA StepInv == IInv /\ [Next]_vars => IInv'
  <1> SUFFICES ASSUME IInv, [Next]_vars PROVE IInv'
    OBVIOUS
  <1>1. ASSUME NEW k \in Calls, NEW i \in Invocations, Begins(k, i) \/ BeginFails(k, i)
        PROVE  IInv'
    BY <1>1, BeginsKeeps, BeginFailsKeeps
  <1>2. ASSUME NEW r \in replies, Receives(r) PROVE IInv'
    BY <1>2, ReceivesKeeps
  <1>3. ASSUME NEW k \in Calls, Ends(k) PROVE IInv'
    BY <1>3, EndsKeeps
  <1>4. CASE Serves
    <2>1. ASSUME NEW m \in requests, Dispatches(m) PROVE IInv'
      BY <2>1, DispatchesKeeps
    <2>2. ASSUME NEW v, Returns(v) PROVE IInv'
      BY <2>2, ReturnsKeeps
    <2>3. ASSUME NEW e \in Errors, Throwing(e) PROVE IInv'
      BY <2>3, ThrowingKeeps
    <2> QED BY <1>4, <2>1, <2>2, <2>3 DEF Serves
  <1>5. ASSUME NEW k \in Calls, ConnectionBreaks(k) PROVE IInv'
    BY <1>5, ConnectionBreaksKeeps
  <1>6. CASE ProcessEnds
    BY <1>6, ProcessEndsKeeps
  <1>7. CASE ProcessRestarts
    BY <1>7, QuietKeeps DEF ProcessRestarts, results, wire, history
  <1>8. CASE UNCHANGED vars
    <2>1. up' \in BOOLEAN
      BY <1>8 DEF vars, IInv, TypeOK
    <2> QED BY <1>8, <2>1, QuietKeeps DEF vars
  <1> QED BY <1>1, <1>2, <1>3, <1>4, <1>5, <1>6, <1>7, <1>8 DEF Next

\* Whatever is lost, repeated or broken off, every variable has its type, and a
\* response and an outcome belong to a call that was made (chat.cpp:1225-2626).
THEOREM TypeCorrect == Spec => []TypeOK
  <1>1. IInv => TypeOK
    BY DEF IInv
  <1> QED BY <1>1, InitInv, StepInv, PTL DEF Spec

LEMMA PromiseInit == Init => Promise!Init
  BY DEF Init, Promise!Init

LEMMA AskStep ==
    ASSUME IInv, NEW k \in Calls, NEW i \in Invocations,
           call[k] = Nothing, call' = [call EXCEPT ![k] = i], UNCHANGED <<ran, answer, got>>
    PROVE  Promise!Ask(k)
  BY DEF Promise!Ask

LEMMA RunStep ==
    ASSUME IInv, NEW m \in requests, Dispatches(m)
    PROVE  Promise!Run(m.from) \/ UNCHANGED Promise!vars
  <1>1. m.from \in Calls /\ call[m.from] # Nothing
    BY RequestFits
  <1>2. /\ ran' = [ran EXCEPT ![m.from] = call[m.from]]
        /\ UNCHANGED <<call, answer, got>>
    BY DispatchesRuns DEF Dispatches, results
  <1>3. CASE ran[m.from] = Nothing
    BY <1>1, <1>2, <1>3 DEF Promise!Run
  <1>4. CASE ran[m.from] # Nothing
    <2>1. ran[m.from] = call[m.from] /\ ran \in [Calls -> Invocations \cup {Nothing}]
      BY <1>1, <1>4 DEF IInv, RanAsCalled, TypeOK
    <2>2. ran' = ran
      BY <1>1, <1>2, <2>1
    <2> QED BY <1>2, <2>2 DEF Promise!vars
  <1> QED BY <1>3, <1>4

LEMMA AnswerStep ==
    ASSUME IInv, serving # Nothing, UNCHANGED <<call, ran, got>>,
           answer[serving.from] # Nothing => answer' = answer,
           \E a \in Promise!Answers(call[serving.from]) :
             answer' = [answer EXCEPT ![serving.from] = a]
    PROVE  Promise!Answer(serving.from) \/ UNCHANGED Promise!vars
  <1>1. ran[serving.from] = call[serving.from] /\ ran[serving.from] # Nothing
    BY ServingFits
  <1>2. CASE answer[serving.from] = Nothing
    BY <1>1, <1>2 DEF Promise!Answer
  <1>3. CASE answer[serving.from] # Nothing
    BY <1>3 DEF Promise!vars
  <1> QED BY <1>2, <1>3

LEMMA EndStep ==
    ASSUME IInv, NEW k \in Calls, Ends(k)
    PROVE  Promise!Deliver(k) \/ Promise!Fail(k)
  <1>1. /\ call[k] # Nothing /\ got[k] = Nothing
        /\ got' = [got EXCEPT ![k] = Outcome(call[k], response[k])]
        /\ UNCHANGED <<call, ran, answer>>
    BY EndsKeeps DEF Ends, history
  <1>2. \/ Carries(k, response[k])
        \/ \E e \in TransportFailures : Outcome(call[k], response[k]) = Exception(e)
    BY EndsKeeps
  <1>3. CASE Carries(k, response[k])
    BY <1>1, <1>3 DEF Carries, Promise!Deliver
  <1>4. CASE \E e \in TransportFailures : Outcome(call[k], response[k]) = Exception(e)
    BY <1>1, <1>4 DEF Promise!Fail, Exception, Promise!Exception, TransportFailures,
       Promise!TransportFailures
  <1> QED BY <1>2, <1>3, <1>4

LEMMA PromiseStep == IInv /\ [Next]_vars => [Promise!Next]_(Promise!vars)
  <1> SUFFICES ASSUME IInv, [Next]_vars PROVE Promise!Next \/ UNCHANGED Promise!vars
    OBVIOUS
  <1>1. ASSUME NEW k \in Calls, NEW i \in Invocations, Begins(k, i) \/ BeginFails(k, i)
        PROVE  Promise!Next
    <2>1. Promise!Ask(k)
      BY <1>1, AskStep DEF Begins, BeginFails, process, history
    <2> QED BY <2>1 DEF Promise!Next
  <1>2. ASSUME NEW r \in replies, Receives(r) PROVE UNCHANGED Promise!vars
    BY <1>2 DEF Receives, history, Promise!vars
  <1>3. ASSUME NEW k \in Calls, Ends(k) PROVE Promise!Next
    BY <1>3, EndStep DEF Promise!Next
  <1>4. ASSUME NEW m \in requests, Dispatches(m) PROVE Promise!Next \/ UNCHANGED Promise!vars
    BY <1>4, RunStep, RequestFits DEF Promise!Next
  <1>5. ASSUME NEW v, Returns(v) PROVE Promise!Next \/ UNCHANGED Promise!vars
    <2>1. UNCHANGED <<call, ran, got>>
      BY <1>5 DEF Returns, Finishes, results
    <2>2. Promise!Answer(serving.from) \/ UNCHANGED Promise!vars
      BY <1>5, <2>1, ReturnsKeeps, AnswerStep
    <2>3. serving.from \in Calls
      BY <1>5, ServingFits DEF Returns
    <2> QED BY <2>2, <2>3 DEF Promise!Next
  <1>6. ASSUME NEW e \in Errors, Throwing(e) PROVE Promise!Next \/ UNCHANGED Promise!vars
    <2>1. UNCHANGED <<call, ran, got>>
      BY <1>6 DEF Throwing, Finishes, results
    <2>2. Promise!Answer(serving.from) \/ UNCHANGED Promise!vars
      BY <1>6, <2>1, ThrowingKeeps, AnswerStep
    <2>3. serving.from \in Calls
      BY <1>6, ServingFits DEF Throwing
    <2> QED BY <2>2, <2>3 DEF Promise!Next
  <1>7. ASSUME NEW k \in Calls, ConnectionBreaks(k) PROVE UNCHANGED Promise!vars
    BY <1>7 DEF ConnectionBreaks, history, Promise!vars
  <1>8. CASE ProcessEnds
    BY <1>8 DEF ProcessEnds, history, Promise!vars
  <1>9. CASE ProcessRestarts
    BY <1>9 DEF ProcessRestarts, results, history, Promise!vars
  <1>10. CASE UNCHANGED vars
    BY <1>10 DEF vars, Promise!vars
  <1> QED BY <1>1, <1>2, <1>3, <1>4, <1>5, <1>6, <1>7, <1>8, <1>9, <1>10 DEF Next, Serves

\* A call through the generated code is a call of RemoteCall: whatever fails, the
\* function that was named runs at most once, on the caller's arguments, and the
\* caller gets its end as chat.ice declares it, or a transport failure
\* (chat.cpp:1225-2626).
THEOREM CallKeepsPromise == Spec => CallKept
  BY PromiseInit, InitInv, StepInv, PromiseStep, PTL DEF Spec, CallKept, Promise!Spec
=============================================================================
