------------------------- MODULE SqrtSessionProofs -------------------------
(***************************************************************************)
(* Proofs about module SqrtSession, for any numbers, any content of the    *)
(* server's stack and any number of requests.                              *)
(*                                                                         *)
(* Neither InStep nor RefusesOnlyForeignIds is inductive. The first rests  *)
(* on the order of the parts in both directions (ServerInStep,             *)
(* ClientInStep): a number follows each header of a root request and no    *)
(* other part, a result follows each header of an answer. The second rests *)
(* on identifiers that the counter has reached wherever they are on their  *)
(* way (Reached). TypeOK needs them too, since a part is read as what its  *)
(* reader takes it for.                                                    *)
(***************************************************************************)
EXTENDS SqrtSession, TLAPS

RootHeader(p) == p.part = "header" /\ p.code = "root"

\* The user's requests are counted once each, one of them perhaps not yet.
Counted ==
    /\ Len(sent) <= MaxRequests
    /\ counter["root"] + counter["date"] + (IF main \in Kinds THEN 1 ELSE 0) = Len(sent)

\* As long as the child reads, what it finds is what it reads for, and a client
\* that runs has sent all of its last request.
ServerInStep ==
    child # "gone" =>
        /\ \A i \in 1 .. Len(toServer) :
             toServer[i].part = "number"
               <=> (IF i = 1 THEN child = "number" ELSE RootHeader(toServer[i - 1]))
        /\ client = "running" =>
             /\ child = "number" => toServer # <<>>
             /\ toServer # <<>> => ~RootHeader(toServer[Len(toServer)])

\* As long as the client reads, what it finds is what it reads for; an answer is
\* sent at once.
ClientInStep ==
    /\ toClient # <<>> => toClient[Len(toClient)].part = "result"
    /\ client = "running" /\ sockfd = "open" =>
         /\ \A i \in 1 .. Len(toClient) :
              toClient[i].part = "result"
                <=> (IF i = 1 THEN receiver \in {"check", "body"} ELSE toClient[i - 1].part = "header")
         /\ receiver \in {"check", "body"} /\ child # "gone" => toClient # <<>>

\* No identifier of a request is ahead of its counter, wherever it is.
Reached ==
    /\ \A i \in 1 .. Len(toServer) :
         toServer[i].part = "header" => toServer[i].id \in 0 .. counter[toServer[i].code]
    /\ serving.asked \in 0 .. counter[serving.kind]
    /\ \A i \in 1 .. Len(toClient) :
         toClient[i].part = "header" =>
           /\ toClient[i].code \in Kinds
           /\ toClient[i].asked \in 0 .. counter[toClient[i].code]
    /\ header.code \in Kinds => header.asked = NoId \/ header.asked \in 0 .. counter[header.code]

IInv ==
    /\ TypeOK
    /\ Counted
    /\ ServerInStep
    /\ ClientInStep
    /\ Reached
    /\ RefusesOnlyForeignIds

-----------------------------------------------------------------------------
(* Sequences of parts, and what the parts of the two directions are. *)

LEMMA FirstPart ==
    ASSUME NEW S, NEW q \in Seq(S), q # <<>>
    PROVE  /\ Head(q) = q[1] /\ Head(q) \in S /\ Len(q) \in Nat /\ Len(q) >= 1
           /\ Tail(q) \in Seq(S) /\ Len(Tail(q)) = Len(q) - 1
           /\ \A i \in 1 .. Len(q) - 1 : Tail(q)[i] = q[i + 1]
  OBVIOUS

LEMMA Elements ==
    ASSUME NEW S, NEW q \in Seq(S)
    PROVE  /\ Len(q) \in Nat /\ \A i \in 1 .. Len(q) : q[i] \in S
           /\ q # <<>> <=> Len(q) >= 1
  OBVIOUS

LEMMA OneMore ==
    ASSUME NEW S, NEW q \in Seq(S), NEW a \in S
    PROVE  /\ q \o <<a>> \in Seq(S) /\ Len(q) \in Nat /\ Len(q \o <<a>>) = Len(q) + 1
           /\ \A i \in 1 .. Len(q) : (q \o <<a>>)[i] = q[i]
           /\ (q \o <<a>>)[Len(q) + 1] = a
  OBVIOUS

LEMMA NoMore == ASSUME NEW S, NEW q \in Seq(S) PROVE q \o <<>> = q
  OBVIOUS

LEMMA TwoMore ==
    ASSUME NEW S, NEW q \in Seq(S), NEW a \in S, NEW b \in S
    PROVE  /\ q \o <<a, b>> \in Seq(S) /\ Len(q) \in Nat /\ Len(q \o <<a, b>>) = Len(q) + 2
           /\ \A i \in 1 .. Len(q) : (q \o <<a, b>>)[i] = q[i]
           /\ (q \o <<a, b>>)[Len(q) + 1] = a
           /\ (q \o <<a, b>>)[Len(q) + 2] = b
  OBVIOUS

LEMMA NoneLeft == ASSUME NEW S PROVE <<>> \in Seq(S) /\ Len(<<>>) = 0
  OBVIOUS

LEMMA RequestPart ==
    ASSUME NEW p \in RequestParts
    PROVE  /\ p.part \in {"header", "number"}
           /\ p.part = "header" => p.code \in Kinds /\ p.id \in 0 .. MaxRequests
           /\ p.part = "number" => p.number \in Numbers
  BY DEF RequestParts

LEMMA AnswerPart ==
    ASSUME NEW p \in AnswerParts
    PROVE  /\ p.part \in {"header", "result"}
           /\ p.part = "header" => p \in AnswerHeaders
           /\ p.part = "result" => p.kind \in Kinds /\ p.number \in Numbers \cup {NoNumber}
  BY DEF AnswerParts, AnswerHeaders, Results

\* The parts of TypeOK that the steps look at.
LEMMA Typed ==
    ASSUME TypeOK
    PROVE  /\ toServer \in Seq(RequestParts) /\ toClient \in Seq(AnswerParts)
           /\ Len(toServer) \in Nat /\ Len(toClient) \in Nat
           /\ MaxRequests \in Nat
           /\ \A k \in Kinds : counter[k] \in 0 .. MaxRequests /\ counter[k] \in Nat
           /\ serving.kind \in Kinds /\ serving.asked \in 0 .. MaxRequests
           /\ serving.number \in Numbers \cup {NoNumber} /\ serving.id \in StackValues \cup {0}
           /\ Len(sent) \in Nat
  <1>1. MaxRequests \in Nat
    BY MaxRequestsType
  <1>2. toServer \in Seq(RequestParts) /\ toClient \in Seq(AnswerParts)
    BY DEF TypeOK
  <1>3. \A k \in Kinds : counter[k] \in 0 .. MaxRequests
    BY DEF TypeOK
  <1>4. /\ serving.kind \in Kinds /\ serving.asked \in 0 .. MaxRequests
        /\ serving.number \in Numbers \cup {NoNumber} /\ serving.id \in StackValues \cup {0}
    BY DEF TypeOK, Tasks
  <1>5. sent \in Seq(Requests)
    BY DEF TypeOK
  <1> QED BY <1>1, <1>2, <1>3, <1>4, <1>5

LEMMA Differ == "root" # "date" /\ Kinds = {"root", "date"} /\ "other" \notin Kinds
  BY DEF Kinds

-----------------------------------------------------------------------------
(* The steps of the two ends of the connection. *)

\* A request is written whole behind whole requests.
LEMMA SendsInv ==
    ASSUME IInv, NEW r \in Requests, Sends(r) PROVE IInv'
  <1> DEFINE h == RequestHeader(r.kind, counter[r.kind])
             n == Number(r.number)
             q == toServer \o <<h>>
  <1>1. /\ toServer \in Seq(RequestParts) /\ Len(toServer) \in Nat /\ MaxRequests \in Nat
        /\ client = "running" /\ main = "menu" /\ Len(sent) < MaxRequests /\ Len(sent) \in Nat
        /\ sent' = Append(sent, r) /\ main' = r.kind
        /\ UNCHANGED <<counter, should_run, sockfd, receiver, header, shown, babbled, client,
                       child, serving, toClient>>
    BY Typed DEF IInv, Sends, reader, server
  <1>2. /\ r.kind \in Kinds /\ counter[r.kind] \in 0 .. MaxRequests /\ counter[r.kind] \in Nat
        /\ r.kind = "root" => r.number \in Numbers
    BY Typed DEF IInv, Requests, Kinds
  <1>3. h \in RequestParts /\ h.part = "header" /\ h.code = r.kind /\ h.id = counter[r.kind]
    BY <1>2 DEF RequestParts, RequestHeader
  <1>4. r.kind = "root" => n \in RequestParts /\ n.part = "number"
    BY <1>2 DEF RequestParts, Number
  <1>5. /\ q \in Seq(RequestParts) /\ Len(q) = Len(toServer) + 1
        /\ \A i \in 1 .. Len(toServer) : q[i] = toServer[i]
        /\ q[Len(toServer) + 1] = h
    BY <1>1, <1>3, OneMore
  <1>6. \/ r.kind = "date" /\ toServer' = q
        \/ /\ r.kind = "root"
           /\ toServer' = q \o <<n>>
           /\ toServer' \in Seq(RequestParts) /\ Len(toServer') = Len(q) + 1
           /\ \A i \in 1 .. Len(q) : toServer'[i] = q[i]
           /\ toServer'[Len(q) + 1] = n
    <2>1. CASE r.kind = "root"
      <3>1. toServer' = q \o <<n>>
        BY <2>1 DEF Sends
      <3> HIDE DEF q, n
      <3> QED BY <2>1, <3>1, <1>4, <1>5, OneMore
    <2>2. CASE r.kind = "date"
      <3>1. toServer' = q \o <<>>
        BY <2>2 DEF Sends
      <3> HIDE DEF q
      <3> QED BY <2>2, <3>1, <1>5, NoMore
    <2> QED BY <1>2, <2>1, <2>2 DEF Kinds
  <1> HIDE DEF h, n, q
  <1>7. TypeOK'
    <2>1. toServer' \in Seq(RequestParts)
      BY <1>5, <1>6
    <2>2. sent' \in Seq(Requests)
      BY <1>1 DEF IInv, TypeOK
    <2> QED BY <1>1, <1>2, <2>1, <2>2 DEF IInv, TypeOK
  <1>8. Counted'
    <2>1. Len(sent') = Len(sent) + 1
      BY <1>1 DEF IInv, TypeOK
    <2>2. counter["root"] \in Nat /\ counter["date"] \in Nat
      BY Typed DEF IInv, Kinds
    <2>3. counter["root"] + counter["date"] = Len(sent)
      BY <1>1, <2>2 DEF IInv, Counted, Kinds
    <2>4. main' \in Kinds /\ counter' = counter
      BY <1>1, <1>2
    <2> QED BY <1>1, <2>1, <2>2, <2>3, <2>4 DEF Counted
  <1>9. ASSUME child # "gone" PROVE
          /\ child = "number" => Len(toServer) >= 1
          /\ Len(toServer) >= 1 => ~RootHeader(toServer[Len(toServer)])
          /\ \A i \in 1 .. Len(toServer) :
               toServer[i].part = "number"
                 <=> (IF i = 1 THEN child = "number" ELSE RootHeader(toServer[i - 1]))
    BY <1>1, <1>9, Elements DEF IInv, ServerInStep
  <1>10. ServerInStep'
    <2> SUFFICES ASSUME child # "gone" PROVE ServerInStep'
      BY <1>1 DEF ServerInStep
    <2>1. /\ Len(toServer') \in Nat /\ Len(toServer') >= Len(toServer) + 1
          /\ \A i \in 1 .. Len(toServer) : toServer'[i] = toServer[i]
          /\ toServer'[Len(toServer) + 1] = h
          /\ Len(toServer') > Len(toServer) + 1 =>
               /\ Len(toServer') = Len(toServer) + 2 /\ r.kind = "root"
               /\ toServer'[Len(toServer) + 2] = n
          /\ Len(toServer') = Len(toServer) + 1 => r.kind = "date"
      BY <1>1, <1>5, <1>6
    <2>2. ASSUME NEW i \in 1 .. Len(toServer')
          PROVE  toServer'[i].part = "number"
                   <=> (IF i = 1 THEN child = "number" ELSE RootHeader(toServer'[i - 1]))
      <3>1. CASE i <= Len(toServer)
        <4>1. i \in 1 .. Len(toServer) /\ (i # 1 => i - 1 \in 1 .. Len(toServer))
          BY <1>1, <3>1
        <4> QED BY <1>9, <2>1, <4>1
      <3>2. CASE i = Len(toServer) + 1
        <4>1. toServer'[i].part = "header"
          BY <1>3, <2>1, <3>2
        <4>2. CASE i = 1
          BY <1>1, <1>9, <3>2, <4>1, <4>2
        <4>3. CASE i # 1
          <5>1. i - 1 = Len(toServer) /\ Len(toServer) >= 1 /\ i - 1 \in 1 .. Len(toServer)
            BY <1>1, <3>2, <4>3
          <5> QED BY <1>9, <2>1, <4>1, <4>3, <5>1
        <4> QED BY <4>2, <4>3
      <3>3. CASE i = Len(toServer) + 2
        <4>1. r.kind = "root" /\ toServer'[i] = n /\ i # 1 /\ i - 1 = Len(toServer) + 1
          BY <1>1, <2>1, <3>3
        <4>2. RootHeader(h) /\ n.part = "number"
          BY <1>3, <1>4, <4>1 DEF RootHeader
        <4> QED BY <2>1, <4>1, <4>2
      <3> QED BY <1>1, <2>1, <3>1, <3>2, <3>3
    <2>3. ~RootHeader(toServer'[Len(toServer')])
      BY <1>1, <1>3, <1>4, <2>1 DEF RootHeader
    <2>4. toServer' # <<>>
      BY <1>1, <2>1, NoneLeft
    <2> QED BY <1>1, <2>2, <2>3, <2>4 DEF ServerInStep
  <1>11. ClientInStep'
    BY <1>1 DEF IInv, ClientInStep
  <1>12. Reached'
    <2>1. \A i \in 1 .. Len(toServer') :
            toServer'[i].part = "header" => toServer'[i].id \in 0 .. counter[toServer'[i].code]
      <3> SUFFICES ASSUME NEW i \in 1 .. Len(toServer'), toServer'[i].part = "header"
                   PROVE  toServer'[i].id \in 0 .. counter[toServer'[i].code]
        OBVIOUS
      <3>1. i \in 1 .. Len(toServer) \/ i = Len(toServer) + 1
        BY <1>1, <1>4, <1>5, <1>6
      <3>2. toServer'[i] = IF i = Len(toServer) + 1 THEN h ELSE toServer[i]
        BY <1>1, <1>5, <1>6, <3>1
      <3> QED BY <1>2, <1>3, <3>1, <3>2 DEF IInv, Reached
    <2> QED BY <1>1, <2>1 DEF IInv, Reached
  <1>13. RefusesOnlyForeignIds'
    BY <1>1 DEF RefusesOnlyForeignIds
  <1> QED BY <1>7, <1>8, <1>10, <1>11, <1>12, <1>13 DEF IInv

\* The counter reaches the identifier of the request that was just sent.
LEMMA CountsInv ==
    ASSUME IInv, CountsRequest PROVE IInv'
  <1>1. /\ main \in Kinds /\ main' = "menu" /\ counter' = [counter EXCEPT ![main] = @ + 1]
        /\ UNCHANGED <<should_run, sockfd, receiver, header, shown, babbled, client, child, serving,
                       toServer, toClient, sent>>
    BY DEF CountsRequest, reader, server, wire
  <1>2. /\ toServer \in Seq(RequestParts) /\ MaxRequests \in Nat
        /\ counter["root"] \in Nat /\ counter["date"] \in Nat /\ Len(sent) \in Nat
        /\ serving.kind \in Kinds
    BY Typed DEF IInv, Kinds
  <1>3. \A k \in Kinds : counter[k] \in Nat /\ counter'[k] = IF k = main THEN counter[k] + 1 ELSE counter[k]
    <2>1. \A k \in Kinds : counter'[k] = IF k = main THEN counter[k] + 1 ELSE counter[k]
      BY <1>1 DEF IInv, TypeOK
    <2> QED BY <1>2, <2>1 DEF Kinds
  <1>4. counter["root"] + counter["date"] + 1 = Len(sent) /\ Len(sent) <= MaxRequests
    BY <1>1 DEF IInv, Counted
  <1>5. counter'["root"] + counter'["date"] = Len(sent)
    <2>1. CASE main = "root"
      <3>1. counter'["root"] = counter["root"] + 1 /\ counter'["date"] = counter["date"]
        BY <1>3, <2>1, Differ
      <3> QED BY <1>2, <1>4, <3>1
    <2>2. CASE main = "date"
      <3>1. counter'["date"] = counter["date"] + 1 /\ counter'["root"] = counter["root"]
        BY <1>3, <2>2, Differ
      <3> QED BY <1>2, <1>4, <3>1
    <2> QED BY <1>1, <2>1, <2>2 DEF Kinds
  <1>6. counter' \in [Kinds -> 0 .. MaxRequests]
    <2>1. \A k \in Kinds : counter'[k] \in Nat
      BY <1>3
    <2>2. \A k \in Kinds : counter'[k] \in 0 .. MaxRequests
      BY <1>2, <1>4, <1>5, <2>1 DEF Kinds
    <2>3. counter' = [k \in Kinds |-> counter'[k]]
      BY <1>1 DEF IInv, TypeOK
    <2> QED BY <2>2, <2>3
  <1>7. TypeOK'
    <2>1. main' \in {"menu", "leaving"} \cup Kinds
      BY <1>1
    <2>2. UNCHANGED <<should_run, sockfd, receiver, header, client, child, serving, toServer, toClient,
                      sent, shown, babbled>>
      BY <1>1
    <2>3. UNCHANGED <<serving, toServer, toClient, sent, shown, header>>
      BY <1>1
    <2> QED BY <1>6, <2>1, <2>2, <2>3 DEF IInv, TypeOK
  <1>8. Counted'
    <2>1. main' \notin Kinds
      BY <1>1 DEF Kinds
    <2>2. counter'["root"] + counter'["date"] + 0 = Len(sent)
      BY <1>2, <1>5
    <2> QED BY <1>1, <1>4, <2>1, <2>2 DEF Counted
  <1>9. ServerInStep' /\ ClientInStep' /\ RefusesOnlyForeignIds'
    BY <1>1 DEF IInv, ServerInStep, ClientInStep, RefusesOnlyForeignIds
  <1>10. \A k \in Kinds : \A a : a \in 0 .. counter[k] => a \in 0 .. counter'[k]
    BY <1>3
  <1>11. \A i \in 1 .. Len(toServer) : toServer[i].part = "header" => toServer[i].code \in Kinds
    BY <1>2, Elements, RequestPart
  <1>12. Reached'
    BY <1>1, <1>2, <1>10, <1>11 DEF IInv, Reached
  <1> QED BY <1>7, <1>8, <1>9, <1>12 DEF IInv

\* The child takes a header, and then is where its request's next part is.
LEMMA ChildReadsHeaderInv ==
    ASSUME IInv, ChildReadsHeader PROVE IInv'
  <1>1. /\ child = "header" /\ toServer # <<>> /\ toServer' = Tail(toServer)
        /\ child' = (IF Head(toServer).code = "root" THEN "number" ELSE "answer")
        /\ UNCHANGED <<counter, should_run, main, sent, sockfd, receiver, header, shown, babbled,
                       client, toClient>>
    BY DEF ChildReadsHeader, sender, reader
  <1>2. PICK i \in StackValues :
          serving' = [kind |-> Head(toServer).code, number |-> NoNumber, id |-> i,
                      asked |-> Head(toServer).id]
    BY DEF ChildReadsHeader
  <1>3. /\ Head(toServer) = toServer[1] /\ toServer[1] \in RequestParts
        /\ Len(toServer) \in Nat /\ Len(toServer) >= 1
        /\ toServer' \in Seq(RequestParts) /\ Len(toServer') = Len(toServer) - 1
        /\ \A j \in 1 .. Len(toServer) - 1 : toServer'[j] = toServer[j + 1]
    BY <1>1, Typed, FirstPart DEF IInv
  <1>4. \A j \in 1 .. Len(toServer) :
          toServer[j].part = "number"
            <=> (IF j = 1 THEN child = "number" ELSE RootHeader(toServer[j - 1]))
    BY <1>1 DEF IInv, ServerInStep
  <1>5. /\ toServer[1].part = "header" /\ toServer[1].code \in Kinds
        /\ toServer[1].id \in 0 .. MaxRequests
        /\ RootHeader(toServer[1]) <=> toServer[1].code = "root"
    <2>1. toServer[1].part # "number"
      BY <1>1, <1>3, <1>4
    <2> QED BY <1>3, <2>1, RequestPart DEF RootHeader
  <1>6. TypeOK'
    <2>1. serving' \in Tasks
      BY <1>2, <1>3, <1>5 DEF Tasks
    <2>2. child' \in {"header", "number", "answer", "gone"}
      BY <1>1
    <2> QED BY <1>1, <1>3, <2>1, <2>2 DEF IInv, TypeOK
  <1>7. ServerInStep'
    <2>1. ASSUME NEW j \in 1 .. Len(toServer')
          PROVE  toServer'[j].part = "number"
                   <=> (IF j = 1 THEN child' = "number" ELSE RootHeader(toServer'[j - 1]))
      <3>1. j + 1 \in 1 .. Len(toServer) /\ j \in 1 .. Len(toServer) - 1 /\ (j + 1) - 1 = j /\ j + 1 # 1
        BY <1>3
      <3>2. toServer'[j].part = "number" <=> RootHeader(toServer[j])
        BY <1>3, <1>4, <3>1
      <3>3. CASE j = 1
        BY <1>1, <1>3, <1>5, <3>2, <3>3
      <3>4. CASE j # 1
        <4>1. j - 1 \in 1 .. Len(toServer) - 1 /\ (j - 1) + 1 = j
          BY <1>3, <3>4
        <4>2. toServer'[j - 1] = toServer[j]
          BY <1>3, <4>1
        <4> QED BY <3>2, <3>4, <4>2
      <3> QED BY <3>3, <3>4
    <2>2. ASSUME client = "running"
          PROVE  /\ child' = "number" => toServer' # <<>>
                 /\ toServer' # <<>> => ~RootHeader(toServer'[Len(toServer')])
      <3>1. ~RootHeader(toServer[Len(toServer)])
        BY <1>1, <2>2 DEF IInv, ServerInStep
      <3>2. child' = "number" => Len(toServer) # 1
        BY <1>1, <1>3, <1>5, <3>1
      <3>3. toServer' # <<>> => Len(toServer') >= 1
        BY <1>3, Elements
      <3>4. Len(toServer') >= 1 => toServer'[Len(toServer')] = toServer[Len(toServer)]
        BY <1>3
      <3>5. child' = "number" => toServer' # <<>>
        BY <1>3, <3>2, NoneLeft
      <3> QED BY <3>1, <3>3, <3>4, <3>5
    <2> QED BY <1>1, <2>1, <2>2 DEF ServerInStep
  <1>8. Reached'
    <2>1. serving'.asked \in 0 .. counter[serving'.kind]
      BY <1>2, <1>3, <1>5 DEF IInv, Reached
    <2>2. \A j \in 1 .. Len(toServer') :
            toServer'[j].part = "header" => toServer'[j].id \in 0 .. counter[toServer'[j].code]
      <3> SUFFICES ASSUME NEW j \in 1 .. Len(toServer')
                   PROVE  toServer'[j].part = "header" => toServer'[j].id \in 0 .. counter[toServer'[j].code]
        OBVIOUS
      <3>1. j + 1 \in 1 .. Len(toServer) /\ toServer'[j] = toServer[j + 1]
        BY <1>3
      <3> QED BY <3>1 DEF IInv, Reached
    <2> QED BY <1>1, <2>1, <2>2 DEF IInv, Reached
  <1>9. Counted' /\ ClientInStep' /\ RefusesOnlyForeignIds'
    <2>1. child # "gone" /\ child' # "gone"
      BY <1>1
    <2> QED BY <1>1, <2>1 DEF IInv, Counted, ClientInStep, RefusesOnlyForeignIds
  <1> QED BY <1>6, <1>7, <1>8, <1>9 DEF IInv

\* The child takes the number of the request it works on.
LEMMA ChildReadsNumberInv ==
    ASSUME IInv, ChildReadsNumber PROVE IInv'
  <1>1. /\ child = "number" /\ toServer # <<>> /\ toServer' = Tail(toServer) /\ child' = "answer"
        /\ serving' = [serving EXCEPT !.number = Head(toServer).number]
        /\ UNCHANGED <<counter, should_run, main, sent, sockfd, receiver, header, shown, babbled,
                       client, toClient>>
    BY DEF ChildReadsNumber, sender, reader
  <1>2. /\ Head(toServer) = toServer[1] /\ toServer[1] \in RequestParts
        /\ Len(toServer) \in Nat /\ Len(toServer) >= 1
        /\ toServer' \in Seq(RequestParts) /\ Len(toServer') = Len(toServer) - 1
        /\ \A j \in 1 .. Len(toServer) - 1 : toServer'[j] = toServer[j + 1]
    BY <1>1, Typed, FirstPart DEF IInv
  <1>3. \A j \in 1 .. Len(toServer) :
          toServer[j].part = "number"
            <=> (IF j = 1 THEN child = "number" ELSE RootHeader(toServer[j - 1]))
    BY <1>1 DEF IInv, ServerInStep
  <1>4. toServer[1].part = "number" /\ toServer[1].number \in Numbers
    <2>1. toServer[1].part = "number"
      BY <1>1, <1>2, <1>3
    <2> QED BY <1>2, <2>1, RequestPart
  <1>5. ~RootHeader(toServer[1])
    BY <1>4 DEF RootHeader
  <1>6. TypeOK'
    <2>1. serving' \in Tasks
      BY <1>1, <1>2, <1>4 DEF IInv, TypeOK, Tasks
    <2>2. child' \in {"header", "number", "answer", "gone"}
      BY <1>1
    <2> QED BY <1>1, <1>2, <2>1, <2>2 DEF IInv, TypeOK
  <1>7. ServerInStep'
    <2>1. ASSUME NEW j \in 1 .. Len(toServer')
          PROVE  toServer'[j].part = "number"
                   <=> (IF j = 1 THEN child' = "number" ELSE RootHeader(toServer'[j - 1]))
      <3>1. j + 1 \in 1 .. Len(toServer) /\ j \in 1 .. Len(toServer) - 1 /\ (j + 1) - 1 = j /\ j + 1 # 1
        BY <1>2
      <3>2. toServer'[j].part = "number" <=> RootHeader(toServer[j])
        BY <1>2, <1>3, <3>1
      <3>3. CASE j = 1
        BY <1>1, <1>5, <3>2, <3>3
      <3>4. CASE j # 1
        <4>1. j - 1 \in 1 .. Len(toServer) - 1 /\ (j - 1) + 1 = j
          BY <1>2, <3>4
        <4>2. toServer'[j - 1] = toServer[j]
          BY <1>2, <4>1
        <4> QED BY <3>2, <3>4, <4>2
      <3> QED BY <3>3, <3>4
    <2>2. ASSUME client = "running", toServer' # <<>>
          PROVE  ~RootHeader(toServer'[Len(toServer')])
      <3>1. ~RootHeader(toServer[Len(toServer)])
        BY <1>1, <2>2 DEF IInv, ServerInStep
      <3>2. Len(toServer') >= 1
        BY <1>2, <2>2, Elements
      <3>3. toServer'[Len(toServer')] = toServer[Len(toServer)]
        BY <1>2, <3>2
      <3> QED BY <3>1, <3>3
    <2> QED BY <1>1, <2>1, <2>2 DEF ServerInStep
  <1>8. Reached'
    <2>1. serving'.asked = serving.asked /\ serving'.kind = serving.kind
      BY <1>1 DEF IInv, TypeOK, Tasks
    <2>2. \A j \in 1 .. Len(toServer') :
            toServer'[j].part = "header" => toServer'[j].id \in 0 .. counter[toServer'[j].code]
      <3> SUFFICES ASSUME NEW j \in 1 .. Len(toServer')
                   PROVE  toServer'[j].part = "header" => toServer'[j].id \in 0 .. counter[toServer'[j].code]
        OBVIOUS
      <3>1. j + 1 \in 1 .. Len(toServer) /\ toServer'[j] = toServer[j + 1]
        BY <1>2
      <3> QED BY <3>1 DEF IInv, Reached
    <2> QED BY <1>1, <2>1, <2>2 DEF IInv, Reached
  <1>9. Counted' /\ ClientInStep' /\ RefusesOnlyForeignIds'
    <2>1. child # "gone" /\ child' # "gone"
      BY <1>1
    <2> QED BY <1>1, <2>1 DEF IInv, Counted, ClientInStep, RefusesOnlyForeignIds
  <1> QED BY <1>6, <1>7, <1>8, <1>9 DEF IInv

\* An answer is written whole behind whole answers.
LEMMA ChildAnswersInv ==
    ASSUME IInv, ChildAnswers PROVE IInv'
  <1> DEFINE h == AnswerHeader(serving.kind, serving.id, serving.asked)
             r == Result(serving.kind, serving.number)
  <1>1. /\ child = "answer" /\ child' = "header" /\ toClient' = toClient \o <<h, r>>
        /\ UNCHANGED <<counter, should_run, main, sent, sockfd, receiver, header, shown, babbled,
                       client, serving, toServer>>
    BY DEF ChildAnswers, sender, reader
  <1>2. /\ toClient \in Seq(AnswerParts) /\ Len(toClient) \in Nat /\ MaxRequests \in Nat
        /\ serving.kind \in Kinds /\ serving.asked \in 0 .. counter[serving.kind]
        /\ serving.asked \in 0 .. MaxRequests
    BY Typed DEF IInv, Reached
  <1>3. /\ h \in AnswerParts /\ h.part = "header" /\ h.code = serving.kind /\ h.asked = serving.asked
        /\ r \in AnswerParts /\ r.part = "result"
    <2>1. serving.id \in Ids /\ serving.asked \in Ids
      BY <1>2, Typed DEF IInv, Ids
    <2>2. h \in AnswerHeaders /\ h.part = "header" /\ h.code = serving.kind /\ h.asked = serving.asked
      BY <1>2, <2>1 DEF AnswerHeader, AnswerHeaders
    <2>3. r \in Results /\ r.part = "result"
      BY <1>2, Typed DEF IInv, Result, Results
    <2> QED BY <2>2, <2>3 DEF AnswerParts
  <1> HIDE DEF h, r
  <1>4. /\ toClient' \in Seq(AnswerParts) /\ Len(toClient') = Len(toClient) + 2
        /\ \A i \in 1 .. Len(toClient) : toClient'[i] = toClient[i]
        /\ toClient'[Len(toClient) + 1] = h
        /\ toClient'[Len(toClient) + 2] = r
    BY <1>1, <1>2, <1>3, TwoMore
  <1>5. TypeOK'
    BY <1>1, <1>4 DEF IInv, TypeOK
  <1>6. ClientInStep'
    <2>1. toClient' # <<>>
      BY <1>2, <1>4, NoneLeft
    <2>2. ASSUME client = "running", sockfd = "open", NEW i \in 1 .. Len(toClient')
          PROVE  toClient'[i].part = "result"
                   <=> (IF i = 1 THEN receiver \in {"check", "body"} ELSE toClient'[i - 1].part = "header")
      <3>1. \A j \in 1 .. Len(toClient) :
              toClient[j].part = "result"
                <=> (IF j = 1 THEN receiver \in {"check", "body"} ELSE toClient[j - 1].part = "header")
        BY <2>2 DEF IInv, ClientInStep
      <3>2. CASE i <= Len(toClient)
        <4>1. i \in 1 .. Len(toClient) /\ (i # 1 => i - 1 \in 1 .. Len(toClient))
          BY <1>2, <3>2
        <4> QED BY <1>4, <3>1, <4>1
      <3>3. CASE i = Len(toClient) + 1
        <4>1. toClient'[i].part # "result"
          BY <1>3, <1>4, <3>3
        <4>2. CASE i = 1
          <5>1. toClient = <<>>
            BY <1>2, <3>3, <4>2, Elements
          <5>2. receiver \notin {"check", "body"}
            BY <1>1, <2>2, <5>1 DEF IInv, ClientInStep
          <5> QED BY <4>1, <4>2, <5>2
        <4>3. CASE i # 1
          <5>1. i - 1 = Len(toClient) /\ i - 1 \in 1 .. Len(toClient) /\ toClient # <<>>
            BY <1>2, <3>3, <4>3, NoneLeft
          <5>2. toClient'[i - 1].part = "result"
            BY <1>4, <5>1 DEF IInv, ClientInStep
          <5> QED BY <4>1, <4>3, <5>2
        <4> QED BY <4>2, <4>3
      <3>4. CASE i = Len(toClient) + 2
        <4>1. i # 1 /\ toClient'[i].part = "result" /\ toClient'[i - 1].part = "header"
          BY <1>2, <1>3, <1>4, <3>4
        <4> QED BY <4>1
      <3> QED BY <1>2, <1>4, <3>2, <3>3, <3>4
    <2>3. toClient'[Len(toClient')].part = "result"
      BY <1>3, <1>4
    <2> QED BY <1>1, <2>1, <2>2, <2>3 DEF ClientInStep
  <1>7. Reached'
    <2>1. ASSUME NEW i \in 1 .. Len(toClient'), toClient'[i].part = "header"
          PROVE  toClient'[i].code \in Kinds /\ toClient'[i].asked \in 0 .. counter[toClient'[i].code]
      <3>1. i \in 1 .. Len(toClient) \/ i = Len(toClient) + 1
        BY <1>2, <1>3, <1>4, <2>1
      <3>2. toClient'[i] = IF i = Len(toClient) + 1 THEN h ELSE toClient[i]
        BY <1>2, <1>4, <3>1
      <3> QED BY <1>2, <1>3, <2>1, <3>1, <3>2 DEF IInv, Reached
    <2> QED BY <1>1, <2>1 DEF IInv, Reached
  <1>8. Counted' /\ ServerInStep' /\ RefusesOnlyForeignIds'
    <2>1. child # "gone" /\ child # "number" /\ child' # "number"
      BY <1>1
    <2> QED BY <1>1, <2>1 DEF IInv, Counted, ServerInStep, RefusesOnlyForeignIds
  <1> QED BY <1>5, <1>6, <1>7, <1>8 DEF IInv

\* The client takes a header, and then is in front of a result.
LEMMA ReadsHeaderInv ==
    ASSUME IInv, ReadsHeader PROVE IInv'
  <1>1. /\ client = "running" /\ receiver = "header" /\ sockfd = "open" /\ toClient # <<>>
        /\ header' = Head(toClient) /\ toClient' = Tail(toClient) /\ receiver' = "check"
        /\ UNCHANGED <<counter, should_run, main, sent, sockfd, shown, babbled, client, child, serving,
                       toServer>>
    BY DEF ReadsHeader, sender, printed, server
  <1>2. /\ Head(toClient) = toClient[1] /\ toClient[1] \in AnswerParts
        /\ Len(toClient) \in Nat /\ Len(toClient) >= 1
        /\ toClient' \in Seq(AnswerParts) /\ Len(toClient') = Len(toClient) - 1
        /\ \A j \in 1 .. Len(toClient) - 1 : toClient'[j] = toClient[j + 1]
    BY <1>1, Typed, FirstPart DEF IInv
  <1>3. /\ \A j \in 1 .. Len(toClient) :
             toClient[j].part = "result"
               <=> (IF j = 1 THEN receiver \in {"check", "body"} ELSE toClient[j - 1].part = "header")
        /\ toClient[Len(toClient)].part = "result"
    BY <1>1 DEF IInv, ClientInStep
  <1>4. toClient[1].part = "header" /\ toClient[1] \in AnswerHeaders
    <2>1. toClient[1].part # "result"
      BY <1>1, <1>2, <1>3
    <2> QED BY <1>2, <2>1, AnswerPart
  <1>5. Len(toClient) >= 2
    BY <1>2, <1>3, <1>4
  <1>6. TypeOK'
    <2>1. receiver' \in {"start", "header", "check", "body", "done"} /\ header' \in AnswerHeaders
      BY <1>1, <1>2, <1>4
    <2> QED BY <1>1, <1>2, <2>1 DEF IInv, TypeOK
  <1>7. ClientInStep'
    <2>1. toClient' # <<>>
      BY <1>2, <1>5, NoneLeft
    <2>2. ASSUME NEW j \in 1 .. Len(toClient')
          PROVE  toClient'[j].part = "result"
                   <=> (IF j = 1 THEN receiver' \in {"check", "body"} ELSE toClient'[j - 1].part = "header")
      <3>1. j + 1 \in 1 .. Len(toClient) /\ j \in 1 .. Len(toClient) - 1 /\ (j + 1) - 1 = j /\ j + 1 # 1
        BY <1>2
      <3>2. toClient'[j].part = "result" <=> toClient[j].part = "header"
        <4>1. toClient[j + 1].part = "result" <=> toClient[(j + 1) - 1].part = "header"
          BY <1>3, <3>1
        <4>2. toClient'[j] = toClient[j + 1] /\ toClient[(j + 1) - 1] = toClient[j]
          BY <1>2, <3>1
        <4> QED BY <4>1, <4>2
      <3>3. CASE j = 1
        BY <1>1, <1>4, <3>2, <3>3
      <3>4. CASE j # 1
        <4>1. j - 1 \in 1 .. Len(toClient) - 1 /\ (j - 1) + 1 = j
          BY <1>2, <3>4
        <4>2. toClient'[j - 1] = toClient[j]
          BY <1>2, <4>1
        <4> QED BY <3>2, <3>4, <4>2
      <3> QED BY <3>3, <3>4
    <2>3. toClient'[Len(toClient')] = toClient[Len(toClient)]
      BY <1>2, <1>5
    <2> QED BY <1>3, <2>1, <2>2, <2>3 DEF ClientInStep
  <1>8. Reached'
    <2>1. ASSUME NEW j \in 1 .. Len(toClient')
          PROVE  toClient'[j].part = "header" =>
                   /\ toClient'[j].code \in Kinds
                   /\ toClient'[j].asked \in 0 .. counter[toClient'[j].code]
      <3>1. j + 1 \in 1 .. Len(toClient) /\ toClient'[j] = toClient[j + 1]
        BY <1>2
      <3> QED BY <3>1 DEF IInv, Reached
    <2>2. header'.asked \in 0 .. counter[header'.code]
      BY <1>1, <1>2, <1>4 DEF IInv, Reached
    <2> QED BY <1>1, <2>1, <2>2 DEF IInv, Reached
  <1>9. Counted' /\ ServerInStep' /\ RefusesOnlyForeignIds'
    BY <1>1 DEF IInv, Counted, ServerInStep, RefusesOnlyForeignIds
  <1> QED BY <1>6, <1>7, <1>8, <1>9 DEF IInv

\* The client takes a result, and then is in front of a header.
LEMMA ShowsAnswerInv ==
    ASSUME IInv, ShowsAnswer PROVE IInv'
  <1>1. /\ client = "running" /\ receiver = "body" /\ sockfd = "open" /\ toClient # <<>>
        /\ shown' = Append(shown, [kind |-> Head(toClient).kind, number |-> Head(toClient).number])
        /\ toClient' = Tail(toClient) /\ receiver' \in {"header", "done"}
        /\ UNCHANGED <<counter, should_run, main, sent, sockfd, header, babbled, client, child, serving,
                       toServer>>
    BY DEF ShowsAnswer, Onwards, sender, server
  <1>2. /\ Head(toClient) = toClient[1] /\ toClient[1] \in AnswerParts
        /\ Len(toClient) \in Nat /\ Len(toClient) >= 1
        /\ toClient' \in Seq(AnswerParts) /\ Len(toClient') = Len(toClient) - 1
        /\ \A j \in 1 .. Len(toClient) - 1 : toClient'[j] = toClient[j + 1]
    BY <1>1, Typed, FirstPart DEF IInv
  <1>3. /\ \A j \in 1 .. Len(toClient) :
             toClient[j].part = "result"
               <=> (IF j = 1 THEN receiver \in {"check", "body"} ELSE toClient[j - 1].part = "header")
        /\ toClient[Len(toClient)].part = "result"
    BY <1>1 DEF IInv, ClientInStep
  <1>4. /\ toClient[1].part = "result" /\ toClient[1].kind \in Kinds
        /\ toClient[1].number \in Numbers \cup {NoNumber}
    <2>1. toClient[1].part = "result"
      BY <1>1, <1>2, <1>3
    <2> QED BY <1>2, <2>1, AnswerPart
  <1>5. TypeOK'
    <2>1. receiver' \in {"start", "header", "check", "body", "done"}
      BY <1>1
    <2>2. shown' \in Seq(Shown)
      BY <1>1, <1>2, <1>4 DEF IInv, TypeOK, Shown
    <2> QED BY <1>1, <1>2, <2>1, <2>2 DEF IInv, TypeOK
  <1>6. ClientInStep'
    <2>1. receiver' \notin {"check", "body"}
      BY <1>1
    <2>2. ASSUME NEW j \in 1 .. Len(toClient')
          PROVE  toClient'[j].part = "result"
                   <=> (IF j = 1 THEN receiver' \in {"check", "body"} ELSE toClient'[j - 1].part = "header")
      <3>1. j + 1 \in 1 .. Len(toClient) /\ j \in 1 .. Len(toClient) - 1 /\ (j + 1) - 1 = j /\ j + 1 # 1
        BY <1>2
      <3>2. toClient'[j].part = "result" <=> toClient[j].part = "header"
        <4>1. toClient[j + 1].part = "result" <=> toClient[(j + 1) - 1].part = "header"
          BY <1>3, <3>1
        <4>2. toClient'[j] = toClient[j + 1] /\ toClient[(j + 1) - 1] = toClient[j]
          BY <1>2, <3>1
        <4> QED BY <4>1, <4>2
      <3>3. CASE j = 1
        BY <1>4, <2>1, <3>2, <3>3
      <3>4. CASE j # 1
        <4>1. j - 1 \in 1 .. Len(toClient) - 1 /\ (j - 1) + 1 = j
          BY <1>2, <3>4
        <4>2. toClient'[j - 1] = toClient[j]
          BY <1>2, <4>1
        <4> QED BY <3>2, <3>4, <4>2
      <3> QED BY <3>3, <3>4
    <2>3. toClient' # <<>> => toClient'[Len(toClient')] = toClient[Len(toClient)]
      <3>1. toClient' # <<>> => Len(toClient') >= 1
        BY <1>2, Elements
      <3> QED BY <1>2, <3>1
    <2> QED BY <1>3, <2>1, <2>2, <2>3 DEF ClientInStep
  <1>7. Reached'
    <2>1. ASSUME NEW j \in 1 .. Len(toClient')
          PROVE  toClient'[j].part = "header" =>
                   /\ toClient'[j].code \in Kinds
                   /\ toClient'[j].asked \in 0 .. counter[toClient'[j].code]
      <3>1. j + 1 \in 1 .. Len(toClient) /\ toClient'[j] = toClient[j + 1]
        BY <1>2
      <3> QED BY <3>1 DEF IInv, Reached
    <2> QED BY <1>1, <2>1 DEF IInv, Reached
  <1>8. Counted' /\ ServerInStep' /\ RefusesOnlyForeignIds'
    BY <1>1 DEF IInv, Counted, ServerInStep, RefusesOnlyForeignIds
  <1> QED BY <1>5, <1>6, <1>7, <1>8 DEF IInv

-----------------------------------------------------------------------------
(* The other steps, which leave both directions as they are or empty them. *)

LEMMA IdsAreNumbers == Ids \subseteq Nat
  <1>1. 0 .. MaxRequests \subseteq Nat
    BY MaxRequestsType
  <1> QED BY <1>1, StackValuesType DEF Ids

LEMMA Ahead == ASSUME NEW c \in Nat, NEW i \in Nat, c < i, NEW a \in 0 .. c PROVE i # a
  OBVIOUS

\* The client refuses a header only when it carries a foreign identifier.
LEMMA ExitsOnIdInv ==
    ASSUME IInv, ExitsOnId PROVE IInv'
  <1>1. /\ header.code \in Kinds /\ counter[header.code] < header.id /\ client' = "wrong id"
        /\ UNCHANGED <<counter, should_run, main, sent, sockfd, receiver, header, shown, babbled,
                       child, serving, toServer, toClient>>
    BY DEF ExitsOnId, Refuses, sender, reader, server, wire
  <1>2. header.id \in Nat
    <2>1. header.id \in Ids
      BY DEF IInv, TypeOK, AnswerHeaders
    <2> QED BY <2>1, IdsAreNumbers
  <1>3. counter[header.code] \in Nat
    BY <1>1, Typed DEF IInv
  <1>4. header.asked = NoId \/ header.asked \in 0 .. counter[header.code]
    BY <1>1 DEF IInv, Reached
  <1>5. header.id # header.asked
    <2>1. CASE header.asked = NoId
      BY <1>2, <2>1, NoneDiffer
    <2>2. CASE header.asked \in 0 .. counter[header.code]
      BY <1>1, <1>2, <1>3, <2>2, Ahead
    <2> QED BY <1>4, <2>1, <2>2
  <1>6. TypeOK'
    BY <1>1 DEF IInv, TypeOK
  <1>7. Counted' /\ Reached'
    BY <1>1 DEF IInv, Counted, Reached
  <1>8. ServerInStep' /\ ClientInStep'
    BY <1>1 DEF IInv, ServerInStep, ClientInStep
  <1> QED BY <1>1, <1>5, <1>6, <1>7, <1>8 DEF IInv, RefusesOnlyForeignIds

\* A read that finds nothing leaves a header that nobody sent.
LEMMA ReadHeaderFailsInv ==
    ASSUME IInv, ReadHeaderFails PROVE IInv'
  <1>1. /\ client = "running" /\ sockfd' = "closed" /\ receiver' = "check"
        /\ UNCHANGED <<counter, should_run, main, sent, shown, babbled, client, child, serving,
                       toServer, toClient>>
    BY DEF ReadHeaderFails, sender, printed, server, wire
  <1>2. header' \in AnswerHeaders /\ header'.asked = NoId
    <2>1. PICK k \in Kinds \cup {"other"}, i \in Ids : header' = AnswerHeader(k, i, NoId)
      BY DEF ReadHeaderFails
    <2> QED BY <2>1 DEF AnswerHeader, AnswerHeaders
  <1>3. TypeOK'
    BY <1>1, <1>2 DEF IInv, TypeOK
  <1>4. Counted' /\ Reached'
    BY <1>1, <1>2 DEF IInv, Counted, Reached
  <1>5. ServerInStep' /\ ClientInStep' /\ RefusesOnlyForeignIds'
    BY <1>1 DEF IInv, ServerInStep, ClientInStep, RefusesOnlyForeignIds
  <1> QED BY <1>3, <1>4, <1>5 DEF IInv

\* What has been lost by a reset is read by nobody.
LEMMA ResetsInv ==
    ASSUME IInv, Resets PROVE IInv'
  <1>1. /\ child = "gone" \/ client # "running"
        /\ toServer' = <<>> /\ toClient' = <<>>
        /\ UNCHANGED <<counter, should_run, main, sent, sockfd, receiver, header, shown, babbled,
                       client, child, serving>>
    BY DEF Resets, Hung, sender, reader, server
  <1>2. /\ toServer' \in Seq(RequestParts) /\ Len(toServer') = 0
        /\ toClient' \in Seq(AnswerParts) /\ Len(toClient') = 0
    BY <1>1, NoneLeft
  <1>3. TypeOK'
    <2>1. UNCHANGED <<counter, should_run, main, sent, sockfd, receiver, header, shown, babbled,
                      client, child, serving>>
      BY <1>1
    <2> QED BY <1>2, <2>1, ZenonT(60) DEF IInv, TypeOK
  <1>4. 1 .. 0 = {}
    OBVIOUS
  <1>5. ServerInStep' /\ ClientInStep'
    BY <1>1, <1>2, <1>4 DEF IInv, ServerInStep, ClientInStep
  <1>6. Reached'
    BY <1>1, <1>2, <1>4 DEF IInv, Reached
  <1>7. Counted' /\ RefusesOnlyForeignIds'
    BY <1>1 DEF IInv, Counted, RefusesOnlyForeignIds
  <1> QED BY <1>3, <1>5, <1>6, <1>7 DEF IInv

\* The steps that only end a process or move a thread on.
LEMMA OthersInv ==
    ASSUME IInv,
           \/ SendFails \/ ChoosesEnd \/ Leaves \/ StartsReceiving \/ ExitsOnCode \/ Accepts
           \/ ShowsGarbage \/ ExitsOnLength \/ ChildReadFails \/ ChildDies
    PROVE  IInv'
  <1>1. /\ UNCHANGED <<counter, sent, header, serving, toServer, toClient, shown>>
        /\ main' = main \/ (main = "menu" /\ main' = "leaving")
        /\ should_run' \in BOOLEAN /\ babbled' \in BOOLEAN
        /\ sockfd' = sockfd \/ sockfd' = "closed"
        /\ child' = child \/ child' = "gone"
        /\ \/ client' = client
           \/ client = "running" /\ client' \in {"bye", "write failed", "wrong code", "no memory"}
    BY DEF IInv, TypeOK, SendFails, ChoosesEnd, Leaves, StartsReceiving, ExitsOnCode, Accepts, Onwards,
           ShowsGarbage, ExitsOnLength, ChildReadFails, ChildDies, sender, printed, reader, server, wire
  <1>2. /\ receiver' \in {"start", "header", "check", "body", "done"}
        /\ (receiver' \in {"check", "body"} <=> receiver \in {"check", "body"}) \/ sockfd' = "closed"
    BY DEF IInv, TypeOK, SendFails, ChoosesEnd, Leaves, StartsReceiving, ExitsOnCode, Accepts, Onwards,
           ShowsGarbage, ExitsOnLength, ChildReadFails, ChildDies, sender, printed, reader, server, wire
  <1>3. /\ main' \in {"menu", "leaving"} \cup Kinds /\ sockfd' \in {"open", "closed"}
        /\ client' \in {"running", "bye", "write failed", "wrong id", "wrong code", "no memory"}
        /\ child' \in {"header", "number", "answer", "gone"}
    BY <1>1 DEF IInv, TypeOK
  <1>4. TypeOK'
    BY <1>1, <1>2, <1>3 DEF IInv, TypeOK
  <1>5. Counted'
    <2>1. main' \in Kinds <=> main \in Kinds
      BY <1>1 DEF Kinds
    <2> QED BY <1>1, <2>1 DEF IInv, Counted
  <1>6. ServerInStep'
    BY <1>1 DEF IInv, ServerInStep
  <1>7. ClientInStep'
    BY <1>1, <1>2 DEF IInv, ClientInStep
  <1>8. Reached'
    BY <1>1 DEF IInv, Reached
  <1>9. RefusesOnlyForeignIds'
    BY <1>1 DEF IInv, RefusesOnlyForeignIds
  <1> QED BY <1>4, <1>5, <1>6, <1>7, <1>8, <1>9 DEF IInv

-----------------------------------------------------------------------------
(* The theorems. *)

LEMMA InitInv == Init => IInv
  <1> SUFFICES ASSUME Init PROVE IInv
    OBVIOUS
  <1>1. /\ counter = [k \in Kinds |-> 0] /\ sent = <<>> /\ toServer = <<>> /\ toClient = <<>>
        /\ shown = <<>> /\ serving = Idle /\ header = NoHeader /\ main = "menu"
    BY DEF Init
  <1>2. MaxRequests \in Nat /\ Len(<<>>) = 0 /\ 1 .. 0 = {} /\ 0 \in 0 .. MaxRequests
    BY MaxRequestsType, NoneLeft
  <1>3. NoHeader \in AnswerHeaders /\ NoHeader.code = "other"
    BY <1>2 DEF NoHeader, AnswerHeader, AnswerHeaders, Ids
  <1>4. /\ Idle \in Tasks
        /\ Idle.asked = 0 /\ Idle.kind \in Kinds
    BY <1>2 DEF Idle, Kinds, Tasks
  <1>5. TypeOK
    <2>1. counter \in [Kinds -> 0 .. MaxRequests]
      BY <1>1, <1>2
    <2> QED BY <1>1, <1>3, <1>4, <2>1, NoneLeft DEF Init, TypeOK
  <1>6. Counted
    BY <1>1, <1>2 DEF Counted, Kinds
  <1>7. ServerInStep /\ ClientInStep
    BY <1>1, <1>2 DEF Init, ServerInStep, ClientInStep
  <1>8. Reached
    BY <1>1, <1>2, <1>3, <1>4, Differ DEF Reached
  <1> QED BY <1>5, <1>6, <1>7, <1>8 DEF Init, IInv, RefusesOnlyForeignIds

LEMMA StepInv == IInv /\ [Next]_vars => IInv'
  <1> SUFFICES ASSUME IInv, [Next]_vars PROVE IInv'
    OBVIOUS
  <1>1. CASE UNCHANGED vars
    <2>1. TypeOK'
      <3>1. UNCHANGED <<counter, should_run, sockfd, main, receiver, header, client>>
        BY <1>1 DEF vars
      <3>2. UNCHANGED <<child, serving, toServer, toClient, sent, shown, babbled>>
        BY <1>1 DEF vars
      <3> QED BY <3>1, <3>2, ZenonT(60) DEF IInv, TypeOK
    <2>2. Counted' /\ ServerInStep' /\ ClientInStep'
      BY <1>1 DEF IInv, Counted, ServerInStep, ClientInStep, vars
    <2>3. Reached' /\ RefusesOnlyForeignIds'
      BY <1>1 DEF IInv, Reached, RefusesOnlyForeignIds, vars
    <2> QED BY <2>1, <2>2, <2>3 DEF IInv
  <1>2. CASE Next
    BY <1>2, SendsInv, CountsInv, ChildReadsHeaderInv, ChildReadsNumberInv, ChildAnswersInv,
       ReadsHeaderInv, ShowsAnswerInv, ExitsOnIdInv, ReadHeaderFailsInv, ResetsInv, OthersInv
       DEF Next, MainSteps, ReceiverSteps, ChildSteps
  <1> QED BY <1>1, <1>2

THEOREM Inductive == Spec => []IInv
  <1> QED BY InitInv, StepInv, PTL DEF Spec

\* Every part that is read is of the kind its reader takes it for, and so every
\* number, identifier and answer has its type (the reads of server.c and client.c).
THEOREM TypeCorrect == Spec => []TypeOK
  <1>1. IInv => TypeOK
    BY DEF IInv
  <1> QED BY Inductive, <1>1, PTL

\* Both ends stay in step on the stream, however many requests are under way
\* (the reads of server.c:93-110 and client.c:177-206).
THEOREM EndsInStep == Spec => []InStep
  <1>1. IInv => InStep
    <2> SUFFICES ASSUME IInv, Linked PROVE InStep
      BY DEF InStep
    <2>1. ASSUME toServer # <<>>
          PROVE  Head(toServer).part = IF child = "number" THEN "number" ELSE "header"
      <3>1. Head(toServer) = toServer[1] /\ toServer[1] \in RequestParts /\ 1 \in 1 .. Len(toServer)
        BY <2>1, Typed, FirstPart DEF IInv
      <3>2. toServer[1].part = "number" <=> child = "number"
        BY <3>1 DEF IInv, ServerInStep, Linked
      <3> QED BY <3>1, <3>2, RequestPart
    <2>2. ASSUME toClient # <<>>
          PROVE  Head(toClient).part = IF receiver \in {"check", "body"} THEN "result" ELSE "header"
      <3>1. Head(toClient) = toClient[1] /\ toClient[1] \in AnswerParts /\ 1 \in 1 .. Len(toClient)
        BY <2>2, Typed, FirstPart DEF IInv
      <3>2. toClient[1].part = "result" <=> receiver \in {"check", "body"}
        BY <3>1 DEF IInv, ClientInStep, Linked
      <3> QED BY <3>1, <3>2, AnswerPart
    <2> QED BY <2>1, <2>2 DEF InStep
  <1> QED BY Inductive, <1>1, PTL

\* An identifier that was sent is never refused, however early its answer comes
\* (client.c:194, 202, 293, 312).
THEOREM RefusesForeign == Spec => []RefusesOnlyForeignIds
  <1>1. IInv => RefusesOnlyForeignIds
    BY DEF IInv
  <1> QED BY Inductive, <1>1, PTL
=============================================================================
