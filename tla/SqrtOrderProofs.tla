--------------------------- MODULE SqrtOrderProofs ---------------------------
(***************************************************************************)
(* The square-root program implements AnswerQueue: the user sees the       *)
(* answers in the order of the requests, each once. The proof follows a    *)
(* request through the program. Of the requests sent, the first are shown, *)
(* the next have their answers under way, the next is with the child, and  *)
(* the last are on their way to it, in this order. An answer has two       *)
(* parts, so its place in the stream gives the request's place in `sent'.  *)
(* A request has one part or two: a function from the parts to the places  *)
(* takes the place of a sum.                                               *)
(***************************************************************************)
EXTENDS SqrtSessionProofs

Live == client = "running" /\ sockfd = "open"

\* The header of the first answer under way has been read, and not its result.
Inside == IF receiver \in {"check", "body"} THEN 1 ELSE 0

\* How many requests have an answer, and how many the child has taken.
Answered == Len(shown) + (Len(toClient) + 1) \div 2
Taken == Answered + (IF child \in {"number", "answer"} THEN 1 ELSE 0)

Answer(p) == [kind |-> p.kind, number |-> p.number]

AnswersLined ==
    \A i \in 1 .. Len(toClient) :
        /\ toClient[i].part = "result" <=> (i + Inside) % 2 = 0
        /\ toClient[i].part = "result" =>
             /\ Len(shown) + (i + 1) \div 2 <= Len(sent)
             /\ Answer(toClient[i]) = sent[Len(shown) + (i + 1) \div 2]

TaskLined ==
    child \in {"number", "answer"} =>
        /\ Taken \in 1 .. Len(sent)
        /\ serving.kind = sent[Taken].kind
        /\ child = "answer" => serving.number = sent[Taken].number

\* The part at place i of toServer belongs to request f[i].
Lines(f) ==
    /\ \A i \in 1 .. Len(toServer) :
         /\ f[i] = (IF i = 1 THEN Taken ELSE f[i - 1])
                     + (IF toServer[i].part = "header" THEN 1 ELSE 0)
         /\ toServer[i].part = "header" => sent[f[i]].kind = toServer[i].code
         /\ toServer[i].part = "number" => sent[f[i]].number = toServer[i].number
    /\ Len(sent) = IF Len(toServer) = 0 THEN Taken ELSE f[Len(toServer)]

RequestsLined ==
    \E f \in [1 .. Len(toServer) -> 1 .. Len(sent)] : Lines(f)

LInv ==
    /\ IInv
    /\ Live => AnswersLined
    /\ Live /\ child # "gone" => TaskLined /\ RequestsLined
    /\ babbled => sockfd = "closed"

-----------------------------------------------------------------------------
(* Steps that move no part and serve no request. *)

LEMMA OrderTypes ==
    ASSUME IInv
    PROVE  /\ sent \in Seq(Requests) /\ shown \in Seq(Shown)
           /\ toServer \in Seq(RequestParts) /\ toClient \in Seq(AnswerParts)
           /\ Len(sent) \in Nat /\ Len(shown) \in Nat /\ Len(toServer) \in Nat /\ Len(toClient) \in Nat
           /\ child \in {"header", "number", "answer", "gone"}
  <1>1. /\ sent \in Seq(Requests) /\ shown \in Seq(Shown)
        /\ toServer \in Seq(RequestParts) /\ toClient \in Seq(AnswerParts)
        /\ child \in {"header", "number", "answer", "gone"}
    BY DEF IInv, TypeOK
  <1> QED BY <1>1

LEMMA OrderKept ==
    ASSUME LInv, IInv', UNCHANGED <<serving, toServer, toClient, sent, shown>>,
           Live' => Live /\ Inside' = Inside,
           child' # "gone" => child' = child,
           babbled' => sockfd' = "closed" \/ (babbled /\ sockfd' = sockfd)
    PROVE  LInv'
  <1>1. Live' => AnswersLined'
    BY DEF LInv, AnswersLined, Answer
  <1>2. ASSUME Live', child' # "gone" PROVE TaskLined' /\ RequestsLined'
    <2>1. Live /\ child' = child /\ child # "gone"
      BY <1>2
    <2>2. Taken' = Taken
      BY <2>1 DEF Taken, Answered
    <2>3. TaskLined'
      BY <2>1, <2>2 DEF LInv, TaskLined
    <2>4. RequestsLined'
      <3>1. PICK f \in [1 .. Len(toServer) -> 1 .. Len(sent)] : Lines(f)
        BY <2>1 DEF LInv, RequestsLined
      <3>2. Lines(f)'
        BY <2>2, <3>1 DEF Lines
      <3> QED BY <3>1, <3>2 DEF RequestsLined
    <2> QED BY <2>3, <2>4
  <1> QED BY <1>1, <1>2 DEF LInv

LEMMA OthersOrder ==
    ASSUME LInv, IInv',
           \/ SendFails \/ CountsRequest \/ ChoosesEnd \/ Leaves
           \/ StartsReceiving \/ ReadHeaderFails \/ ExitsOnId \/ ExitsOnCode \/ Accepts
           \/ ShowsGarbage \/ ExitsOnLength \/ ChildReadFails \/ ChildDies \/ UNCHANGED vars
    PROVE  LInv'
  <1>1. UNCHANGED <<serving, toServer, toClient, sent, shown>> /\ (child' # "gone" => child' = child)
    BY DEF SendFails, CountsRequest, ChoosesEnd, Leaves, StartsReceiving, ReadHeaderFails, ExitsOnId,
           ExitsOnCode, Accepts, ShowsGarbage, ExitsOnLength, ChildReadFails, ChildDies,
           sender, printed, reader, server, wire, vars
  <1>2. /\ Live' => Live /\ (receiver' \in {"check", "body"} <=> receiver \in {"check", "body"})
        /\ babbled' => sockfd' = "closed" \/ (babbled /\ sockfd' = sockfd)
    <2>1. CASE CountsRequest \/ ChoosesEnd \/ ChildReadFails \/ ChildDies \/ UNCHANGED vars
      <3>1. UNCHANGED <<client, sockfd, receiver, babbled>>
        BY <2>1 DEF CountsRequest, ChoosesEnd, ChildReadFails, ChildDies, sender, reader, vars
      <3> QED BY <3>1 DEF Live
    <2>2. CASE SendFails \/ Leaves \/ ExitsOnId \/ ExitsOnCode \/ ExitsOnLength
      <3>1. client' # "running" /\ babbled' = babbled /\ sockfd' \in {sockfd, "closed"}
        BY <2>2 DEF SendFails, Leaves, ExitsOnId, ExitsOnCode, ExitsOnLength, reader
      <3> QED BY <3>1 DEF Live
    <2>3. CASE StartsReceiving \/ Accepts
      <3>1. /\ UNCHANGED <<client, sockfd, babbled>>
            /\ receiver' \in {"check", "body"} <=> receiver \in {"check", "body"}
        BY <2>3 DEF StartsReceiving, Accepts, Onwards, printed
      <3> QED BY <3>1 DEF Live
    <2>4. CASE ReadHeaderFails \/ ShowsGarbage
      <3>1. sockfd' = "closed"
        BY <2>4 DEF ReadHeaderFails, ShowsGarbage
      <3> QED BY <3>1 DEF Live
    <2> QED BY <2>1, <2>2, <2>3, <2>4
  <1>3. Live' => Live /\ Inside' = Inside
    BY <1>2 DEF Inside
  <1> QED BY <1>1, <1>2, <1>3, OrderKept

\* What a reset has left of the connection of a client that still runs is not
\* read by a child.
LEMMA ResetsOrder ==
    ASSUME LInv, IInv', Resets
    PROVE  LInv'
  <1>1. /\ child = "gone" \/ client # "running"
        /\ toClient' = <<>>
        /\ UNCHANGED <<sockfd, client, child, babbled>>
    BY DEF Resets, Hung, sender, reader, server
  <1>2. AnswersLined'
    <2>1. Len(toClient') = 0 /\ 1 .. 0 = {}
      BY <1>1
    <2> QED BY <2>1 DEF AnswersLined
  <1> QED BY <1>1, <1>2 DEF LInv, Live

-----------------------------------------------------------------------------
(* A request is sent. *)

LEMMA SentParts ==
    ASSUME IInv, NEW r \in Requests, Sends(r)
    PROVE  /\ sent' = Append(sent, r)
           /\ Len(sent') = Len(sent) + 1 /\ sent'[Len(sent) + 1] = r
           /\ \A i \in 1 .. Len(sent) : sent'[i] = sent[i]
           /\ Len(toServer') \in {Len(toServer) + 1, Len(toServer) + 2}
           /\ \A i \in 1 .. Len(toServer) : toServer'[i] = toServer[i]
           /\ toServer'[Len(toServer) + 1].part = "header"
           /\ toServer'[Len(toServer) + 1].code = r.kind
           /\ Len(toServer') = Len(toServer) + 2 =>
                /\ toServer'[Len(toServer) + 2].part = "number"
                /\ toServer'[Len(toServer) + 2].number = r.number
           /\ UNCHANGED <<sockfd, receiver, client, child, serving, toClient, shown, babbled>>
  <1> DEFINE h == RequestHeader(r.kind, counter[r.kind])
             tail == IF r.kind = "root" THEN <<Number(r.number)>> ELSE <<>>
  <1>1. /\ toServer' = toServer \o <<h>> \o tail /\ sent' = Append(sent, r)
        /\ UNCHANGED <<sockfd, receiver, client, child, serving, toClient, shown, babbled>>
    BY DEF Sends, reader, server
  <1>2. sent \in Seq(Requests) /\ toServer \in Seq(RequestParts)
    BY OrderTypes
  <1>3. /\ Len(sent') = Len(sent) + 1 /\ sent'[Len(sent) + 1] = r
        /\ \A i \in 1 .. Len(sent) : sent'[i] = sent[i]
    BY <1>1, <1>2
  <1>4. h \in RequestParts /\ h.part = "header" /\ h.code = r.kind
    <2>1. r.kind \in Kinds
      BY DEF Requests, Kinds
    <2>2. counter[r.kind] \in 0 .. MaxRequests
      BY <2>1, Typed DEF IInv
    <2> QED BY <2>1, <2>2 DEF RequestHeader, RequestParts
  <1> DEFINE q == toServer \o <<h>>
  <1>5. /\ q \in Seq(RequestParts) /\ Len(q) = Len(toServer) + 1 /\ Len(toServer) \in Nat
        /\ \A i \in 1 .. Len(toServer) : q[i] = toServer[i]
        /\ q[Len(toServer) + 1] = h
    <2> HIDE DEF h
    <2> QED BY <1>2, <1>4, OneMore
  <1>6. CASE r.kind # "root"
    <2>1. toServer' = q
      <3>1. toServer' = q \o <<>>
        BY <1>1, <1>6
      <3> HIDE DEF q
      <3> QED BY <1>5, <3>1, NoMore
    <2> HIDE DEF q, h
    <2> QED BY <1>1, <1>3, <1>4, <1>5, <2>1
  <1>7. CASE r.kind = "root"
    <2> DEFINE n == Number(r.number)
    <2>1. toServer' = q \o <<n>>
      BY <1>1, <1>7
    <2>2. n \in RequestParts /\ n.part = "number" /\ n.number = r.number
      <3>1. r.number \in Numbers
        BY <1>7 DEF Requests
      <3> QED BY <3>1 DEF Number, RequestParts
    <2> HIDE DEF q, h, n
    <2>3. /\ Len(toServer') = Len(q) + 1
          /\ \A i \in 1 .. Len(q) : toServer'[i] = q[i]
          /\ toServer'[Len(q) + 1] = n
      BY <1>5, <2>1, <2>2, OneMore
    <2>4. /\ Len(toServer') = Len(toServer) + 2 /\ toServer'[Len(toServer) + 2] = n
          /\ toServer'[Len(toServer) + 1] = h
          /\ \A i \in 1 .. Len(toServer) : toServer'[i] = toServer[i]
      <3>1. Len(q) + 1 = Len(toServer) + 2 /\ Len(toServer) + 1 \in 1 .. Len(q)
        BY <1>5
      <3>2. \A i \in 1 .. Len(toServer) : i \in 1 .. Len(q)
        BY <1>5
      <3> QED BY <1>5, <2>3, <3>1, <3>2
    <2> QED BY <1>1, <1>3, <1>4, <2>2, <2>4
  <1> QED BY <1>6, <1>7

LEMMA SendsOrder ==
    ASSUME LInv, IInv', NEW r \in Requests, Sends(r)
    PROVE  LInv'
  <1> DEFINE L == Len(toServer)
             N == Len(sent)
  <1>1. /\ sent' = Append(sent, r)
        /\ Len(sent') = N + 1 /\ sent'[N + 1] = r
        /\ \A i \in 1 .. N : sent'[i] = sent[i]
        /\ Len(toServer') \in {L + 1, L + 2}
        /\ \A i \in 1 .. L : toServer'[i] = toServer[i]
        /\ toServer'[L + 1].part = "header"
        /\ toServer'[L + 1].code = r.kind
        /\ Len(toServer') = L + 2 =>
             toServer'[L + 2].part = "number" /\ toServer'[L + 2].number = r.number
        /\ UNCHANGED <<sockfd, receiver, client, child, serving, toClient, shown, babbled>>
    BY SentParts DEF LInv
  <1>2. N \in Nat /\ L \in Nat /\ Len(shown) \in Nat /\ Len(toClient) \in Nat
    BY OrderTypes DEF LInv
  <1>3. Inside' = Inside /\ Taken' = Taken /\ Live' = Live /\ Inside \in {0, 1} /\ Taken \in Nat
    BY <1>1, <1>2 DEF Inside, Taken, Answered, Live
  <1>4. Live' => AnswersLined'
    <2> SUFFICES ASSUME Live, NEW i \in 1 .. Len(toClient)
                 PROVE  /\ toClient[i].part = "result" <=> (i + Inside) % 2 = 0
                        /\ toClient[i].part = "result" =>
                             /\ Len(shown) + (i + 1) \div 2 <= N + 1
                             /\ Answer(toClient[i]) = sent'[Len(shown) + (i + 1) \div 2]
      BY <1>1, <1>3 DEF AnswersLined, Answer
    <2>1. /\ toClient[i].part = "result" <=> (i + Inside) % 2 = 0
          /\ toClient[i].part = "result" =>
               /\ Len(shown) + (i + 1) \div 2 <= N
               /\ Answer(toClient[i]) = sent[Len(shown) + (i + 1) \div 2]
      BY DEF LInv, AnswersLined
    <2>2. Len(shown) + (i + 1) \div 2 \in Nat \ {0}
      BY <1>2
    <2> QED BY <1>1, <1>2, <2>1, <2>2
  <1>5. ASSUME Live, child # "gone" PROVE TaskLined'
    <2>1. child \in {"number", "answer"} =>
            /\ Taken \in 1 .. N /\ serving.kind = sent[Taken].kind
            /\ child = "answer" => serving.number = sent[Taken].number
      BY <1>5 DEF LInv, TaskLined
    <2>2. Taken \in 1 .. N => Taken \in 1 .. N + 1
      BY <1>2
    <2> QED BY <1>1, <1>3, <2>1, <2>2 DEF TaskLined
  <1>6. ASSUME Live, child # "gone" PROVE RequestsLined'
    <2>1. PICK f \in [1 .. L -> 1 .. N] : Lines(f)
      BY <1>6 DEF LInv, RequestsLined
    <2> DEFINE M == Len(toServer')
    <2>2. M \in Nat /\ 1 .. L \subseteq 1 .. M /\ L + 1 \in 1 .. M
      BY <1>1, <1>2
    <2> HIDE DEF M
    <2>3. \E g \in [1 .. M -> 1 .. N + 1] :
            \A i \in 1 .. M : g[i] = IF i <= L THEN f[i] ELSE N + 1
      <3> DEFINE g == [i \in 1 .. M |-> IF i <= L THEN f[i] ELSE N + 1]
      <3>1. \A i \in 1 .. M : i <= L => f[i] \in 1 .. N + 1
        BY <1>2, <2>1
      <3>2. g \in [1 .. M -> 1 .. N + 1]
        BY <1>2, <3>1
      <3> QED BY <3>2
    <2>4. PICK g \in [1 .. M -> 1 .. N + 1] :
            \A i \in 1 .. M : g[i] = IF i <= L THEN f[i] ELSE N + 1
      BY <2>3
    <2>5. /\ \A i \in 1 .. L :
               /\ f[i] = (IF i = 1 THEN Taken ELSE f[i - 1])
                           + (IF toServer[i].part = "header" THEN 1 ELSE 0)
               /\ toServer[i].part = "header" => sent[f[i]].kind = toServer[i].code
               /\ toServer[i].part = "number" => sent[f[i]].number = toServer[i].number
          /\ N = IF L = 0 THEN Taken ELSE f[L]
      BY <2>1 DEF Lines
    <2>6. ASSUME NEW i \in 1 .. M
          PROVE  /\ g[i] = (IF i = 1 THEN Taken ELSE g[i - 1])
                             + (IF toServer'[i].part = "header" THEN 1 ELSE 0)
                 /\ toServer'[i].part = "header" => sent'[g[i]].kind = toServer'[i].code
                 /\ toServer'[i].part = "number" => sent'[g[i]].number = toServer'[i].number
      <3>1. CASE i <= L
        <4>1. i \in 1 .. L /\ g[i] = f[i] /\ toServer'[i] = toServer[i]
          BY <1>1, <2>4, <3>1
        <4>2. i # 1 => i - 1 \in 1 .. M /\ g[i - 1] = f[i - 1]
          BY <1>2, <2>2, <2>4, <3>1
        <4>3. f[i] \in 1 .. N /\ sent'[f[i]] = sent[f[i]]
          BY <1>1, <2>1, <4>1
        <4> QED BY <2>5, <4>1, <4>2, <4>3
      <3>2. CASE i = L + 1
        <4>1. g[i] = N + 1
          BY <1>2, <2>4, <3>2
        <4>2. N = IF i = 1 THEN Taken ELSE g[i - 1]
          BY <1>2, <2>2, <2>4, <2>5, <3>2
        <4> QED BY <1>1, <3>2, <4>1, <4>2
      <3>3. CASE i = L + 2
        <4>1. g[i] = N + 1 /\ i # 1 /\ g[i - 1] = N + 1
          BY <1>2, <2>2, <2>4, <3>3
        <4>2. toServer'[i].part = "number" /\ toServer'[i].number = r.number
          BY <1>1, <1>2, <3>3 DEF M
        <4> QED BY <1>1, <1>2, <4>1, <4>2
      <3>4. i <= L \/ i = L + 1 \/ i = L + 2
        BY <1>1, <1>2 DEF M
      <3> QED BY <3>1, <3>2, <3>3, <3>4
    <2>7. Len(sent') = IF M = 0 THEN Taken ELSE g[M]
      <3>1. M # 0 /\ M \in 1 .. M /\ ~(M <= L)
        BY <1>1, <1>2, <2>2 DEF M
      <3>2. g[M] = N + 1
        BY <2>4, <3>1
      <3> QED BY <1>1, <3>1, <3>2
    <2>8. Lines(g)'
      BY <1>3, <2>6, <2>7 DEF Lines, M
    <2> QED BY <1>1, <2>4, <2>8 DEF RequestsLined, M
  <1> QED BY <1>1, <1>3, <1>4, <1>5, <1>6 DEF LInv, Live

-----------------------------------------------------------------------------
(* The child takes a request and answers it. *)

\* The places of what is left when the first part has been read.
LEMMA NextLines ==
    ASSUME IInv, toServer # <<>>, toServer' = Tail(toServer), sent' = sent,
           NEW f \in [1 .. Len(toServer) -> 1 .. Len(sent)], Lines(f), Taken' = f[1]
    PROVE  RequestsLined'
  <1> DEFINE L == Len(toServer)
             N == Len(sent)
  <1>1. /\ N \in Nat /\ L \in Nat /\ L >= 1 /\ Len(toServer') = L - 1
        /\ \A i \in 1 .. L - 1 : toServer'[i] = toServer[i + 1]
    BY OrderTypes, FirstPart
  <1> HIDE DEF L, N
  <1>2. \E g \in [1 .. L - 1 -> 1 .. N] : \A i \in 1 .. L - 1 : g[i] = f[i + 1]
    <2> DEFINE g == [i \in 1 .. L - 1 |-> f[i + 1]]
    <2>1. \A i \in 1 .. L - 1 : f[i + 1] \in 1 .. N
      <3>1. \A i \in 1 .. L - 1 : i + 1 \in 1 .. L
        BY <1>1
      <3> QED BY <3>1 DEF L, N
    <2>2. g \in [1 .. L - 1 -> 1 .. N]
      BY <2>1
    <2> QED BY <2>2
  <1>3. PICK g \in [1 .. L - 1 -> 1 .. N] : \A i \in 1 .. L - 1 : g[i] = f[i + 1]
    BY <1>2
  <1>4. /\ \A i \in 1 .. L :
             /\ f[i] = (IF i = 1 THEN Taken ELSE f[i - 1])
                         + (IF toServer[i].part = "header" THEN 1 ELSE 0)
             /\ toServer[i].part = "header" => sent[f[i]].kind = toServer[i].code
             /\ toServer[i].part = "number" => sent[f[i]].number = toServer[i].number
        /\ N = f[L]
    BY <1>1 DEF Lines, L, N
  <1>5. ASSUME NEW i \in 1 .. L - 1
        PROVE  /\ g[i] = (IF i = 1 THEN f[1] ELSE g[i - 1])
                           + (IF toServer'[i].part = "header" THEN 1 ELSE 0)
               /\ toServer'[i].part = "header" => sent[g[i]].kind = toServer'[i].code
               /\ toServer'[i].part = "number" => sent[g[i]].number = toServer'[i].number
    <2>1. i + 1 \in 1 .. L /\ i + 1 # 1 /\ (i + 1) - 1 = i
      BY <1>1
    <2>2. g[i] = f[i + 1] /\ toServer'[i] = toServer[i + 1]
      BY <1>1, <1>3
    <2>3. f[i] = IF i = 1 THEN f[1] ELSE g[i - 1]
      <3>1. i # 1 => i - 1 \in 1 .. L - 1 /\ (i - 1) + 1 = i
        BY <1>1
      <3> QED BY <1>3, <3>1
    <2>4. f[i + 1] = f[i] + (IF toServer[i + 1].part = "header" THEN 1 ELSE 0)
      BY <1>4, <2>1
    <2> QED BY <1>4, <2>1, <2>2, <2>3, <2>4
  <1>6. N = IF L - 1 = 0 THEN f[1] ELSE g[L - 1]
    <2>1. L - 1 # 0 => L - 1 \in 1 .. L - 1 /\ (L - 1) + 1 = L
      BY <1>1
    <2> QED BY <1>1, <1>3, <1>4, <2>1
  <1>7. Lines(g)'
    BY <1>1, <1>5, <1>6 DEF Lines, N
  <1> QED BY <1>1, <1>3, <1>7 DEF RequestsLined, N

\* The number in a request for the date is none.
LEMMA RequestFields ==
    ASSUME NEW r \in Requests
    PROVE  /\ r = [kind |-> r.kind, number |-> r.number]
           /\ r.kind \in Kinds /\ (r.kind # "root" => r.number = NoNumber)
  BY DEF Requests, Kinds

LEMMA ChildReadsHeaderOrder ==
    ASSUME LInv, IInv', ChildReadsHeader
    PROVE  LInv'
  <1>1. /\ child = "header" /\ toServer # <<>> /\ toServer' = Tail(toServer)
        /\ serving'.kind = Head(toServer).code /\ serving'.number = NoNumber
        /\ child' = IF Head(toServer).code = "root" THEN "number" ELSE "answer"
        /\ UNCHANGED <<sent, sockfd, receiver, client, toClient, shown, babbled>>
    BY DEF ChildReadsHeader, sender, reader
  <1>2. /\ Head(toServer) = toServer[1] /\ toServer[1] \in RequestParts /\ 1 \in 1 .. Len(toServer)
        /\ Len(sent) \in Nat /\ sent \in Seq(Requests) /\ Len(shown) \in Nat /\ Len(toClient) \in Nat
    BY <1>1, OrderTypes, FirstPart DEF LInv
  <1>3. toServer[1].part = "header"
    <2>1. toServer[1].part # "number"
      BY <1>1, <1>2 DEF LInv, IInv, ServerInStep
    <2> QED BY <1>2, <2>1, RequestPart
  <1>4. Live' => AnswersLined'
    BY <1>1 DEF LInv, Live, AnswersLined, Inside, Answer
  <1>5. ASSUME Live PROVE TaskLined' /\ RequestsLined'
    <2>1. PICK f \in [1 .. Len(toServer) -> 1 .. Len(sent)] : Lines(f)
      BY <1>1, <1>5 DEF LInv, RequestsLined
    <2>2. f[1] = Taken + 1 /\ sent[f[1]].kind = toServer[1].code
      BY <1>2, <1>3, <2>1 DEF Lines
    <2>3. Taken' = f[1]
      <3>1. Answered' = Answered /\ Answered \in Nat
        BY <1>1, <1>2 DEF Answered
      <3>2. Taken = Answered + 0
        BY <1>1 DEF Taken
      <3>3. Taken' = Answered' + 1
        BY <1>1 DEF Taken
      <3> QED BY <2>2, <3>1, <3>2, <3>3
    <2>4. RequestsLined'
      BY <1>1, <2>1, <2>3, NextLines DEF LInv
    <2>5. f[1] \in 1 .. Len(sent) /\ sent[f[1]] \in Requests
      BY <1>2, <2>1
    <2>6. /\ serving'.kind = sent[f[1]].kind
          /\ child' = "answer" => serving'.number = sent[f[1]].number
      BY <1>1, <1>2, <2>2, <2>5, RequestFields
    <2>7. TaskLined'
      BY <1>1, <2>3, <2>5, <2>6 DEF TaskLined
    <2> QED BY <2>4, <2>7
  <1> QED BY <1>1, <1>4, <1>5 DEF LInv, Live

LEMMA ChildReadsNumberOrder ==
    ASSUME LInv, IInv', ChildReadsNumber
    PROVE  LInv'
  <1>1. /\ child = "number" /\ toServer # <<>> /\ toServer' = Tail(toServer)
        /\ serving' = [serving EXCEPT !.number = Head(toServer).number]
        /\ child' = "answer"
        /\ UNCHANGED <<sent, sockfd, receiver, client, toClient, shown, babbled>>
    BY DEF ChildReadsNumber, sender, reader
  <1>2. /\ Head(toServer) = toServer[1] /\ toServer[1] \in RequestParts /\ 1 \in 1 .. Len(toServer)
        /\ Len(sent) \in Nat /\ Len(shown) \in Nat /\ Len(toClient) \in Nat
    BY <1>1, OrderTypes, FirstPart DEF LInv
  <1>3. toServer[1].part = "number"
    BY <1>1, <1>2 DEF LInv, IInv, ServerInStep
  <1>4. serving'.kind = serving.kind /\ serving'.number = toServer[1].number
    BY <1>1, <1>2 DEF LInv, IInv, TypeOK, Tasks
  <1>5. Live' => AnswersLined'
    BY <1>1 DEF LInv, Live, AnswersLined, Inside, Answer
  <1>6. ASSUME Live PROVE TaskLined' /\ RequestsLined'
    <2>1. PICK f \in [1 .. Len(toServer) -> 1 .. Len(sent)] : Lines(f)
      BY <1>1, <1>6 DEF LInv, RequestsLined
    <2>2. Taken \in 1 .. Len(sent) /\ serving.kind = sent[Taken].kind
      BY <1>1, <1>6 DEF LInv, TaskLined
    <2>3. f[1] = Taken /\ sent[f[1]].number = toServer[1].number
      BY <1>2, <1>3, <2>1, <2>2 DEF Lines
    <2>4. Taken' = Taken
      BY <1>1 DEF Taken, Answered
    <2>5. RequestsLined'
      BY <1>1, <2>1, <2>3, <2>4, NextLines DEF LInv
    <2>6. TaskLined'
      BY <1>1, <1>4, <2>2, <2>3, <2>4 DEF TaskLined
    <2> QED BY <2>5, <2>6
  <1> QED BY <1>1, <1>5, <1>6 DEF LInv, Live

\* What is under way to the client ends with a result.
LEMMA WholeAnswers ==
    ASSUME LInv, Live, child # "gone" \/ toClient # <<>>
    PROVE  /\ Inside \in {0, 1} /\ (Len(toClient) + Inside) % 2 = 0
           /\ Inside = 1 <=> receiver \in {"check", "body"}
  <1>1. toClient \in Seq(AnswerParts) /\ Len(toClient) \in Nat
    BY OrderTypes DEF LInv
  <1>2. Inside \in {0, 1} /\ (Inside = 1 <=> receiver \in {"check", "body"})
    BY DEF Inside
  <1>3. CASE toClient = <<>>
    <2>1. Inside = 0 /\ Len(toClient) = 0
      BY <1>3 DEF LInv, IInv, ClientInStep, Live, Inside
    <2> QED BY <1>2, <2>1
  <1>4. CASE toClient # <<>>
    <2>1. Len(toClient) \in 1 .. Len(toClient)
      BY <1>1, <1>4, Elements
    <2>2. toClient[Len(toClient)].part = "result"
      BY <1>4 DEF LInv, IInv, ClientInStep
    <2> QED BY <1>2, <2>1, <2>2 DEF LInv, AnswersLined
  <1> QED BY <1>3, <1>4

LEMMA ChildAnswersOrder ==
    ASSUME LInv, IInv', ChildAnswers
    PROVE  LInv'
  <1> DEFINE h == AnswerHeader(serving.kind, serving.id, serving.asked)
             a == Result(serving.kind, serving.number)
             n == Len(toClient)
  <1>1. /\ child = "answer" /\ child' = "header" /\ toClient' = toClient \o <<h, a>>
        /\ UNCHANGED <<sent, sockfd, receiver, client, serving, toServer, shown, babbled>>
    BY DEF ChildAnswers, sender, reader
  <1>2. /\ toClient \in Seq(AnswerParts) /\ n \in Nat /\ Len(shown) \in Nat
        /\ sent \in Seq(Requests) /\ Len(sent) \in Nat
    BY OrderTypes DEF LInv
  <1>3. /\ h \in AnswerParts /\ h.part = "header"
        /\ a \in AnswerParts /\ a.part = "result" /\ a.kind = serving.kind /\ a.number = serving.number
    <2>1. /\ serving.kind \in Kinds /\ serving.asked \in 0 .. MaxRequests
          /\ serving.number \in Numbers \cup {NoNumber} /\ serving.id \in StackValues \cup {0}
          /\ 0 \in 0 .. MaxRequests
      BY Typed DEF LInv, IInv
    <2>2. serving.id \in Ids /\ serving.asked \in Ids
      BY <2>1 DEF Ids
    <2> QED BY <2>1, <2>2 DEF AnswerHeader, AnswerParts, AnswerHeaders, Result, Results
  <1> HIDE DEF h, a
  <1>4. /\ Len(toClient') = n + 2
        /\ \A i \in 1 .. n : toClient'[i] = toClient[i]
        /\ toClient'[n + 1] = h /\ toClient'[n + 2] = a
    BY <1>1, <1>2, <1>3, TwoMore
  <1> HIDE DEF n
  <1>5. ASSUME Live
        PROVE  /\ Taken = Len(shown) + (n + 1) \div 2 + 1 /\ Taken \in 1 .. Len(sent)
               /\ Answer(a) = sent[Taken]
    <2>1. /\ Taken \in 1 .. Len(sent)
          /\ serving.kind = sent[Taken].kind /\ serving.number = sent[Taken].number
      BY <1>1, <1>5 DEF LInv, TaskLined
    <2>2. sent[Taken] = [kind |-> sent[Taken].kind, number |-> sent[Taken].number]
      BY <1>2, <2>1, RequestFields
    <2>3. Taken = Len(shown) + (n + 1) \div 2 + 1
      BY <1>1 DEF Taken, Answered, n
    <2> QED BY <1>3, <2>1, <2>2, <2>3 DEF Answer
  <1>6. ASSUME Live PROVE AnswersLined'
    <2>1. Inside \in {0, 1} /\ (n + Inside) % 2 = 0 /\ Inside' = Inside
      BY <1>1, <1>6, WholeAnswers DEF n, Inside
    <2> SUFFICES ASSUME NEW i \in 1 .. n + 2
                 PROVE  /\ toClient'[i].part = "result" <=> (i + Inside) % 2 = 0
                        /\ toClient'[i].part = "result" =>
                             /\ Len(shown) + (i + 1) \div 2 <= Len(sent)
                             /\ Answer(toClient'[i]) = sent[Len(shown) + (i + 1) \div 2]
      BY <1>1, <1>4, <2>1 DEF AnswersLined, Answer
    <2>2. CASE i \in 1 .. n
      BY <1>4, <1>6, <2>2 DEF LInv, AnswersLined, n
    <2>3. CASE i = n + 1
      <3>1. (i + Inside) % 2 # 0
        BY <1>2, <2>1, <2>3
      <3> QED BY <1>3, <1>4, <2>3, <3>1
    <2>4. CASE i = n + 2
      <3>1. (i + Inside) % 2 = 0
        BY <1>2, <2>1, <2>4
      <3>2. Len(shown) + (i + 1) \div 2 = Taken
        BY <1>2, <1>5, <1>6, <2>4
      <3>3. Taken <= Len(sent)
        BY <1>2, <1>5, <1>6
      <3> QED BY <1>3, <1>4, <1>5, <1>6, <2>4, <3>1, <3>2, <3>3
    <2> QED BY <1>2, <2>2, <2>3, <2>4
  <1>7. ASSUME Live PROVE TaskLined' /\ RequestsLined'
    <2>1. Taken' = Taken
      <3>1. Taken' = Len(shown) + (n + 2 + 1) \div 2
        BY <1>1, <1>2, <1>4 DEF Taken, Answered
      <3> QED BY <1>2, <1>5, <1>7, <3>1
    <2>2. PICK f \in [1 .. Len(toServer) -> 1 .. Len(sent)] : Lines(f)
      BY <1>1, <1>7 DEF LInv, RequestsLined
    <2>3. Lines(f)'
      BY <1>1, <2>1, <2>2 DEF Lines
    <2> QED BY <1>1, <2>2, <2>3 DEF RequestsLined, TaskLined
  <1> QED BY <1>1, <1>6, <1>7 DEF LInv, Live

-----------------------------------------------------------------------------
(* The client takes an answer. *)

LEMMA ReadsHeaderOrder ==
    ASSUME LInv, IInv', ReadsHeader
    PROVE  LInv'
  <1> DEFINE n == Len(toClient)
  <1>1. /\ Live /\ receiver = "header" /\ receiver' = "check"
        /\ toClient # <<>> /\ toClient' = Tail(toClient)
        /\ UNCHANGED <<sent, sockfd, client, child, serving, toServer, shown, babbled>>
    BY DEF ReadsHeader, Live, sender, printed, server
  <1>2. /\ n \in Nat /\ n >= 1 /\ Len(toClient') = n - 1 /\ Len(shown) \in Nat
        /\ \A i \in 1 .. n - 1 : toClient'[i] = toClient[i + 1]
    BY <1>1, OrderTypes, FirstPart DEF LInv
  <1>3. Inside = 0 /\ Inside' = 1 /\ n % 2 = 0
    <2>1. Inside = 0 /\ Inside' = 1
      BY <1>1 DEF Inside
    <2> QED BY <1>1, <1>2, <2>1, WholeAnswers
  <1> HIDE DEF n
  <1>4. AnswersLined'
    <2> SUFFICES ASSUME NEW i \in 1 .. n - 1
                 PROVE  /\ toClient'[i].part = "result" <=> (i + 1) % 2 = 0
                        /\ toClient'[i].part = "result" =>
                             /\ Len(shown) + (i + 1) \div 2 <= Len(sent)
                             /\ Answer(toClient'[i]) = sent[Len(shown) + (i + 1) \div 2]
      BY <1>1, <1>2, <1>3 DEF AnswersLined, Answer
    <2>1. i + 1 \in 1 .. n /\ toClient'[i] = toClient[i + 1]
      BY <1>2
    <2>2. /\ toClient[i + 1].part = "result" <=> (i + 1 + Inside) % 2 = 0
          /\ toClient[i + 1].part = "result" =>
               /\ Len(shown) + (i + 1 + 1) \div 2 <= Len(sent)
               /\ Answer(toClient[i + 1]) = sent[Len(shown) + (i + 1 + 1) \div 2]
      BY <1>1, <2>1 DEF LInv, AnswersLined, n
    <2>3. (i + 1) % 2 = 0 => (i + 1 + 1) \div 2 = (i + 1) \div 2
      BY <1>2
    <2>4. i + 1 + Inside = i + 1
      BY <1>2, <1>3
    <2> QED BY <2>1, <2>2, <2>3, <2>4
  <1>5. Taken' = Taken
    <2>1. Answered = Len(shown) + (n + 1) \div 2 /\ Answered' = Len(shown) + (n - 1 + 1) \div 2
      BY <1>1, <1>2 DEF Answered, n
    <2>2. (n - 1 + 1) \div 2 = (n + 1) \div 2
      BY <1>2, <1>3
    <2> QED BY <1>1, <2>1, <2>2 DEF Taken
  <1>6. ASSUME child # "gone" PROVE TaskLined' /\ RequestsLined'
    <2>1. PICK f \in [1 .. Len(toServer) -> 1 .. Len(sent)] : Lines(f)
      BY <1>1, <1>6 DEF LInv, RequestsLined
    <2>2. Lines(f)'
      BY <1>1, <1>5, <2>1 DEF Lines
    <2>3. TaskLined
      BY <1>1, <1>6 DEF LInv
    <2>4. TaskLined'
      BY <1>1, <1>5, <2>3 DEF TaskLined
    <2> QED BY <1>1, <2>1, <2>2, <2>4 DEF RequestsLined
  <1> QED BY <1>1, <1>4, <1>6 DEF LInv, Live

\* The answer that is shown is the next one.
LEMMA ShowsNext ==
    ASSUME LInv, ShowsAnswer
    PROVE  /\ Len(shown) < Len(sent)
           /\ shown' = Append(shown, sent[Len(shown) + 1])
           /\ babbled = FALSE
  <1>1. /\ Live /\ receiver = "body" /\ toClient # <<>>
        /\ shown' = Append(shown, [kind |-> Head(toClient).kind, number |-> Head(toClient).number])
    BY DEF ShowsAnswer, Live
  <1>2. /\ Head(toClient) = toClient[1] /\ 1 \in 1 .. Len(toClient)
        /\ Len(shown) \in Nat /\ Len(sent) \in Nat
    BY <1>1, OrderTypes, FirstPart DEF LInv
  <1>3. Inside = 1
    BY <1>1 DEF Inside
  <1>4. /\ Len(shown) + (1 + 1) \div 2 <= Len(sent)
        /\ Answer(toClient[1]) = sent[Len(shown) + (1 + 1) \div 2]
    <2>1. (1 + Inside) % 2 = 0
      BY <1>3
    <2> QED BY <1>1, <1>2, <2>1 DEF LInv, AnswersLined
  <1>5. (1 + 1) \div 2 = 1
    OBVIOUS
  <1>6. shown' = Append(shown, Answer(toClient[1]))
    BY <1>1, <1>2 DEF Answer
  <1>7. babbled = FALSE
    BY <1>1 DEF LInv, IInv, TypeOK, Live
  <1> QED BY <1>2, <1>4, <1>5, <1>6, <1>7

LEMMA ShowsAnswerOrder ==
    ASSUME LInv, IInv', ShowsAnswer
    PROVE  LInv'
  <1> DEFINE n == Len(toClient)
             m == Len(shown)
  <1>1. /\ Live /\ receiver = "body" /\ receiver' \in {"header", "done"}
        /\ toClient # <<>> /\ toClient' = Tail(toClient)
        /\ UNCHANGED <<sent, sockfd, client, child, serving, toServer, babbled>>
    BY DEF ShowsAnswer, Onwards, Live, sender, server
  <1>2. /\ n \in Nat /\ n >= 1 /\ Len(toClient') = n - 1 /\ m \in Nat
        /\ \A i \in 1 .. n - 1 : toClient'[i] = toClient[i + 1]
    BY <1>1, OrderTypes, FirstPart DEF LInv
  <1>3. Inside = 1 /\ Inside' = 0 /\ (n + 1) % 2 = 0
    <2>1. Inside = 1 /\ Inside' = 0
      BY <1>1 DEF Inside
    <2> QED BY <1>1, <1>2, <2>1, WholeAnswers
  <1>4. Len(shown') = m + 1
    <2>1. shown \in Seq(Shown) /\ \E x : shown' = Append(shown, x)
      BY OrderTypes DEF LInv, ShowsAnswer
    <2> QED BY <2>1
  <1> HIDE DEF n, m
  <1>5. AnswersLined'
    <2> SUFFICES ASSUME NEW i \in 1 .. n - 1
                 PROVE  /\ toClient'[i].part = "result" <=> i % 2 = 0
                        /\ toClient'[i].part = "result" =>
                             /\ m + 1 + (i + 1) \div 2 <= Len(sent)
                             /\ Answer(toClient'[i]) = sent[m + 1 + (i + 1) \div 2]
      BY <1>1, <1>2, <1>3, <1>4 DEF AnswersLined, Answer
    <2>1. i + 1 \in 1 .. n /\ toClient'[i] = toClient[i + 1]
      BY <1>2
    <2>2. /\ toClient[i + 1].part = "result" <=> (i + 1 + Inside) % 2 = 0
          /\ toClient[i + 1].part = "result" =>
               /\ m + (i + 1 + 1) \div 2 <= Len(sent)
               /\ Answer(toClient[i + 1]) = sent[m + (i + 1 + 1) \div 2]
      BY <1>1, <2>1 DEF LInv, AnswersLined, n, m
    <2>3. i % 2 = 0 => m + (i + 1 + 1) \div 2 = m + 1 + (i + 1) \div 2
      BY <1>2
    <2>4. (i + 1 + Inside) % 2 = 0 <=> i % 2 = 0
      BY <1>2, <1>3
    <2> QED BY <2>1, <2>2, <2>3, <2>4
  <1>6. Taken' = Taken
    <2>1. Answered = m + (n + 1) \div 2 /\ Answered' = m + 1 + (n - 1 + 1) \div 2
      BY <1>2, <1>4 DEF Answered, n, m
    <2>2. (n - 1 + 1) \div 2 + 1 = (n + 1) \div 2
      BY <1>2, <1>3
    <2>3. m + 1 + (n - 1 + 1) \div 2 = m + (n + 1) \div 2
      BY <1>2, <2>2
    <2> QED BY <1>1, <2>1, <2>3 DEF Taken
  <1>7. ASSUME child # "gone" PROVE TaskLined' /\ RequestsLined'
    <2>1. PICK f \in [1 .. Len(toServer) -> 1 .. Len(sent)] : Lines(f)
      BY <1>1, <1>7 DEF LInv, RequestsLined
    <2>2. Lines(f)'
      BY <1>1, <1>6, <2>1 DEF Lines
    <2>3. TaskLined
      BY <1>1, <1>7 DEF LInv
    <2>4. TaskLined'
      BY <1>1, <1>6, <2>3 DEF TaskLined
    <2> QED BY <1>1, <2>1, <2>2, <2>4 DEF RequestsLined
  <1> QED BY <1>1, <1>5, <1>7 DEF LInv, Live

-----------------------------------------------------------------------------
(* The theorem. *)

LEMMA InitOrder == Init => LInv
  <1> SUFFICES ASSUME Init PROVE LInv
    OBVIOUS
  <1>1. IInv
    BY InitInv
  <1>2. /\ Len(toClient) = 0 /\ Len(toServer) = 0 /\ Len(sent) = 0 /\ Len(shown) = 0 /\ 1 .. 0 = {}
        /\ child = "header" /\ babbled = FALSE
    BY DEF Init
  <1>3. AnswersLined
    BY <1>2 DEF AnswersLined
  <1>4. Taken = 0
    <2>1. (0 + 1) \div 2 = 0
      OBVIOUS
    <2> QED BY <1>2, <2>1 DEF Taken, Answered
  <1>5. TaskLined
    BY <1>2 DEF TaskLined
  <1>6. RequestsLined
    <2> DEFINE f == [i \in 1 .. 0 |-> 1]
    <2>1. f \in [1 .. Len(toServer) -> 1 .. Len(sent)]
      BY <1>2
    <2>2. Lines(f)
      BY <1>2, <1>4 DEF Lines
    <2> QED BY <2>1, <2>2 DEF RequestsLined
  <1> QED BY <1>1, <1>2, <1>3, <1>5, <1>6 DEF LInv

LEMMA StepOrder == LInv /\ [Next]_vars => LInv'
  <1> SUFFICES ASSUME LInv, [Next]_vars PROVE LInv'
    OBVIOUS
  <1>1. IInv'
    BY StepInv DEF LInv
  <1> QED BY <1>1, OthersOrder, ResetsOrder, SendsOrder, ChildReadsHeaderOrder, ChildReadsNumberOrder,
             ChildAnswersOrder, ReadsHeaderOrder, ShowsAnswerOrder
          DEF Next, MainSteps, ReceiverSteps, ChildSteps

LEMMA LongerByOne ==
    ASSUME NEW S, NEW q \in Seq(S), NEW e \in S
    PROVE  Len(Append(q, e)) = Len(q) + 1 /\ SubSeq(Append(q, e), 1, Len(q)) = q
  OBVIOUS

\* The user of the client sees the answers in the order of the requests, each
\* once, and anything else only when the connection has ended, however many
\* requests are under way and whatever ends (server.c:90-266, client.c:173-267).
THEOREM OrderKeptToUser == Spec => AnswersInOrder
  <1>1. Spec => []LInv
    BY InitOrder, StepOrder, PTL DEF Spec
  <1>2. Init => Answers!Init
    BY DEF Init, Answers!Init, Linked
  <1>3. LInv /\ [Next]_vars => [Answers!Next]_(Answers!vars)
    <2> SUFFICES ASSUME LInv, [Next]_vars
                 PROVE  Answers!Next \/ UNCHANGED Answers!vars
      OBVIOUS
    <2>1. ASSUME NEW r \in Requests, Sends(r) PROVE Answers!Ask
      <3>1. sent \in Seq(Requests) /\ sent' = Append(sent, r)
        BY <2>1, OrderTypes DEF LInv, Sends
      <3>2. Len(sent') = Len(sent) + 1 /\ SubSeq(sent', 1, Len(sent)) = sent
        BY <3>1, LongerByOne
      <3>3. UNCHANGED <<shown, babbled, client, sockfd, child>>
        BY <2>1 DEF Sends, reader, server
      <3> QED BY <3>2, <3>3 DEF Answers!Ask, Linked
    <2>2. CASE ShowsAnswer
      <3>1. UNCHANGED <<sent, babbled, client, sockfd, child>>
        BY <2>2 DEF ShowsAnswer, sender, server
      <3>2. Answers!Show
        BY <2>2, <3>1, ShowsNext DEF Answers!Show, Linked
      <3> QED BY <3>2 DEF Answers!Next
    <2>3. CASE ShowsGarbage
      <3>1. /\ UNCHANGED <<sent, shown, client, child>> /\ babbled' = TRUE
            /\ sockfd = "closed" \/ child = "gone"
            /\ sockfd' = "closed"
        BY <2>3 DEF ShowsGarbage, AtEnd, sender, server
      <3>2. Answers!Babble
        BY <3>1 DEF Answers!Babble, Linked
      <3> QED BY <3>2 DEF Answers!Next
    <2>4. CASE UNCHANGED <<sent, shown, babbled>> /\ (Linked' => Linked)
      BY <2>4 DEF Answers!Next, Answers!Part, Answers!vars, Linked
    <2>5. CASE CountsRequest \/ ChoosesEnd \/ StartsReceiving \/ ReadsHeader \/ Accepts \/ Resets
      <3>1. UNCHANGED <<sent, shown, babbled, client, sockfd, child>>
        BY <2>5 DEF CountsRequest, ChoosesEnd, StartsReceiving, ReadsHeader, Accepts, Resets,
                    sender, printed, reader, server
      <3> QED BY <2>4, <3>1 DEF Linked
    <2>6. CASE SendFails \/ Leaves \/ ReadHeaderFails \/ ExitsOnId \/ ExitsOnCode \/ ExitsOnLength
      <3>1. UNCHANGED <<sent, shown, babbled>> /\ ~Linked'
        BY <2>6 DEF SendFails, Leaves, ReadHeaderFails, ExitsOnId, ExitsOnCode, ExitsOnLength,
                    sender, printed, reader, Linked
      <3> QED BY <2>4, <3>1
    <2>7. CASE ChildSteps \/ ChildDies
      <3>1. UNCHANGED <<sent, shown, babbled, client, sockfd>> /\ child # "gone"
        BY <2>7 DEF ChildSteps, ChildReadsHeader, ChildReadsNumber, ChildAnswers, ChildReadFails,
                    ChildDies, sender, reader
      <3> QED BY <2>4, <3>1 DEF Linked
    <2>8. CASE UNCHANGED vars
      BY <2>8 DEF vars, Answers!vars, Linked
    <2> QED BY <2>1, <2>2, <2>3, <2>5, <2>6, <2>7, <2>8
            DEF Next, MainSteps, ReceiverSteps, Answers!Next
  <1> QED BY <1>1, <1>2, <1>3, PTL DEF Spec, AnswersInOrder, Answers!Spec
=============================================================================
