---------------------------- MODULE SqrtSession ----------------------------
(***************************************************************************)
(* One connection of the square-root program: the client's main thread,    *)
(* which sends requests, the client's second thread, which receives the    *)
(* answers, and the child process that the server forked for it.           *)
(*                                                                         *)
(* The two directions of the TCP connection are sequences of the parts     *)
(* that one read_wrapper call reads: a header (code and identifier), the   *)
(* number of a request, the result of an answer. A write_wrapper call      *)
(* sends a whole message. The threads of the client share the counters,    *)
(* should_run and sockfd without a lock; pipelining is allowed, so many    *)
(* requests may be under way.                                              *)
(***************************************************************************)
EXTENDS Naturals, Sequences

CONSTANTS
    Numbers,        \* the numbers a user enters
    StackValues,    \* what the server may find behind the header it has read
    NoNumber,       \* a date request has no number
    NoId,           \* a header that nobody sent answers no request
    MaxRequests     \* bound: how many requests the user makes

ASSUME StackValuesType == StackValues \subseteq Nat
ASSUME NoneDiffer == NoNumber \notin Numbers /\ NoId \notin Nat
ASSUME MaxRequestsType == MaxRequests \in Nat

VARIABLES
    counter,    \* root_request_counter and date_request_counter
    should_run,
    sockfd,     \* the descriptor both threads use: "open" or "closed"
    main,       \* the client's main thread
    receiver,   \* its second thread
    header,     \* the header the second thread has in its buffer
    client,     \* "running", or how the client process ended
    child,      \* the server's child process
    serving,    \* the request it works on
    toServer,   \* the two directions of the connection
    toClient,
    sent,       \* the requests sent so far
    shown,      \* the answers shown so far
    babbled     \* the client has shown what was in its buffer for an answer

sender  == <<counter, should_run, main, sent>>
printed == <<shown, babbled>>
reader  == <<receiver, header, shown, babbled>>
server  == <<child, serving>>
wire    == <<toServer, toClient>>
vars    == <<counter, should_run, sockfd, main, receiver, header, client, child, serving,
             toServer, toClient, sent, shown, babbled>>

Kinds == {"root", "date"}
Requests == [kind : {"root"}, number : Numbers] \cup [kind : {"date"}, number : {NoNumber}]

\* `asked' is the identifier in the request that is answered; it is not sent.
Ids == StackValues \cup (0 .. MaxRequests)
RequestHeader(k, id) == [part |-> "header", code |-> k, id |-> id]
AnswerHeader(k, id, asked) == [part |-> "header", code |-> k, id |-> id, asked |-> asked]
Number(n) == [part |-> "number", number |-> n]
Result(k, n) == [part |-> "result", kind |-> k, number |-> n]

AnswerHeaders ==
    [part : {"header"}, code : Kinds \cup {"other"}, id : Ids, asked : Ids \cup {NoId}]

Results == [part : {"result"}, kind : Kinds, number : Numbers \cup {NoNumber}]

RequestParts ==
    [part : {"header"}, code : Kinds, id : 0 .. MaxRequests] \cup [part : {"number"}, number : Numbers]
AnswerParts == AnswerHeaders \cup Results

\* What the child works on, and what the user sees.
Tasks == [kind : Kinds, number : Numbers \cup {NoNumber}, id : StackValues \cup {0},
          asked : 0 .. MaxRequests]
Shown == [kind : Kinds, number : Numbers \cup {NoNumber}]

NoHeader == AnswerHeader("other", 0, NoId)
Idle == [kind |-> "date", number |-> NoNumber, id |-> 0, asked |-> 0]

TypeOK ==
    /\ counter \in [Kinds -> 0 .. MaxRequests]
    /\ should_run \in BOOLEAN
    /\ sockfd \in {"open", "closed"}
    /\ main \in {"menu", "leaving"} \cup Kinds
    /\ receiver \in {"start", "header", "check", "body", "done"}
    /\ header \in AnswerHeaders
    /\ client \in {"running", "bye", "write failed", "wrong id", "wrong code", "no memory"}
    /\ child \in {"header", "number", "answer", "gone"}
    /\ serving \in Tasks
    /\ toServer \in Seq(RequestParts)
    /\ toClient \in Seq(AnswerParts)
    /\ sent \in Seq(Requests)
    /\ shown \in Seq(Shown)
    /\ babbled \in BOOLEAN

Init ==
    /\ counter = [k \in Kinds |-> 0]
    /\ should_run = TRUE
    /\ sockfd = "open"
    /\ main = "menu"
    /\ receiver = "start"
    /\ header = NoHeader
    /\ client = "running"
    /\ child = "header"
    /\ serving = Idle
    /\ toServer = <<>>
    /\ toClient = <<>>
    /\ sent = <<>>
    /\ shown = <<>>
    /\ babbled = FALSE

-----------------------------------------------------------------------------
(* The client's main thread. *)

\* The request has been written and its counter not yet been incremented. The
\* write also succeeds if the server has just gone.
Sends(r) ==
    /\ client = "running"
    /\ main = "menu"
    /\ Len(sent) < MaxRequests
    /\ sockfd = "open"
    /\ toServer' = toServer \o
         <<RequestHeader(r.kind, counter[r.kind])>> \o
         (IF r.kind = "root" THEN <<Number(r.number)>> ELSE <<>>)
    /\ sent' = Append(sent, r)
    /\ main' = r.kind
    /\ UNCHANGED <<counter, should_run, sockfd, reader, client, server, toClient>>

\* write_wrapper exits, or the process gets SIGPIPE.
SendFails ==
    /\ client = "running"
    /\ main = "menu"
    /\ Len(sent) < MaxRequests
    /\ sockfd = "closed" \/ child = "gone"
    /\ client' = "write failed"
    /\ UNCHANGED <<sender, sockfd, reader, server, wire>>

CountsRequest ==
    /\ client = "running"
    /\ main \in Kinds
    /\ counter' = [counter EXCEPT ![main] = @ + 1]
    /\ main' = "menu"
    /\ UNCHANGED <<should_run, sockfd, reader, client, server, wire, sent>>

ChoosesEnd ==
    /\ client = "running"
    /\ main = "menu"
    /\ should_run' = FALSE
    /\ main' = "leaving"
    /\ UNCHANGED <<counter, sockfd, reader, client, server, wire, sent>>

\* pthread_cancel, close, exit.
Leaves ==
    /\ client = "running"
    /\ main = "leaving"
    /\ client' = "bye"
    /\ sockfd' = "closed"
    /\ UNCHANGED <<sender, reader, server, wire>>

-----------------------------------------------------------------------------
(* The client's second thread. *)

\* The test of should_run, which the main thread may have changed.
Onwards == receiver' = IF should_run THEN "header" ELSE "done"

StartsReceiving ==
    /\ client = "running"
    /\ receiver = "start"
    /\ Onwards
    /\ UNCHANGED <<sender, sockfd, header, printed, client, server, wire>>

ReadsHeader ==
    /\ client = "running"
    /\ receiver = "header"
    /\ sockfd = "open"
    /\ toClient # <<>>
    /\ header' = Head(toClient)
    /\ toClient' = Tail(toClient)
    /\ receiver' = "check"
    /\ UNCHANGED <<sender, sockfd, printed, client, server, toServer>>

\* End of file, or the descriptor is closed: read_wrapper closes it and returns
\* 0 or -1, which its caller ignores. The buffer holds what it held.
AtEnd == sockfd = "closed" \/ (child = "gone" /\ toClient = <<>>)

ReadHeaderFails ==
    /\ client = "running"
    /\ receiver = "header"
    /\ AtEnd
    /\ sockfd' = "closed"
    /\ \E k \in Kinds \cup {"other"}, i \in Ids : header' = AnswerHeader(k, i, NoId)
    /\ receiver' = "check"
    /\ UNCHANGED <<sender, printed, client, server, wire>>

\* A mutant: the counter is taken for a bound that no identifier reaches.
RefusesUncounted(h) == counter[h.code] <= h.id

\* The test for which the client exits with "Wrong request id!".
Refuses(h) == counter[h.code] < h.id

ExitsOnId ==
    /\ client = "running"
    /\ receiver = "check"
    /\ header.code \in Kinds
    /\ Refuses(header)
    /\ client' = "wrong id"
    /\ UNCHANGED <<sender, sockfd, reader, server, wire>>

ExitsOnCode ==
    /\ client = "running"
    /\ receiver = "check"
    /\ header.code = "other"
    /\ client' = "wrong code"
    /\ UNCHANGED <<sender, sockfd, reader, server, wire>>

Accepts ==
    /\ client = "running"
    /\ receiver = "check"
    /\ header.code \in Kinds
    /\ ~Refuses(header)
    /\ receiver' = "body"
    /\ UNCHANGED <<sender, sockfd, header, printed, client, server, wire>>

ShowsAnswer ==
    /\ client = "running"
    /\ receiver = "body"
    /\ sockfd = "open"
    /\ toClient # <<>>
    /\ shown' = Append(shown, [kind |-> Head(toClient).kind, number |-> Head(toClient).number])
    /\ toClient' = Tail(toClient)
    /\ Onwards
    /\ UNCHANGED <<sender, sockfd, header, babbled, client, server, toServer>>

\* The failure is ignored again and what the buffer holds is shown.
ShowsGarbage ==
    /\ client = "running"
    /\ receiver = "body"
    /\ AtEnd
    /\ sockfd' = "closed"
    /\ babbled' = TRUE
    /\ Onwards
    /\ UNCHANGED <<sender, header, shown, client, server, wire>>

\* The length of a date was not read either, and malloc refuses what the
\* variable holds.
ExitsOnLength ==
    /\ client = "running"
    /\ receiver = "body"
    /\ header.code = "date"
    /\ AtEnd
    /\ client' = "no memory"
    /\ UNCHANGED <<sender, sockfd, reader, server, wire>>

-----------------------------------------------------------------------------
(* The server's child process. *)

\* A mutant: the handler of a root request does not read its number.
ChildAnswersAtOnce ==
    /\ child = "header"
    /\ toServer # <<>>
    /\ \E i \in StackValues :
         serving' = [kind |-> Head(toServer).code, number |-> NoNumber, id |-> i,
                     asked |-> Head(toServer).id]
    /\ toServer' = Tail(toServer)
    /\ child' = "answer"
    /\ UNCHANGED <<sender, sockfd, reader, client, toClient>>

\* read_wrapper, memcpy and the switch; no client sends a third code.
\* &selector_req_id_buffer + sizeof(uint32_t) is four uint64_t further on, not
\* four bytes: the identifier is whatever the stack holds there.
ChildReadsHeader ==
    /\ child = "header"
    /\ toServer # <<>>
    /\ \E i \in StackValues :
         serving' = [kind |-> Head(toServer).code, number |-> NoNumber, id |-> i,
                     asked |-> Head(toServer).id]
    /\ toServer' = Tail(toServer)
    /\ child' = IF Head(toServer).code = "root" THEN "number" ELSE "answer"
    /\ UNCHANGED <<sender, sockfd, reader, client, toClient>>

\* A mutant: the number of the request is read over.
ChildDropsNumber ==
    /\ child = "number"
    /\ toServer # <<>>
    /\ toServer' = Tail(toServer)
    /\ child' = "answer"
    /\ UNCHANGED <<sender, sockfd, reader, client, serving, toClient>>

ChildReadsNumber ==
    /\ child = "number"
    /\ toServer # <<>>
    /\ serving' = [serving EXCEPT !.number = Head(toServer).number]
    /\ toServer' = Tail(toServer)
    /\ child' = "answer"
    /\ UNCHANGED <<sender, sockfd, reader, client, toClient>>

\* A mutant: the answer to a date request is forgotten.
ChildAnswersRoots ==
    /\ child = "answer"
    /\ toClient' =
         IF serving.kind = "root"
         THEN toClient \o <<AnswerHeader(serving.kind, serving.id, serving.asked),
                            Result(serving.kind, serving.number)>>
         ELSE toClient
    /\ child' = "header"
    /\ UNCHANGED <<sender, sockfd, reader, client, serving, toServer>>

\* A mutant: the result goes out in front of the header.
ChildAnswersBackwards ==
    /\ child = "answer"
    /\ toClient' = toClient \o
         <<Result(serving.kind, serving.number),
           AnswerHeader(serving.kind, serving.id, serving.asked)>>
    /\ child' = "header"
    /\ UNCHANGED <<sender, sockfd, reader, client, serving, toServer>>

ChildAnswers ==
    /\ child = "answer"
    /\ toClient' = toClient \o
         <<AnswerHeader(serving.kind, serving.id, serving.asked),
           Result(serving.kind, serving.number)>>
    /\ child' = "header"
    /\ UNCHANGED <<sender, sockfd, reader, client, serving, toServer>>

\* The client's process has ended, and its end of the connection is closed.
Hung == client # "running"

\* A mutant: the end of the file is read again.
ChildReadsOn ==
    /\ child \in {"header", "number"}
    /\ toServer = <<>>
    /\ Hung
    /\ UNCHANGED vars

\* End of file in read_wrapper: exit(1).
ChildReadFails ==
    /\ child \in {"header", "number"}
    /\ toServer = <<>>
    /\ Hung
    /\ child' = "gone"
    /\ UNCHANGED <<sender, sockfd, reader, client, serving, wire>>

\* The process is killed, a write meets SIGPIPE, or malloc fails.
ChildDies ==
    /\ child # "gone"
    /\ child' = "gone"
    /\ UNCHANGED <<sender, sockfd, reader, client, serving, wire>>

\* One end is closed while data is under way to it: the connection is reset
\* and what has not been read yet may be lost.
Resets ==
    /\ child = "gone" \/ Hung
    /\ wire # <<<<>>, <<>>>>
    /\ toServer' = <<>>
    /\ toClient' = <<>>
    /\ UNCHANGED <<sender, sockfd, reader, client, server>>

-----------------------------------------------------------------------------
MainSteps == CountsRequest \/ Leaves

ReceiverSteps ==
    \/ StartsReceiving
    \/ ReadsHeader \/ ReadHeaderFails
    \/ ExitsOnId \/ ExitsOnCode \/ Accepts
    \/ ShowsAnswer \/ ShowsGarbage \/ ExitsOnLength

ChildSteps == ChildReadsHeader \/ ChildReadsNumber \/ ChildAnswers \/ ChildReadFails

Next ==
    \/ \E r \in Requests : Sends(r)
    \/ SendFails
    \/ ChoosesEnd
    \/ MainSteps
    \/ ReceiverSteps
    \/ ChildSteps
    \/ ChildDies
    \/ Resets

Spec == Init /\ [][Next]_vars

(***************************************************************************)
(* Every thread and process that is not blocked runs on. The user need not *)
(* ask for anything or end the client, and nothing has to fail.            *)
(***************************************************************************)
FairSpec == Spec /\ WF_vars(MainSteps) /\ WF_vars(ReceiverSteps) /\ WF_vars(ChildSteps)

-----------------------------------------------------------------------------
(* Properties. *)

Linked == client = "running" /\ sockfd = "open" /\ child # "gone"

\* However the threads and the requests under way interleave, every read starts
\* where the part it expects starts: no number is taken for a header and no
\* result for the next answer (the reads of server.c and client.c).
InStep ==
    Linked =>
        /\ toServer # <<>> =>
             Head(toServer).part = IF child = "number" THEN "number" ELSE "header"
        /\ toClient # <<>> =>
             Head(toClient).part = IF receiver \in {"check", "body"} THEN "result" ELSE "header"

\* The client exits with "Wrong request id!" only for an identifier that is not
\* the one it sent, although an answer may overtake the increment of the counter
\* it is compared with (client.c:194, 202, 293, 312).
RefusesOnlyForeignIds == client = "wrong id" => header.id # header.asked

\* The user sees the answers in the order of the requests, each once, and what
\* nobody sent only after the connection has ended, and then nothing else
\* (the handlers of server.c, incomming_request_handler of client.c).
Answers == INSTANCE AnswerQueue WITH asked <- sent, connected <- Linked

AnswersInOrder == Answers!Spec

\* Every request is answered, unless one of the processes ends
\* (server.c:90-115, client.c:173-213).
RequestsAnswered ==
    \A n \in 1 .. MaxRequests : Len(sent) >= n ~> (Len(shown) >= n \/ ~Linked)

\* When the client has ended, however it did, its child process ends too and is
\* not left reading for ever (server.c:90-151).
ChildFollows == client # "running" ~> child = "gone"

\* What the server says it does with a header: it copies the memory from the
\* buffer, so an answer carries the identifier of its request (server.c:95).
IdCopied == \A i \in DOMAIN toClient :
    toClient[i].part = "header" => toClient[i].id = toClient[i].asked
=============================================================================
