------------------------------- MODULE IceCall -------------------------------
(***************************************************************************)
(* Calls of the chat's operations through the generated code: a proxy's    *)
(* function writes a request, the process of the servant dispatches it by  *)
(* name to a skeleton function, which reads the arguments, calls the       *)
(* servant and writes the reply, and the second half of the proxy's        *)
(* function reads it.                                                      *)
(*                                                                         *)
(* One process hosts the servants and has one dispatch thread (the default *)
(* of Ice, which the code does not change). A call is an Ice::AsyncResult: *)
(* the chat ends it at once, a user of begin_op may begin others before.   *)
(* A connection can break, which its caller notices while the request is   *)
(* still executed, and the process can end and be started again. A proxy   *)
(* is twoway and of the type of its object, as all proxies of the chat.    *)
(***************************************************************************)
EXTENDS IceStubs

CONSTANTS
    Calls,        \* the calls
    Called,       \* the types whose operations are called
    Values,       \* what an argument or a result can be
    Void,         \* the result of an operation that returns nothing
    Nothing,      \* no call, no request, no outcome
    MaxCrashes    \* bound: how often the process of the servants ends

ASSUME CalledTypes == Called \subseteq Types
ASSUME MaxCrashesType == MaxCrashes \in Nat

VARIABLES
    call,        \* what was called, by each AsyncResult
    response,    \* what each AsyncResult has been completed with
    got,         \* what its end_op returned or threw
    requests,    \* the requests on their way
    serving,     \* the request the dispatch thread works on
    replies,     \* the replies on their way
    retried,     \* the calls whose request has been sent a second time
    up,          \* the process of the servants runs
    crashes,     \* how often it has ended
    ran,         \* the function of the servant that was run for each call
    answer       \* how it ended

results == <<call, response, got>>
wire    == <<requests, replies, retried>>
process == <<up, crashes>>
history == <<ran, answer>>
vars    == <<call, response, got, requests, serving, replies, retried, up, crashes, ran,
             answer>>

\* The answers of ice_isA.
Yes == "yes"
No == "no"

Arguments(t, op) ==
    IF op = "ice_isA" THEN {<<StaticId(u)>> : u \in Called}
    ELSE [DOMAIN ParametersOf(t, op) -> Values]

Invocations ==
    UNION {UNION {{[type |-> t, op |-> op, args |-> a] : a \in Arguments(t, op)} :
                   op \in Operations(t)} : t \in Called}

Value(v) == [kind |-> "value", value |-> v]
Exception(e) == [kind |-> "exception", value |-> e]

\* What a servant's function can return for invocation i.
Results(i) ==
    IF i.op = "ice_isA" THEN {IF IsA(i.type, i.args[1]) THEN Yes ELSE No}
    ELSE IF SkeletonOf(i.type, i.op).writes = <<>> THEN {Void} ELSE Values

Errors == UserExceptions \cup LocalExceptions \cup RequestFailures \cup {"other"}

Request(k, t, op, params) == [from |-> k, type |-> t, op |-> op, params |-> params]
Reply(k, status, body) == [to |-> k, status |-> status, body |-> body]

\* What the wire carries, and what a function or its caller can end with.
Requests == {Request(k, i.type, i.op, i.args) : k \in Calls, i \in Invocations}

Bodies ==
    {<<>>} \cup
    {<<b>> : b \in Values \cup {Yes, No} \cup {IceId[e] : e \in UserExceptions} \cup
                  UnknownExceptions \cup TransportFailures \cup RequestFailures \cup
                  {"OperationNotExistException"}}

Replies == [to : Calls, status : {"ok", "user", "failure"}, body : Bodies]

Ended ==
    {Value(v) : v \in Values \cup {Void, Yes, No}} \cup
    {Exception(e) : e \in Errors \cup UnknownExceptions \cup TransportFailures}

ASSUME NothingApart ==
    Nothing \notin Invocations /\ Nothing \notin Requests /\ Nothing \notin Replies /\ Nothing \notin Ended

TypeOK ==
    /\ call \in [Calls -> Invocations \cup {Nothing}]
    /\ response \in [Calls -> Replies \cup {Nothing}]
    /\ \A k \in Calls : response[k] # Nothing => response[k].to = k
    /\ got \in [Calls -> Ended \cup {Nothing}]
    /\ \A k \in Calls : got[k] # Nothing => call[k] # Nothing /\ response[k] # Nothing
    /\ requests \subseteq Requests
    /\ serving \in Requests \cup {Nothing}
    /\ serving # Nothing => ran[serving.from].op = serving.op
    /\ retried \subseteq Calls
    /\ replies \subseteq Replies
    /\ up \in BOOLEAN
    /\ crashes \in 0 .. MaxCrashes
    /\ ran \in [Calls -> Invocations \cup {Nothing}]
    /\ answer \in [Calls -> Ended \cup {Nothing}]
    /\ \A k \in Calls : answer[k] # Nothing => ran[k] # Nothing

Init ==
    /\ call = [k \in Calls |-> Nothing]
    /\ response = [k \in Calls |-> Nothing]
    /\ got = [k \in Calls |-> Nothing]
    /\ requests = {}
    /\ serving = Nothing
    /\ replies = {}
    /\ retried = {}
    /\ up = TRUE
    /\ crashes = 0
    /\ ran = [k \in Calls |-> Nothing]
    /\ answer = [k \in Calls |-> Nothing]

\* Items that are listed in the order `from', in the order `to'.
Reordered(items, from, to) ==
    [j \in DOMAIN to |-> items[CHOOSE i \in DOMAIN from : from[i] = to[j]]]

-----------------------------------------------------------------------------
(* The caller. *)

RequestOf(k, i) ==
    Request(k, i.type, i.op,
            Reordered(i.args, ParametersOf(i.type, i.op), Halves(i.type, i.op).writes))

\* _iceI_begin_op: prepare, the arguments, invoke.
Begins(k, i) ==
    /\ call[k] = Nothing
    /\ up
    /\ call' = [call EXCEPT ![k] = i]
    /\ requests' = requests \cup {RequestOf(k, i)}
    /\ UNCHANGED <<response, got, serving, replies, retried, process, history>>

\* Nobody listens at the port: abort.
BeginFails(k, i) ==
    /\ call[k] = Nothing
    /\ ~up
    /\ call' = [call EXCEPT ![k] = i]
    /\ response' = [response EXCEPT ![k] = Reply(k, "failure", <<"ConnectFailed">>)]
    /\ UNCHANGED <<got, wire, serving, process, history>>

Receives(r) ==
    /\ r \in replies
    /\ replies' = replies \ {r}
    /\ response' = [response EXCEPT ![r.to] = r]
    /\ UNCHANGED <<call, got, requests, retried, serving, process, history>>

\* What end_op does with the reply: the result, or the user exception, or what
\* _waitForResponse throws.
Outcome(i, r) ==
    LET half == Halves(i.type, i.op)
    IN  CASE r.status = "ok" ->
               Value(IF half.reads = <<>> THEN Void ELSE r.body[1])
          [] r.status = "user" ->
               Exception(IF Thrown(r.body[1]) \in half.rethrows
                         THEN Thrown(r.body[1]) ELSE "UnknownUserException")
          [] r.status = "failure" -> Exception(r.body[1])

Ends(k) ==
    /\ response[k] # Nothing
    /\ got[k] = Nothing
    /\ got' = [got EXCEPT ![k] = Outcome(call[k], response[k])]
    /\ UNCHANGED <<call, response, wire, serving, process, history>>

-----------------------------------------------------------------------------
(* The process of the servants. *)

\* The arguments as the servant's function f gets them, in the order in which
\* the proxy declares them.
Passed(m, f) ==
    LET skeleton == SkeletonOf(m.type, f)
    IN  Reordered(Reordered(m.params, skeleton.reads, skeleton.passes),
                  ServantParameters(m.type, f), ParametersOf(m.type, f))

\* _iceDispatch: the function is looked up and called, or the caller is told
\* that there is no such operation.
Dispatches(m) ==
    /\ up
    /\ serving = Nothing
    /\ m \in requests
    /\ requests' = requests \ {m}
    /\ IF Exists(m.type, m.op)
       THEN LET f == Function(m.type, m.op)
            IN  /\ serving' = Request(m.from, m.type, f, Passed(m, f))
                /\ ran' = [ran EXCEPT ![m.from] =
                             [type |-> m.type, op |-> f, args |-> Passed(m, f)]]
                /\ UNCHANGED replies
       ELSE /\ replies' = replies \cup
                 {Reply(m.from, "failure", <<"OperationNotExistException">>)}
            /\ UNCHANGED <<serving, ran>>
    /\ UNCHANGED <<results, retried, process, answer>>

\* A mutant: a skeleton function without writeEmptyParams.
FinishesSilently(a, status, body) ==
    /\ serving' = Nothing
    /\ answer' = [answer EXCEPT ![serving.from] = a]
    /\ replies' = IF body # <<>> /\ response[serving.from] = Nothing
                  THEN replies \cup {Reply(serving.from, status, body)} ELSE replies
    /\ UNCHANGED <<results, requests, retried, process, ran>>

\* The servant's function has ended with a; the caller, if it still waits, is
\* sent the reply.
Finishes(a, status, body) ==
    /\ serving' = Nothing
    /\ answer' = [answer EXCEPT ![serving.from] = a]
    /\ replies' = IF response[serving.from] = Nothing
                  THEN replies \cup {Reply(serving.from, status, body)} ELSE replies
    /\ UNCHANGED <<results, requests, retried, process, ran>>

Returns(v) ==
    /\ serving # Nothing
    /\ v \in Results(ran[serving.from])
    /\ Finishes(Value(v), "ok",
                IF SkeletonOf(serving.type, serving.op).writes = <<>> THEN <<>> ELSE <<v>>)

\* What the run time names in a failure instead of e: request failures pass.
FailureName(e) ==
    IF e \in RequestFailures THEN e
    ELSE IF e \in LocalExceptions THEN "UnknownLocalException" ELSE "UnknownException"

\* A servant's own function can throw anything; what is not a user exception is
\* a failure to the caller.
Throwing(e) ==
    /\ serving # Nothing
    /\ serving.op # "ice_isA"
    /\ IF e \in UserExceptions
       THEN Finishes(Exception(e), "user", <<IceId[e]>>)
       ELSE Finishes(Exception(e), "failure", <<FailureName(e)>>)

-----------------------------------------------------------------------------
(* Failures. *)

Waiting(k) == call[k] # Nothing /\ response[k] = Nothing

\* A mutant: the operations are declared idempotent.
ModeIdempotent(t, op) == "Idempotent"

\* The mode in which _iceI_begin_op prepares the request. ice_isA is inherited.
Mode(t, op) == IF op \in Declared(t) THEN "Normal" ELSE "Nonmutating"

\* The run time sends the request once more unless it may already have had an
\* effect.
Retries(k) == Mode(call[k].type, call[k].op) # "Normal" /\ k \notin retried

\* The request, if it is on its way, may still arrive.
ConnectionBreaks(k) ==
    /\ Waiting(k)
    /\ replies' = {r \in replies : r.to # k}
    /\ IF Retries(k)
       THEN /\ requests' = requests \cup {RequestOf(k, call[k])}
            /\ retried' = retried \cup {k}
            /\ UNCHANGED response
       ELSE /\ requests' \in {requests, {m \in requests : m.from # k}}
            /\ response' = [response EXCEPT ![k] = Reply(k, "failure", <<"ConnectionLost">>)]
            /\ UNCHANGED retried
    /\ UNCHANGED <<call, got, serving, process, history>>

ProcessEnds ==
    /\ up
    /\ crashes < MaxCrashes
    /\ up' = FALSE
    /\ crashes' = crashes + 1
    /\ serving' = Nothing
    /\ requests' = {}
    /\ replies' = {}
    /\ response' = [k \in Calls |->
         IF Waiting(k)
         THEN Reply(k, "failure", <<IF Retries(k) THEN "ConnectFailed" ELSE "ConnectionLost">>)
         ELSE response[k]]
    /\ UNCHANGED <<call, got, retried, history>>

ProcessRestarts ==
    /\ ~up
    /\ up' = TRUE
    /\ UNCHANGED <<results, wire, serving, crashes, history>>

-----------------------------------------------------------------------------
Serves ==
    \/ \E m \in requests : Dispatches(m)
    \/ \E v \in Values \cup {Void, Yes, No} : Returns(v)
    \/ \E e \in Errors : Throwing(e)

Next ==
    \/ \E k \in Calls, i \in Invocations : Begins(k, i) \/ BeginFails(k, i)
    \/ \E r \in replies : Receives(r)
    \/ \E k \in Calls : Ends(k)
    \/ Serves
    \/ \E k \in Calls : ConnectionBreaks(k)
    \/ ProcessEnds
    \/ ProcessRestarts

Spec == Init /\ [][Next]_vars

(***************************************************************************)
(* The dispatch thread goes on as long as its process runs, and a servant's *)
(* function ends; replies arrive while the connection holds; the caller    *)
(* ends what it has begun. Nothing has to fail.                            *)
(***************************************************************************)
FairSpec ==
    /\ Spec
    /\ WF_vars(Serves)
    /\ WF_vars(\E r \in replies : Receives(r))
    /\ \A k \in Calls : WF_vars(Ends(k))

-----------------------------------------------------------------------------
(* Properties. *)

\* What an invocation of a proxy promises, with the results of checkedCast's
\* question: yes for the id of the object's own type only.
PromisedResults(i) ==
    IF i.op = "ice_isA" THEN {IF i.args[1] = StaticId(i.type) THEN Yes ELSE No}
    ELSE Results(i)

ThrowsKey(i) ==
    IF i.type = "ChatRoomFactory" /\ i.op = "newChatRoom" THEN "factoryNewChatRoom" ELSE i.op

\* Through the tables of names, the two orders of the arguments, the type ids of
\* the exceptions and the failures of connection and process, a call keeps the
\* promise of module RemoteCall: the function that was named runs at most once,
\* on the caller's arguments, and its end reaches the caller as chat.ice says
\* (chat.cpp:1225-2626).
Promise == INSTANCE RemoteCall WITH
    asked <- call, Results <- PromisedResults, Key <- ThrowsKey

CallKept == Promise!Spec

\* Every call that is begun is ended, whoever waits for the dispatch thread and
\* whatever breaks (_iceDispatch, end_op).
CallsEnd == \A k \in Calls : call[k] # Nothing ~> got[k] # Nothing
=============================================================================
