----------------------------- MODULE RemoteCall -----------------------------
(***************************************************************************)
(* What the call of an operation of chat.ice promises, whatever happens to *)
(* the messages and to the process of the servant: the servant's function  *)
(* of that name runs at most once, on the arguments of the caller, and the *)
(* caller gets either what the function ended with, as chat.ice declares   *)
(* it, or a transport failure. A failure says nothing of the function: it  *)
(* may have run, be running, or still run.                                 *)
(***************************************************************************)
EXTENDS IceRpc

CONSTANTS
    Calls,          \* the calls that are made
    Invocations,    \* what can be called: a type, an operation and its arguments
    Results(_),     \* what an invocation can return
    Key(_),         \* the entry of Throws of its operation
    Nothing         \* not called, not run, not answered, no outcome

VARIABLES
    asked,      \* the invocation of each call
    ran,        \* the invocation the servant has run for it
    answer,     \* what the servant's function ended with
    got         \* what the caller got

vars == <<asked, ran, answer, got>>

Value(v) == [kind |-> "value", value |-> v]
Exception(e) == [kind |-> "exception", value |-> e]

\* What leaves a servant's function.
Answers(i) ==
    {Value(v) : v \in Results(i)} \cup
    {Exception(e) : e \in UserExceptions \cup LocalExceptions \cup RequestFailures \cup {"other"}}

Delivered(i, a) ==
    IF a.kind = "value" THEN a ELSE Exception(Received(Key(i), a.value))

Init ==
    /\ asked = [k \in Calls |-> Nothing]
    /\ ran = [k \in Calls |-> Nothing]
    /\ answer = [k \in Calls |-> Nothing]
    /\ got = [k \in Calls |-> Nothing]

Ask(k) ==
    /\ asked[k] = Nothing
    /\ \E i \in Invocations : asked' = [asked EXCEPT ![k] = i]
    /\ UNCHANGED <<ran, answer, got>>

Run(k) ==
    /\ asked[k] # Nothing
    /\ ran[k] = Nothing
    /\ ran' = [ran EXCEPT ![k] = asked[k]]
    /\ UNCHANGED <<asked, answer, got>>

Answer(k) ==
    /\ ran[k] # Nothing
    /\ answer[k] = Nothing
    /\ \E a \in Answers(ran[k]) : answer' = [answer EXCEPT ![k] = a]
    /\ UNCHANGED <<asked, ran, got>>

Deliver(k) ==
    /\ answer[k] # Nothing
    /\ got[k] = Nothing
    /\ got' = [got EXCEPT ![k] = Delivered(asked[k], answer[k])]
    /\ UNCHANGED <<asked, ran, answer>>

Fail(k) ==
    /\ asked[k] # Nothing
    /\ got[k] = Nothing
    /\ \E e \in TransportFailures : got' = [got EXCEPT ![k] = Exception(e)]
    /\ UNCHANGED <<asked, ran, answer>>

Next == \E k \in Calls : Ask(k) \/ Run(k) \/ Answer(k) \/ Deliver(k) \/ Fail(k)

Spec == Init /\ [][Next]_vars
=============================================================================
