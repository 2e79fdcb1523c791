---------------------------- MODULE WholeMessage ----------------------------
(***************************************************************************)
(* What read_wrapper and write_wrapper of the square-root program promise  *)
(* to their callers: a message is moved from its start, each byte once and *)
(* to its own place, until all of it has been moved or something fails,    *)
(* and a message that was moved to its end has not failed. In how many     *)
(* pieces, by which calls and after which errors does not matter here.     *)
(***************************************************************************)
EXTENDS Naturals

CONSTANT Sizes      \* the lengths of messages

VARIABLES
    size,       \* of the message
    buffer,     \* the bytes that were moved, each with the place it was moved to
    ending      \* "running", "whole", or "failed": 0, -1 or the end of the process

vars == <<size, buffer, ending>>

Start(n) == {<<k, k>> : k \in 1 .. n}

Init ==
    /\ size \in Sizes
    /\ buffer = {}
    /\ ending = "running"

Extend ==
    /\ ending = "running"
    /\ \E n \in 0 .. size : \E m \in n + 1 .. size :
         buffer = Start(n) /\ buffer' = Start(m)
    /\ UNCHANGED <<size, ending>>

Complete ==
    /\ ending = "running"
    /\ buffer = Start(size)
    /\ ending' = "whole"
    /\ UNCHANGED <<size, buffer>>

Fail ==
    /\ ending = "running"
    /\ \E n \in 0 .. size - 1 : buffer = Start(n)
    /\ ending' = "failed"
    /\ UNCHANGED <<size, buffer>>

Next == Extend \/ Complete \/ Fail

Spec == Init /\ [][Next]_vars
=============================================================================
