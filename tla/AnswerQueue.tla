---------------------------- MODULE AnswerQueue ----------------------------
(***************************************************************************)
(* What the square-root program promises to the user of the client: the    *)
(* answers appear in the order of the requests, each at most once, and     *)
(* none that was not asked for unless the connection has ended. Threads,   *)
(* identifiers and the stream between the processes do not matter here.    *)
(***************************************************************************)
EXTENDS Naturals, Sequences

VARIABLES
    asked,      \* the requests made so far
    shown,      \* the answers that were shown, as the requests they answer
    babbled,    \* something that is nobody's answer was shown
    connected   \* both processes run and talk to each other

vars == <<asked, shown, babbled, connected>>

Init ==
    /\ asked = <<>>
    /\ shown = <<>>
    /\ babbled = FALSE
    /\ connected = TRUE

Ask ==
    /\ Len(asked') = Len(asked) + 1
    /\ SubSeq(asked', 1, Len(asked)) = asked
    /\ UNCHANGED <<shown, babbled, connected>>

Show ==
    /\ ~babbled
    /\ Len(shown) < Len(asked)
    /\ shown' = Append(shown, asked[Len(shown) + 1])
    /\ UNCHANGED <<asked, babbled, connected>>

Part ==
    /\ connected
    /\ connected' = FALSE
    /\ UNCHANGED <<asked, shown, babbled>>

\* A client that has lost its server may take anything for an answer.
Babble ==
    /\ ~connected
    /\ babbled' = TRUE
    /\ UNCHANGED <<asked, shown, connected>>

Next == Ask \/ Show \/ Part \/ Babble

Spec == Init /\ [][Next]_vars
=============================================================================
