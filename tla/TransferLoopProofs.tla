------------------------- MODULE TransferLoopProofs -------------------------
(***************************************************************************)
(* Proofs about module TransferLoop, for all lengths of messages, any      *)
(* width of size_t that holds them, and any number of failing calls.       *)
(*                                                                         *)
(* InPlace does not follow from itself: a call could be made again after   *)
(* the counters have wrapped around. What excludes it is how the counters  *)
(* relate to the connection (Counted): they are exact while it can still   *)
(* move bytes, one too high once it is down, and as far off as there were  *)
(* failures where there never was a connection.                            *)
(***************************************************************************)
EXTENDS TransferLoop, TLAPS

Exact == total = stream /\ total_left = size - stream /\ pointer = stream

\* The counters of a running loop, by what its connection has come to.
Counted ==
    outcome = "running" =>
        /\ link \in {"open", "closed", "reset"} => Exact
        /\ link = "down" => /\ loop \in {"server_read", "server_write"}
                            /\ total_left = size - stream + 1
                            /\ stream < size
        /\ link = "bad" => /\ loop = "server_read"
                           /\ total_left = size + errors
                           /\ stream = 0
                           /\ errors = 0 => total = 0

\* What has been moved is the start of the message, each byte at its place.
InPlace == stream <= size /\ moved = {<<k, k>> : k \in 1 .. stream}

IInv ==
    /\ TypeOK
    /\ errors <= MaxErrors
    /\ Counted
    /\ InPlace
    /\ ReturnsAll

-----------------------------------------------------------------------------
(* size_t. *)

LEMMA Widths == \A s \in Sizes : s \in Nat /\ Modulus \in Nat /\ MaxErrors \in Nat
                                 /\ s + MaxErrors + 2 < Modulus
  BY SizesType, ModulusLarge

LEMMA Remainder ==
    ASSUME Modulus \in Nat, NEW a \in 0 .. Modulus - 1 PROVE a % Modulus = a
  OBVIOUS

LEMMA RemainderRange ==
    ASSUME Modulus \in Nat, NEW a \in Int, Modulus > 0 PROVE a % Modulus \in 0 .. Modulus - 1
  OBVIOUS

LEMMA MinusOne ==
    ASSUME Modulus \in Nat, Modulus > 1 PROVE (-1) % Modulus = Modulus - 1
  OBVIOUS

LEMMA WrapsAround ==
    ASSUME Modulus \in Nat, NEW b \in 0 .. Modulus - 1 PROVE (b - Modulus) % Modulus = b
  OBVIOUS

\* The numbers of a state.
LEMMA Numbers ==
    ASSUME TypeOK
    PROVE  /\ size \in Nat /\ Modulus \in Nat /\ MaxErrors \in Nat
           /\ size + MaxErrors + 2 < Modulus
           /\ stream \in Nat /\ arrived \in Nat /\ errors \in Nat
           /\ total \in Nat /\ total_left \in Nat /\ pointer \in Nat
  <1>1. size \in Nat /\ Modulus \in Nat /\ MaxErrors \in Nat /\ size + MaxErrors + 2 < Modulus
    <2>1. size \in Sizes
      BY DEF TypeOK
    <2> QED BY <2>1, Widths
  <1>2. stream \in Nat /\ arrived \in Nat /\ errors \in Nat
    BY DEF TypeOK
  <1>3. total \in Nat /\ total_left \in Nat /\ pointer \in Nat
    <2>1. /\ total \in 0 .. Modulus - 1 /\ total_left \in 0 .. Modulus - 1
          /\ pointer \in 0 .. Modulus - 1
      BY DEF TypeOK
    <2> QED BY <1>1, <2>1
  <1> QED BY <1>1, <1>2, <1>3

\* A call that has moved something advances the counters of each loop by that.
LEMMA GoesForward ==
    ASSUME TypeOK, Exact, stream <= size, NEW n \in 1 .. total_left, Goes(n)
    PROVE  /\ total' = stream + n /\ total_left' = size - (stream + n) /\ pointer' = stream + n
           /\ UNCHANGED ended
  <1>1. /\ size \in Nat /\ Modulus \in Nat /\ size < Modulus /\ stream \in Nat
        /\ n \in Nat /\ n > 0 /\ n <= size - stream
    BY Numbers DEF Exact
  <1>2. n % Modulus = n /\ n # 0 /\ ~(n <= 0)
    BY <1>1, Remainder
  <1>3. Advances(n)
    BY <1>2 DEF Goes, ServerReads, ServerWrites, ClientReads, ClientWrites
  <1>4. /\ (stream + n) % Modulus = stream + n
        /\ (size - stream - n) % Modulus = size - stream - n
    BY <1>1, Remainder
  <1> QED BY <1>1, <1>3, <1>4 DEF Advances, Exact

\* A call that has failed sends the server's counters one step back and goes on;
\* the client's functions end.
LEMMA GoesBackward ==
    ASSUME TypeOK, total_left + 1 < Modulus, Goes(-1)
    PROVE  \/ /\ loop \in {"server_read", "server_write"}
              /\ total_left' = total_left + 1
              /\ total' \in 0 .. Modulus - 1 /\ pointer' \in 0 .. Modulus - 1
              /\ UNCHANGED ended
           \/ loop = "client_read" /\ GivesUp(-1)
           \/ loop = "client_write" /\ Exits
  <1>1. /\ Modulus \in Nat /\ Modulus > 1 /\ total \in Nat /\ pointer \in Nat
        /\ total_left \in Nat /\ total_left + 1 < Modulus
    BY Numbers
  <1>2. (-1) % Modulus = Modulus - 1 /\ Modulus - 1 # 0 /\ -1 < 0 /\ -1 <= 0
    BY <1>1, MinusOne
  <1>3. \/ loop \in {"server_read", "server_write"} /\ Advances(Modulus - 1)
        \/ loop = "client_read" /\ GivesUp(-1)
        \/ loop = "client_write" /\ Exits
    BY <1>2 DEF Goes, ServerReads, ServerWrites, ClientReads, ClientWrites
  <1>4. /\ (total_left - (Modulus - 1)) % Modulus = total_left + 1
        /\ (total + (Modulus - 1)) % Modulus \in 0 .. Modulus - 1
        /\ (pointer + (Modulus - 1)) % Modulus \in 0 .. Modulus - 1
    <2>1. total_left - (Modulus - 1) = (total_left + 1) - Modulus
      BY <1>1
    <2>2. ((total_left + 1) - Modulus) % Modulus = total_left + 1
      BY <1>1, WrapsAround
    <2> QED BY <1>1, <2>1, <2>2, RemainderRange
  <1> QED BY <1>3, <1>4 DEF Advances

-----------------------------------------------------------------------------
(* The invariant. *)

LEMMA InitInv == Init => IInv
  <1> SUFFICES ASSUME Init PROVE IInv
    OBVIOUS
  <1>1. size \in Nat /\ Modulus \in Nat /\ MaxErrors \in Nat /\ size < Modulus
    BY Widths DEF Init
  <1>2. TypeOK
    BY <1>1 DEF Init, TypeOK, Loops
  <1>3. Counted
    BY <1>1 DEF Init, Counted, Exact
  <1>4. InPlace /\ ReturnsAll
    BY <1>1 DEF Init, InPlace, ReturnsAll
  <1> QED BY <1>1, <1>2, <1>3, <1>4 DEF Init, IInv

\* A call that moves bytes moves the next ones of the message, each to its place.
LEMMA MovesInv ==
    ASSUME IInv, Moves PROVE IInv'
  <1>1. PICK n \in 1 .. Asks :
          /\ Reading => n <= arrived - stream
          /\ Goes(n)
          /\ moved' = moved \cup {<<(pointer + k) % Modulus, stream + k>> : k \in 1 .. n}
          /\ stream' = stream + n
    BY DEF Moves
  <1>2. /\ TypeOK /\ Exact /\ stream <= size /\ outcome = "running"
        /\ link \in {"open", "closed"} /\ n \in 1 .. total_left
        /\ UNCHANGED <<loop, size, link, arrived, errors>>
    BY <1>1 DEF IInv, Counted, InPlace, Moves, Calls, Asks
  <1>3. /\ size \in Nat /\ Modulus \in Nat /\ size < Modulus /\ stream \in Nat
        /\ n \in Nat /\ n > 0 /\ n <= size - stream /\ pointer = stream
    BY <1>2, Numbers DEF Exact
  <1>4. /\ total' = stream + n /\ total_left' = size - (stream + n) /\ pointer' = stream + n
        /\ UNCHANGED ended
    BY <1>1, <1>2, GoesForward
  <1>5. \A k \in 1 .. n : (pointer + k) % Modulus = stream + k
    BY <1>3, Remainder
  <1>6. moved' = {<<k, k>> : k \in 1 .. stream'}
    <2>1. moved = {<<k, k>> : k \in 1 .. stream}
      BY DEF IInv, InPlace
    <2>2. {<<(pointer + k) % Modulus, stream + k>> : k \in 1 .. n}
            = {<<k, k>> : k \in stream + 1 .. stream + n}
      <3>1. {<<(pointer + k) % Modulus, stream + k>> : k \in 1 .. n}
              = {<<stream + k, stream + k>> : k \in 1 .. n}
        BY <1>5
      <3>2. \A k \in stream + 1 .. stream + n : k - stream \in 1 .. n /\ stream + (k - stream) = k
        BY <1>3
      <3>3. \A k \in 1 .. n : stream + k \in stream + 1 .. stream + n
        BY <1>3
      <3>4. {<<stream + k, stream + k>> : k \in 1 .. n} = {<<k, k>> : k \in stream + 1 .. stream + n}
        BY <3>2, <3>3
      <3> QED BY <3>1, <3>4
    <2>3. 1 .. stream + n = (1 .. stream) \cup (stream + 1 .. stream + n)
      BY <1>3
    <2> QED BY <1>1, <2>1, <2>2, <2>3
  <1>7. InPlace'
    <2>1. stream' <= size'
      BY <1>1, <1>2, <1>3
    <2> QED BY <1>6, <2>1 DEF InPlace
  <1>8. moved' \in SUBSET (Nat \X Nat)
    <2>1. stream' \in Nat
      BY <1>1, <1>3
    <2> QED BY <1>6, <2>1
  <1>9. TypeOK'
    BY <1>1, <1>2, <1>3, <1>4, <1>8 DEF TypeOK, ended
  <1>10. Counted'
    BY <1>1, <1>2, <1>4 DEF Counted, Exact, ended
  <1>11. ReturnsAll'
    BY <1>2, <1>4 DEF ReturnsAll, ended
  <1> QED BY <1>2, <1>7, <1>9, <1>10, <1>11 DEF IInv

\* A failing call ends a client's function; a server's goes on, and finds that
\* its connection is down, or that it never had one.
LEMMA FailsInv ==
    ASSUME IInv, ReportsReset \/ BadDescriptor PROVE IInv'
  <1>1. /\ TypeOK /\ outcome = "running" /\ total_left # 0 /\ Goes(-1)
        /\ stream <= size /\ errors <= MaxErrors
        /\ UNCHANGED <<loop, size, arrived, stream, moved>>
    BY DEF IInv, InPlace, ReportsReset, BadDescriptor, Calls, Full
  <1>2. /\ size \in Nat /\ Modulus \in Nat /\ MaxErrors \in Nat /\ size + MaxErrors + 2 < Modulus
        /\ stream \in Nat /\ errors \in Nat /\ total_left \in Nat
    BY <1>1, Numbers
  <1>3. CASE ReportsReset
    <2>1. /\ link = "reset" /\ link' = "down" /\ errors' = errors
          /\ Exact
      BY <1>1, <1>3 DEF IInv, Counted, ReportsReset
    <2>2. total_left = size - stream /\ total_left + 1 < Modulus /\ stream < size
      BY <1>1, <1>2, <2>1 DEF Exact
    <2>3. \/ /\ loop \in {"server_read", "server_write"}
             /\ total_left' = total_left + 1
             /\ total' \in 0 .. Modulus - 1 /\ pointer' \in 0 .. Modulus - 1
             /\ UNCHANGED ended
          \/ loop = "client_read" /\ GivesUp(-1)
          \/ loop = "client_write" /\ Exits
      BY <1>1, <2>2, GoesBackward
    <2>4. TypeOK'
      <3>1. /\ total' \in 0 .. Modulus - 1 /\ total_left' \in 0 .. Modulus - 1
            /\ pointer' \in 0 .. Modulus - 1
        <4>1. CASE UNCHANGED counters
          BY <1>1, <4>1 DEF TypeOK, counters
        <4>2. CASE total_left' = total_left + 1 /\ total' \in 0 .. Modulus - 1
                   /\ pointer' \in 0 .. Modulus - 1
          BY <1>2, <2>2, <4>2
        <4> QED BY <2>3, <4>1, <4>2 DEF GivesUp, Exits
      <3>2. outcome' \in {"running", "gave up", "exited"} /\ result' \in -1 .. Modulus - 1
        <4>1. outcome = "running" /\ result \in -1 .. Modulus - 1
          BY <1>1 DEF TypeOK
        <4>2. CASE UNCHANGED ended
          BY <4>1, <4>2 DEF ended
        <4>3. CASE GivesUp(-1)
          <5>1. result' = -1
            BY <4>3 DEF GivesUp
          <5>2. result' \in -1 .. Modulus - 1
            BY <1>2, <5>1
          <5> QED BY <4>3, <5>2 DEF GivesUp
        <4>4. CASE Exits
          BY <4>1, <4>4 DEF Exits
        <4> QED BY <2>3, <4>2, <4>3, <4>4
      <3> QED BY <1>1, <2>1, <3>1, <3>2 DEF TypeOK
    <2>5. Counted'
      BY <1>1, <1>2, <2>1, <2>2, <2>3 DEF Counted, GivesUp, Exits, counters, ended
    <2>6. InPlace' /\ ReturnsAll'
      BY <1>1, <2>1, <2>2, <2>3 DEF IInv, InPlace, ReturnsAll, GivesUp, Exits, ended
    <2> QED BY <1>1, <2>1, <2>4, <2>5, <2>6 DEF IInv
  <1>4. CASE BadDescriptor
    <2>1. /\ link = "bad" /\ link' = "bad" /\ errors < MaxErrors /\ errors' = errors + 1
          /\ loop = "server_read" /\ total_left = size + errors /\ stream = 0
      BY <1>1, <1>4 DEF IInv, Counted, BadDescriptor
    <2>2. total_left + 1 < Modulus
      BY <1>2, <2>1
    <2>3. /\ total_left' = total_left + 1
          /\ total' \in 0 .. Modulus - 1 /\ pointer' \in 0 .. Modulus - 1
          /\ UNCHANGED ended
      BY <1>1, <2>1, <2>2, GoesBackward
    <2>4. TypeOK'
      BY <1>1, <1>2, <2>1, <2>2, <2>3 DEF TypeOK, ended
    <2>5. Counted'
      BY <1>1, <1>2, <2>1, <2>3 DEF Counted, ended
    <2>6. InPlace' /\ ReturnsAll' /\ errors' <= MaxErrors
      BY <1>1, <1>2, <2>1, <2>3 DEF IInv, InPlace, ReturnsAll, ended
    <2> QED BY <2>4, <2>5, <2>6 DEF IInv
  <1> QED BY <1>3, <1>4

\* Every step preserves the invariant.
LEMMA StepInv == IInv /\ [Next]_vars => IInv'
  <1> SUFFICES ASSUME IInv, [Next]_vars PROVE IInv'
    OBVIOUS
  <1>0. size \in Nat /\ Modulus \in Nat /\ stream \in Nat /\ errors \in Nat /\ 0 < Modulus
    BY Numbers DEF IInv
  <1>1. CASE Returns
    <2>1. total = stream /\ stream = size
      BY <1>0, <1>1 DEF IInv, TypeOK, Counted, Exact, InPlace, Returns, Full
    <2>2. TypeOK'
      BY <1>0, <1>1, <2>1 DEF IInv, TypeOK, Returns, counters
    <2>3. link = "bad" => size = 0
      BY <1>0, <1>1 DEF IInv, Counted, Returns, Full
    <2>4. ReturnsAll'
      BY <1>0, <1>1, <2>1, <2>3 DEF ReturnsAll, Returns
    <2> QED BY <1>1, <2>2, <2>4 DEF IInv, Counted, InPlace, Returns, counters
  <1>2. CASE EndOfFile
    <2>1. /\ outcome = "running" /\ Goes(0) /\ Reading /\ total_left # 0
          /\ UNCHANGED <<loop, size, link, arrived, stream, moved, errors>>
          /\ link \in {"closed", "down"}
      BY <1>2 DEF EndOfFile, Calls, Full
    <2>2. 0 % Modulus = 0
      BY <1>0, Remainder
    <2>3. \/ loop = "server_read" /\ Exits
          \/ loop = "client_read" /\ GivesUp(0)
      <3>1. loop \notin {"server_write", "client_write"}
        BY <2>1 DEF Reading
      <3>2. ServerReads(0) \/ ClientReads(0)
        BY <2>1, <3>1 DEF Goes, ServerWrites, ClientWrites
      <3>3. ClientReads(0) => loop = "client_read" /\ GivesUp(0)
        BY DEF ClientReads
      <3>4. ServerReads(0) => loop = "server_read" /\ Exits
        BY <2>2 DEF ServerReads
      <3> QED BY <3>2, <3>3, <3>4
    <2>4. loop = "client_read" => stream < size
      BY <1>0, <2>1 DEF IInv, Counted, Exact, InPlace
    <2>5. TypeOK'
      <3>1. outcome' \in {"gave up", "exited"} /\ result' \in -1 .. Modulus - 1 /\ UNCHANGED counters
        <4>1. result \in -1 .. Modulus - 1
          BY DEF IInv, TypeOK
        <4>2. CASE GivesUp(0)
          <5>1. result' = 0
            BY <4>2 DEF GivesUp
          <5>2. result' \in -1 .. Modulus - 1
            BY <1>0, <5>1
          <5> QED BY <4>2, <5>2 DEF GivesUp
        <4>3. CASE Exits
          BY <4>1, <4>3 DEF Exits
        <4> QED BY <2>3, <4>2, <4>3
      <3> QED BY <2>1, <3>1 DEF IInv, TypeOK, counters
    <2> QED BY <2>1, <2>3, <2>4, <2>5
         DEF IInv, Counted, InPlace, ReturnsAll, Exits, GivesUp, counters
  <1>3. CASE Interrupted
    <2>1. TypeOK'
      <3>1. errors' \in Nat
        BY <1>0, <1>3 DEF Interrupted
      <3> QED BY <1>3, <3>1 DEF IInv, TypeOK, Interrupted, counters, ended
    <2>2. Counted'
      BY <1>3 DEF IInv, Counted, Exact, Interrupted, counters, ended
    <2>3. InPlace' /\ ReturnsAll'
      BY <1>3 DEF IInv, InPlace, ReturnsAll, Interrupted, ended
    <2>4. errors' <= MaxErrors
      BY <1>0, <1>3, SizesType DEF IInv, Interrupted
    <2> QED BY <2>1, <2>2, <2>3, <2>4 DEF IInv
  <1>4. CASE BrokenPipe
    BY <1>4 DEF IInv, TypeOK, Counted, InPlace, ReturnsAll, BrokenPipe, counters
  <1>5. CASE Arrives
    <2>1. TypeOK'
      <3>1. arrived' \in Nat
        BY <1>5, Numbers DEF IInv, Arrives
      <3> QED BY <1>5, <3>1 DEF IInv, TypeOK, Arrives, counters, ended
    <2> QED BY <1>5, <2>1 DEF IInv, Counted, Exact, InPlace, ReturnsAll, Arrives, counters, ended
  <1>6. CASE Closes \/ Resets
    BY <1>6 DEF IInv, TypeOK, Counted, Exact, InPlace, ReturnsAll, Closes, Resets, counters, ended
  <1>7. CASE UNCHANGED vars
    BY <1>7 DEF IInv, TypeOK, Counted, Exact, InPlace, ReturnsAll, vars
  <1> QED
    BY <1>1, <1>2, <1>3, <1>4, <1>5, <1>6, <1>7, MovesInv, FailsInv DEF Next, Runs

THEOREM Inductive == Spec => []IInv
  <1> QED BY InitInv, StepInv, PTL DEF Spec

\* The counters stay in the range of a size_t (server.c:123-126, client.c:104-106).
THEOREM TypeCorrect == Spec => []TypeOK
  <1>1. IInv => TypeOK
    BY DEF IInv
  <1> QED BY Inductive, <1>1, PTL

\* What has been moved is the start of the message, byte for byte, whatever was
\* taken for a length (server.c:128, 143-147).
THEOREM MovedInPlace == Spec => []InPlace
  <1>1. IInv => InPlace
    BY DEF IInv
  <1> QED BY Inductive, <1>1, PTL

\* A function that returns a length has moved that much (server.c:151, client.c:136),
\* and the read on descriptor -1 does not end.
THEOREM MovedAll == Spec => []ReturnsAll
  <1>1. IInv => ReturnsAll
    BY DEF IInv
  <1> QED BY Inductive, <1>1, PTL

-----------------------------------------------------------------------------
(* The promise. *)

LEMMA MessageInit == Init => Message!Init
  <1> SUFFICES ASSUME Init PROVE Message!Init
    OBVIOUS
  <1> QED BY DEF Init, Message!Init, Ending

\* What has been moved is the start of the message.
LEMMA MovedStart ==
    ASSUME IInv
    PROVE  /\ size \in Nat /\ stream \in 0 .. size
           /\ stream < size => stream \in 0 .. size - 1
           /\ moved = Message!Start(stream)
  <1>1. size \in Nat /\ stream \in Nat
    BY Numbers DEF IInv
  <1> QED BY <1>1 DEF IInv, InPlace, Message!Start

\* A call that moves bytes extends what was moved.
LEMMA MovesExtends ==
    ASSUME IInv, Moves PROVE Message!Extend
  <1>1. /\ size \in Nat /\ stream \in 0 .. size
        /\ moved = Message!Start(stream)
    BY MovedStart
  <1>2. IInv'
    BY MovesInv
  <1>3. PICK n \in 1 .. Asks : Goes(n) /\ stream' = stream + n
    BY DEF Moves
  <1>4. /\ outcome = "running" /\ UNCHANGED size
        /\ Exact /\ n \in 1 .. total_left
    BY <1>3 DEF Moves, Calls, Asks, IInv, Counted
  <1>5. UNCHANGED ended
    BY <1>3, <1>4, GoesForward DEF IInv, InPlace
  <1>6. stream' \in stream + 1 .. size
    BY <1>1, <1>3, <1>4 DEF Exact
  <1>7. moved' = Message!Start(stream')
    BY <1>2 DEF IInv, InPlace, Message!Start
  <1> QED BY <1>1, <1>4, <1>5, <1>6, <1>7 DEF Message!Extend, Ending, ended

\* A function ends without its length only while something is left to move.
LEMMA FailsEarly ==
    ASSUME IInv, outcome = "running", stream < size,
           outcome' \in {"gave up", "exited", "killed"}, UNCHANGED <<size, moved>>
    PROVE  Message!Fail
  <1>1. moved = Message!Start(stream) /\ stream \in 0 .. size - 1
    BY MovedStart
  <1> QED BY <1>1 DEF Message!Fail, Ending

LEMMA MessageStep == IInv /\ [Next]_vars => [Message!Next]_(Message!vars)
  <1> SUFFICES ASSUME IInv, [Next]_vars PROVE [Message!Next]_(Message!vars)
    OBVIOUS
  <1>0. /\ size \in Nat /\ stream \in 0 .. size
        /\ moved = Message!Start(stream)
    BY MovedStart
  <1>1. CASE Returns
    <2>1. stream = size
      <3>1. outcome = "running" /\ total_left = 0 /\ errors \in Nat /\ TypeOK
        BY <1>1, Numbers DEF IInv, Returns, Full
      <3>2. CASE link \in {"open", "closed", "reset"}
        BY <1>0, <3>1, <3>2 DEF IInv, Counted, Exact
      <3>3. CASE link \in {"down", "bad"}
        BY <1>0, <3>1, <3>3 DEF IInv, Counted
      <3> QED BY <3>1, <3>2, <3>3 DEF TypeOK
    <2>2. Message!Complete
      BY <1>0, <1>1, <2>1 DEF Message!Complete, Ending, Returns
    <2> QED BY <2>2 DEF Message!Next
  <1>2. CASE Moves
    BY <1>2, MovesExtends DEF Message!Next
  \* A failing call is made while something is left.
  <1>3. ASSUME Calls, \E n \in {-1, 0} : Goes(n), UNCHANGED <<size, stream, moved>>,
               link # "bad"
        PROVE  Message!Fail \/ UNCHANGED Message!vars
    <2>1. outcome = "running" /\ total_left # 0
      BY <1>3 DEF Calls, Full
    <2>2. CASE UNCHANGED ended
      BY <1>3, <2>2 DEF Message!vars, Ending, ended
    <2>3. CASE outcome' \in {"gave up", "exited"}
      <3>1. stream < size
        <4>1. CASE link = "down"
          BY <2>1, <4>1 DEF IInv, Counted
        <4>2. CASE link # "down"
          <5>1. Exact
            BY <1>3, <2>1, <4>2 DEF IInv, TypeOK, Counted
          <5> QED BY <1>0, <2>1, <5>1 DEF Exact
        <4> QED BY <4>1, <4>2
      <3> QED BY <1>3, <2>1, <2>3, <3>1, FailsEarly
    <2>4. UNCHANGED ended \/ outcome' \in {"gave up", "exited"}
      BY <1>3 DEF Goes, ServerReads, ServerWrites, ClientReads, ClientWrites, Advances, Exits, GivesUp
    <2> QED BY <1>3, <2>2, <2>3, <2>4
  <1>4. CASE EndOfFile
    <2>1. link # "bad"
      BY <1>4 DEF EndOfFile
    <2> QED BY <1>3, <1>4, <2>1 DEF EndOfFile, Message!Next
  <1>5. CASE ReportsReset
    <2>1. link # "bad"
      BY <1>5 DEF ReportsReset
    <2> QED BY <1>3, <1>5, <2>1 DEF ReportsReset, Message!Next
  <1>6. CASE BadDescriptor
    <2>1. /\ TypeOK /\ loop = "server_read" /\ total_left + 1 < Modulus
          /\ UNCHANGED <<size, moved>> /\ Goes(-1)
      <3>1. /\ link = "bad" /\ errors < MaxErrors /\ outcome = "running" /\ Goes(-1)
            /\ UNCHANGED <<size, moved>>
        BY <1>6 DEF BadDescriptor, Calls
      <3>2. loop = "server_read" /\ total_left = size + errors /\ TypeOK
        BY <3>1 DEF IInv, Counted
      <3> QED BY <3>1, <3>2, Numbers
    <2>2. UNCHANGED ended
      BY <2>1, GoesBackward
    <2> QED BY <2>1, <2>2 DEF Message!vars, Ending, ended
  <1>7. CASE BrokenPipe
    <2>1. stream < size
      BY <1>7 DEF IInv, Counted, BrokenPipe, Calls
    <2>2. Message!Fail
      BY <1>7, <2>1, FailsEarly DEF BrokenPipe, Calls
    <2> QED BY <2>2 DEF Message!Next
  <1>8. CASE Interrupted \/ Arrives \/ Closes \/ Resets \/ UNCHANGED vars
    BY <1>8 DEF Interrupted, Arrives, Closes, Resets, vars, ended, Message!vars, Ending
  <1> QED BY <1>1, <1>2, <1>4, <1>5, <1>6, <1>7, <1>8 DEF Next, Runs

\* Every call of a wrapper moves the whole message or reports that it has failed,
\* which is what module SqrtSession takes it for (server.c:123-184, client.c:103-166).
THEOREM WrapperKeepsPromise == Spec => MovesWhole
  <1> QED BY Inductive, MessageInit, MessageStep, PTL DEF Spec, MovesWhole, Message!Spec
=============================================================================
