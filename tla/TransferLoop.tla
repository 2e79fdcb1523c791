---------------------------- MODULE TransferLoop ----------------------------
(***************************************************************************)
(* The loops of read_wrapper and write_wrapper, in the server and in the   *)
(* client of the square-root program: how a message is moved through a TCP *)
(* connection by system calls that move less than they were asked to, meet *)
(* the end of the file, or fail.                                           *)
(*                                                                         *)
(* The server keeps what read() and write() return in a size_t. Its tests  *)
(* for a negative value are never true: -1 is the largest size_t, and the  *)
(* loop goes on with one byte more left and its pointer one byte back.     *)
(* Arithmetic on size_t and on the pointer is modulo Modulus.              *)
(*                                                                         *)
(* One behaviour is one call of one of the four functions. A byte is       *)
(* identified by its position in the stream.                               *)
(***************************************************************************)
EXTENDS Integers

CONSTANTS
    Sizes,       \* the lengths of messages
    Modulus,     \* stands for 2^64
    Behind,      \* bound: how many bytes of the next message arrive
    MaxErrors    \* bound: how many calls on a bad descriptor fail, and how many are interrupted

ASSUME SizesType == Sizes \subseteq Nat /\ Behind \in Nat /\ MaxErrors \in Nat /\ Modulus \in Nat
\* No buffer is as long as the address space; 2^64 failing calls are never made.
ASSUME ModulusLarge == \A s \in Sizes : s + MaxErrors + 2 < Modulus

Loops == {"server_read", "server_write", "client_read", "client_write"}

VARIABLES
    loop,           \* the function that runs
    size,           \* its parameter
    link,           \* the connection, as a system call of this process finds it
    arrived,        \* how many bytes of the stream have reached this process's socket
    stream,         \* how many bytes of the stream the calls have taken from or put into it
    moved,          \* which place of the buffer each of them was moved to or from
    errors,         \* how many calls on a bad descriptor failed or were interrupted
    total,          \* total_read, total_written
    total_left,
    pointer,        \* buffer_pointer, relative to the buffer
    outcome,        \* "running", or how the function ended
    result          \* what it returned

counters == <<total, total_left, pointer>>
ended    == <<outcome, result>>
vars     == <<loop, size, link, arrived, stream, moved, errors, total, total_left, pointer,
              outcome, result>>

Reading == loop \in {"server_read", "client_read"}
Writing == loop \in {"server_write", "client_write"}

TypeOK ==
    /\ loop \in Loops
    /\ size \in Sizes
    /\ link \in {"open", "closed", "reset", "down", "bad"}
    /\ arrived \in Nat
    /\ stream \in Nat
    /\ moved \in SUBSET (Nat \X Nat)
    /\ errors \in Nat
    /\ total \in 0 .. Modulus - 1
    /\ total_left \in 0 .. Modulus - 1
    /\ pointer \in 0 .. Modulus - 1
    /\ outcome \in {"running", "returned", "gave up", "exited", "killed"}
    /\ result \in -1 .. Modulus - 1

\* Only the server's child reads from descriptor -1, after a failed accept.
Init ==
    /\ loop \in Loops
    /\ size \in Sizes
    /\ link \in {"open"} \cup (IF loop = "server_read" THEN {"bad"} ELSE {})
    /\ arrived = 0
    /\ stream = 0
    /\ moved = {}
    /\ errors = 0
    /\ total = 0
    /\ total_left = size
    /\ pointer = 0
    /\ outcome = "running"
    /\ result = 0

-----------------------------------------------------------------------------
(* The loops: what they do with the value n of a system call. *)

\* A mutant: the sums are not taken modulo the width of a size_t.
AdvancesUnbounded(n) ==
    /\ total' = total + n
    /\ total_left' = total_left - n
    /\ pointer' = pointer + n
    /\ UNCHANGED ended

Advances(n) ==
    /\ total' = (total + n) % Modulus
    /\ total_left' = (total_left - n) % Modulus
    /\ pointer' = (pointer + n) % Modulus
    /\ UNCHANGED ended

Exits == outcome' = "exited" /\ UNCHANGED <<counters, result>>

GivesUp(n) == outcome' = "gave up" /\ result' = n /\ UNCHANGED counters

ServerReads(n) ==
    /\ loop = "server_read"
    /\ IF n % Modulus = 0 THEN Exits ELSE Advances(n % Modulus)

ServerWrites(n) ==
    /\ loop = "server_write"
    /\ IF n % Modulus = 0 THEN Exits ELSE Advances(n % Modulus)

\* A mutant: the end of the file is taken for a call that has moved nothing.
ClientReadsOn(n) ==
    /\ loop = "client_read"
    /\ IF n < 0 THEN GivesUp(n) ELSE Advances(n)

ClientReads(n) ==
    /\ loop = "client_read"
    /\ IF n <= 0 THEN GivesUp(n) ELSE Advances(n)

ClientWrites(n) ==
    /\ loop = "client_write"
    /\ IF n <= 0 THEN Exits ELSE Advances(n)

Goes(n) == ServerReads(n) \/ ServerWrites(n) \/ ClientReads(n) \/ ClientWrites(n)

\* A mutant: each call asks for the whole message.
AsksAll == size

\* What the next call asks for.
Asks == total_left

\* A mutant: a call that has moved something is taken for one that moved all.
FullOnce == total > 0 \/ total_left = 0

Full == total_left = 0

Calls == outcome = "running" /\ ~Full

Returns ==
    /\ outcome = "running"
    /\ Full
    /\ outcome' = "returned"
    /\ result' = total
    /\ UNCHANGED <<loop, size, link, arrived, stream, moved, errors, counters>>

-----------------------------------------------------------------------------
(* The system calls. *)

\* read takes bytes that have arrived; write puts bytes also into a connection
\* that the peer has closed.
Moves ==
    /\ Calls
    /\ link \in {"open", "closed"}
    /\ \E n \in 1 .. Asks :
         /\ Reading => n <= arrived - stream
         /\ Goes(n)
         /\ moved' = moved \cup {<<(pointer + k) % Modulus, stream + k>> : k \in 1 .. n}
         /\ stream' = stream + n
    /\ UNCHANGED <<loop, size, link, arrived, errors>>

EndOfFile ==
    /\ Calls
    /\ Reading
    /\ link = "down" \/ (link = "closed" /\ stream >= arrived)
    /\ Goes(0)
    /\ UNCHANGED <<loop, size, link, arrived, stream, moved, errors>>

\* ECONNRESET, reported once.
ReportsReset ==
    /\ Calls
    /\ link = "reset"
    /\ link' = "down"
    /\ Goes(-1)
    /\ UNCHANGED <<loop, size, arrived, stream, moved, errors>>

\* EBADF, every time.
BadDescriptor ==
    /\ Calls
    /\ link = "bad"
    /\ errors < MaxErrors
    /\ errors' = errors + 1
    /\ Goes(-1)
    /\ UNCHANGED <<loop, size, link, arrived, stream, moved>>

\* EINTR, for which only the client's read_wrapper has a test.
Interrupted ==
    /\ Calls
    /\ loop = "client_read"
    /\ errors < MaxErrors
    /\ errors' = errors + 1
    /\ UNCHANGED <<loop, size, link, arrived, stream, moved, counters, ended>>

\* A write into a connection that is down is answered with SIGPIPE.
BrokenPipe ==
    /\ Calls
    /\ Writing
    /\ link = "down"
    /\ outcome' = "killed"
    /\ UNCHANGED <<loop, size, link, arrived, stream, moved, errors, counters, result>>

-----------------------------------------------------------------------------
(* The peer. *)

Arrives ==
    /\ link = "open"
    /\ arrived < size + Behind
    /\ arrived' = arrived + 1
    /\ UNCHANGED <<loop, size, link, stream, moved, errors, counters, ended>>

Closes ==
    /\ link = "open"
    /\ link' = "closed"
    /\ UNCHANGED <<loop, size, arrived, stream, moved, errors, counters, ended>>

Resets ==
    /\ link \in {"open", "closed"}
    /\ link' = "reset"
    /\ UNCHANGED <<loop, size, arrived, stream, moved, errors, counters, ended>>

Runs == Returns \/ Moves \/ EndOfFile \/ ReportsReset \/ BadDescriptor \/ Interrupted \/ BrokenPipe

Next == Runs \/ Arrives \/ Closes \/ Resets

Spec == Init /\ [][Next]_vars

(***************************************************************************)
(* The process runs, and a system call that need not wait for the peer     *)
(* returns. The peer need not send or close.                               *)
(***************************************************************************)
FairSpec == Spec /\ WF_vars(Runs)

-----------------------------------------------------------------------------
(* Properties. *)

\* A function that returns its size has moved the whole message, and one that
\* has not says so: 0, -1 or the end of the process (server.c:151, client.c:136).
\* Only the server's read on descriptor -1, whose failures it takes for lengths,
\* neither returns nor says so: the child of a failed accept goes on for ever,
\* although the sum of those lengths wraps around (server.c:80 and 127-148).
ReturnsAll ==
    /\ outcome = "returned" => stream = size /\ result = size
    /\ outcome = "gave up" => result \in {0, -1} /\ stream < size
    /\ link = "bad" /\ size > 0 => outcome = "running"

\* How the function ended, for its caller.
Ending == CASE outcome = "running"  -> "running"
            [] outcome = "returned" -> "whole"
            [] OTHER                -> "failed"

\* However short the calls and whatever fails, a caller has the start of its
\* message, growing in place, and none of the next one, until it has all of it or
\* is told of a failure; it is told of none once everything was moved. The size_t
\* that holds -1 sends the pointer in front of the buffer, but on no connection
\* does a call move anything after that (server.c:123-184, client.c:103-166).
Message == INSTANCE WholeMessage WITH buffer <- moved, ending <- Ending

MovesWhole == Message!Spec

\* Once the peer has closed or reset the connection the loop ends, also the one
\* that does not see the error (server.c:127-148, client.c:107-133).
LoopEnds == link \in {"closed", "reset", "down"} ~> outcome # "running"
=============================================================================
