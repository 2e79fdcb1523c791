----------------------------- MODULE SqrtServer -----------------------------
(***************************************************************************)
(* The parent process of the square-root server: the loop of accept and    *)
(* fork, the descriptors that the two processes share after a fork, and    *)
(* what happens to the port and to the connections when the parent ends    *)
(* before its children.                                                    *)
(*                                                                         *)
(* A child inherits the connection, and the listening socket, which it     *)
(* never closes. A failed accept is reported and forked for all the same:  *)
(* that child reads from descriptor -1 (module TransferLoop) and does not  *)
(* end by itself. SIGCHLD is ignored, so that an ended child is gone from  *)
(* the table of processes. What a child does with its connection is module *)
(* SqrtSession.                                                            *)
(***************************************************************************)
EXTENDS Naturals, Sequences

CONSTANTS
    Conns,      \* the connections that clients ask for
    Procs,      \* what the limits on processes leave for children
    Bad,        \* descriptor -1
    Free,       \* no such child
    Backlog     \* the second parameter of listen()

ASSUME NotConns == Bad \notin Conns /\ Free \notin Conns /\ Bad # Free
ASSUME BacklogType == Backlog \in Nat

VARIABLES
    parent,          \* the statement the parent is at, or "down"
    client_sockfd,   \* its variable
    parentHolds,     \* the connections it has a descriptor of
    child,           \* client_sockfd of each child
    childHolds,      \* the connections each child has a descriptor of
    queue,           \* the connections that have not been accepted
    client           \* the client's end of each connection

parents  == <<parent, client_sockfd, parentHolds>>
children == <<child, childHolds>>
vars     == <<parent, client_sockfd, parentHolds, child, childHolds, queue, client>>

Running == {p \in Procs : child[p] # Free}

TypeOK ==
    /\ parent \in {"accept", "fork", "close", "down"}
    /\ client_sockfd \in Conns \cup {Bad}
    /\ parentHolds \subseteq Conns
    /\ child \in [Procs -> Conns \cup {Bad, Free}]
    /\ childHolds \in [Procs -> SUBSET Conns]
    /\ queue \in Seq(Conns)
    /\ client \in [Conns -> {"none", "open", "closed"}]

\* socket, bind and listen have succeeded.
Init ==
    /\ parent = "accept"
    /\ client_sockfd = Bad
    /\ parentHolds = {}
    /\ child = [p \in Procs |-> Free]
    /\ childHolds = [p \in Procs |-> {}]
    /\ queue = <<>>
    /\ client = [c \in Conns |-> "none"]

-----------------------------------------------------------------------------
(* The parent. *)

Accepts ==
    /\ parent = "accept"
    /\ queue # <<>>
    /\ client_sockfd' = Head(queue)
    /\ parentHolds' = parentHolds \cup {Head(queue)}
    /\ queue' = Tail(queue)
    /\ parent' = "fork"
    /\ UNCHANGED <<children, client>>

\* A mutant: what accept returned is taken for an open descriptor.
AcceptFailsOpen ==
    /\ parent = "accept"
    /\ client_sockfd' = Bad
    /\ parentHolds' = parentHolds \cup {Bad}
    /\ parent' = "fork"
    /\ UNCHANGED <<children, queue, client>>

\* A connection was taken back or no descriptor is free.
AcceptFails ==
    /\ parent = "accept"
    /\ client_sockfd' = Bad
    /\ parent' = "fork"
    /\ UNCHANGED <<parentHolds, children, queue, client>>

\* The child has a copy of every descriptor of the parent.
Forks(p) ==
    /\ parent = "fork"
    /\ p \notin Running
    /\ child' = [child EXCEPT ![p] = client_sockfd]
    /\ childHolds' = [childHolds EXCEPT ![p] = parentHolds]
    /\ parent' = "close"
    /\ UNCHANGED <<client_sockfd, parentHolds, queue, client>>

\* A mutant: the parent tries again until a process is free.
ForkRetries ==
    /\ parent = "fork"
    /\ Running # Procs
    /\ parent' = "close"
    /\ UNCHANGED <<client_sockfd, parentHolds, children, queue, client>>

\* fork returns -1, which is not 0: the parent goes on to close the connection.
ForkFails ==
    /\ parent = "fork"
    /\ parent' = "close"
    /\ UNCHANGED <<client_sockfd, parentHolds, children, queue, client>>

\* A mutant: the parent keeps its descriptor.
ClosesNothing ==
    /\ parent = "close"
    /\ parent' = "accept"
    /\ UNCHANGED <<client_sockfd, parentHolds, children, queue, client>>

CloseConnection ==
    /\ parent = "close"
    /\ parentHolds' = parentHolds \ {client_sockfd}
    /\ parent' = "accept"
    /\ UNCHANGED <<client_sockfd, children, queue, client>>

\* The listening socket is open as long as some process has it.
Listening == parent # "down" \/ Running # {}

\* The parent is killed.
ParentEnds ==
    /\ parent # "down"
    /\ parent' = "down"
    /\ parentHolds' = {}
    /\ queue' = IF Running = {} THEN <<>> ELSE queue
    /\ UNCHANGED <<client_sockfd, children, client>>

\* A server that is started while the port is in use ends at bind.
Restarts ==
    /\ ~Listening
    /\ parent' = "accept"
    /\ client_sockfd' = Bad
    /\ UNCHANGED <<parentHolds, children, queue, client>>

-----------------------------------------------------------------------------
(* The children and the clients. *)

Released(p) ==
    /\ child' = [child EXCEPT ![p] = Free]
    /\ childHolds' = [childHolds EXCEPT ![p] = {}]
    /\ queue' = IF parent = "down" /\ Running = {p} THEN <<>> ELSE queue
    /\ UNCHANGED <<parents, client>>

\* A mutant: an orphaned child reads on at the end of the file.
EndsOnFileWithParent(p) ==
    /\ p \in Running
    /\ child[p] \in Conns
    /\ client[child[p]] = "closed"
    /\ parent # "down"
    /\ Released(p)

\* The child reads the end of the file: exit(1).
EndsOnFile(p) ==
    /\ p \in Running
    /\ child[p] \in Conns
    /\ client[child[p]] = "closed"
    /\ Released(p)

\* It exits for a wrong request, or is killed.
Dies(p) ==
    /\ p \in Running
    /\ Released(p)

Connects(c) ==
    /\ client[c] = "none"
    /\ Listening
    /\ Len(queue) < Backlog
    /\ queue' = Append(queue, c)
    /\ client' = [client EXCEPT ![c] = "open"]
    /\ UNCHANGED <<parents, children>>

HangsUp(c) ==
    /\ client[c] = "open"
    /\ client' = [client EXCEPT ![c] = "closed"]
    /\ UNCHANGED <<parents, children, queue>>

-----------------------------------------------------------------------------
ParentSteps == Accepts \/ (\E p \in Procs : Forks(p)) \/ ForkFails \/ CloseConnection

Next ==
    \/ ParentSteps
    \/ AcceptFails
    \/ ParentEnds
    \/ Restarts
    \/ \E p \in Procs : EndsOnFile(p) \/ Dies(p)
    \/ \E c \in Conns : Connects(c) \/ HangsUp(c)

Spec == Init /\ [][Next]_vars

(***************************************************************************)
(* The parent runs, and accept returns a connection that waits, though it  *)
(* may fail in between. A child reads the end of its connection. Nobody    *)
(* has to start the server, to hang up or to kill a process.               *)
(***************************************************************************)
FairSpec ==
    /\ Spec
    /\ WF_vars(ParentSteps) /\ SF_vars(Accepts)
    /\ \A p \in Procs : WF_vars(EndsOnFile(p))

-----------------------------------------------------------------------------
(* Properties. *)

\* A connection is open in one child at most, and in the parent only until it
\* has forked for it: when its child ends the client sees the end of the
\* connection, whatever else was accepted or failed meanwhile (server.c:117).
OwnConnection ==
    /\ parent \in {"accept", "down"} => parentHolds = {}
    /\ parent \in {"fork", "close"} => parentHolds = {client_sockfd} \ {Bad}
    /\ \A p \in Procs : childHolds[p] = {child[p]} \ {Bad, Free}
    /\ \A p, q \in Procs : p # q => childHolds[p] \cap childHolds[q] = {}

\* Where a connection is: with the child, if it has a descriptor of it.
Place(c) ==
    CASE client[c] = "none"                     -> "none"
      [] \E i \in DOMAIN queue : queue[i] = c   -> "waiting"
      [] parent = "fork" /\ c \in parentHolds   -> "accepted"
      [] \E p \in Procs : c \in childHolds[p]   -> "served"
      [] OTHER                                  -> "over"

\* The connections are accepted in their order, each is handed to one child at
\* most, and none that was given up, because fork failed or its child ended, is
\* open in a process again (server.c:72-118).
Clients == INSTANCE Handover WITH place <- [c \in Conns |-> Place(c)], waiting <- queue

HandsOver == Clients!Spec

\* A connection that waits is accepted while the parent runs, also after failed
\* accepts have left children that never end (server.c:76-118).
ConnectionsAccepted ==
    \A c \in Conns : (\E i \in DOMAIN queue : queue[i] = c)
        ~> (parent = "down" \/ ~\E i \in DOMAIN queue : queue[i] = c)

\* After the end of the parent the port is free again unless a client stays, or a
\* child that never had one: the children have the listening socket too
\* (server.c:53-58 and 89-116).
PortFreed ==
    parent = "down" ~>
        \/ ~Listening
        \/ \E p \in Procs : child[p] = Bad \/ (child[p] \in Conns /\ client[child[p]] = "open")
=============================================================================
