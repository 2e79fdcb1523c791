\* Three connections, two processes besides the parent, a full queue.
SPECIFICATION FairSpec
CONSTANTS
    Conns = {c1, c2, c3}
    Procs = {p1, p2}
    Bad = Bad
    Free = Free
    Backlog = 2
INVARIANTS
    TypeOK
    OwnConnection
PROPERTIES
    ConnectionsAccepted
    PortFreed
    HandsOver
CHECK_DEADLOCK FALSE
