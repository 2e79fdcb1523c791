\* Two users; every property of the room, the fairness of its one thread included.
SPECIFICATION FairSpec
CONSTANTS
    c1 = c1
    c2 = c2
    Clients = {c1, c2}
    Nicks = {1, 2}
    NickOf <- MCTwoUsers
    NullPrx = NullPrx
    NoEntry = NoEntry
    Nobody = Nobody
INVARIANTS
    TypeOK
    ListedOnce
    LoopInv
    InOrderAgrees
PROPERTIES
    KeepsPromise
    CallsAnswered
CHECK_DEADLOCK FALSE
