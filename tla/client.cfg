\* Two users of one room, each with a name of its own, and one process of the
\* other side that ends; the second joining of the room shows two places.
SPECIFICATION FairSpec
CONSTANTS
    a = a
    b = b
    Clients = {a, b}
    Nicks = {1, 2}
    NickOf <- OwnNicks
    Rooms = {r1}
    NullPrx = NullPrx
    NoEntry = NoEntry
    NoRoom = NoRoom
    NoNick = NoNick
    MaxJoined = 2
    MaxCrashes = 1
INVARIANTS
    TypeOK
    Known
    EndsWithoutTrace
    LeftSoFar
    TargetIsNamed
PROPERTIES
    ExitEnds
    UsersReached
CHECK_DEADLOCK FALSE
