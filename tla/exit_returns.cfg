SPECIFICATION Spec
CONSTANTS
    a = a
    b = b
    Clients = {a, b}
    Nicks = {1, 2}
    NickOf <- OwnNicks
    Rooms = {r1}
    NullPrx = NullPrx
    NoEntry = NoEntry
    NoRoom = NoRoom
    NoNick = NoNick
    MaxJoined = 1
    MaxCrashes = 0
PROPERTY ExitReturns
CHECK_DEADLOCK FALSE
