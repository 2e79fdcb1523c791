SPECIFICATION Spec
CONSTANTS
    c1 = c1
    c2 = c2
    Clients = {c1, c2}
    Nicks = {1, 2}
    NickOf <- MCTwoUsers
    NullPrx = NullPrx
    NoEntry = NoEntry
    Nobody = Nobody
PROPERTIES
    LeaveUnlists
CHECK_DEADLOCK FALSE
