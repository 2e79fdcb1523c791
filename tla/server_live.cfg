SPECIFICATION FairSpec
CONSTANTS
    a = a
    b = b
    c1 = c1
    c2 = c2
    f1 = f1
    f2 = f2
    NoRoom = NoRoom
    NullPrx = NullPrx
    NoName = NoName
    Nobody = Nobody
    Names = {a}
    Factories = {f1}
    Callers = {c1, c2}
    MaxCrashes = 1
PROPERTIES
    CallsAnswered
    FactoriesProceed
