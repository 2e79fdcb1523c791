SPECIFICATION Spec
CONSTANTS
    a = a
    b = b
    c1 = c1
    c2 = c2
    f1 = f1
    f2 = f2
    NoRoom = NoRoom
    NullPrx = NullPrx
    NoName = NoName
    Nobody = Nobody
    Names = {a, b}
    Factories = {f1, f2}
    Callers = {c1, c2}
    MaxCrashes = 0
SYMMETRY Symmetric
INVARIANTS
    LeastLoadedAsked
