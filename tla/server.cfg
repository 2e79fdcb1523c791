\* Two factories, and a server that is started up to three times; every safety property.
SPECIFICATION Spec
CONSTANTS
    a = a
    b = b
    c1 = c1
    c2 = c2
    f1 = f1
    f2 = f2
    NoRoom = NoRoom
    NullPrx = NullPrx
    NoName = NoName
    Nobody = Nobody
    Names = {a, b}
    Factories = {f1, f2}
    Callers = {c1, c2}
    MaxCrashes = 2
SYMMETRY Symmetric
INVARIANTS
    TypeOK
    NamesListedOnce
    RoomsWhole
    OnlyOrphansMetAgain
    RegisteredOnce
PROPERTIES
    ImplementsDirectory
    DeadFactoryBlocks
