\* Messages of several sizes, a size_t of four bits, three failing reads.
SPECIFICATION FairSpec
CONSTANTS
    Sizes <- MCSizes
    Modulus = 16
    Behind = 2
    MaxErrors = 3
INVARIANTS
    TypeOK
    ReturnsAll
PROPERTIES
    LoopEnds
    MovesWhole
CHECK_DEADLOCK FALSE
