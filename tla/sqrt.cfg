\* Two requests of either kind; every property of a session.
SPECIFICATION FairSpec
CONSTANTS
    x = x
    y = y
    NoNumber = NoNumber
    NoId = NoId
    Numbers = {x, y}
    StackValues = {0, 1, 9}
    MaxRequests = 2
INVARIANTS
    TypeOK
    InStep
    RefusesOnlyForeignIds
PROPERTIES
    AnswersInOrder
    RequestsAnswered
    ChildFollows
CHECK_DEADLOCK FALSE
