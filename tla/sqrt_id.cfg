SPECIFICATION Spec
CONSTANTS
    x = x
    y = y
    NoNumber = NoNumber
    NoId = NoId
    Numbers = {x}
    StackValues = {0, 1, 9}
    MaxRequests = 2
INVARIANTS
    IdCopied
CHECK_DEADLOCK FALSE
