\* One call of every operation of every interface, on every argument list.
SPECIFICATION FairSpec
CONSTANTS
    k1 = k1
    v1 = v1
    v2 = v2
    Void = Void
    Nothing = Nothing
    Calls = {k1}
    Values = {v1, v2}
    Called <- AllTypes
    MaxCrashes = 1
INVARIANT TypeOK
PROPERTIES
    CallKept
    CallsEnd
CHECK_DEADLOCK FALSE
