SPECIFICATION FairSpec
CONSTANTS
    MaxCalls = 4
    Keys = {k1, k2}
    NoKey = NoKey
    Limit = 2
INVARIANTS SameKeyInOrder PermitsDoWork
PROPERTIES AllReturn
CHECK_DEADLOCK FALSE
