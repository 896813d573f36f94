SPECIFICATION FairSpec
CONSTANTS
    Ids = {a, b, c}
    First = a
    Last = c
    Handlers = {h1, h2}
    NoId = NoId
    PortBase = 1
    MaxPort = 2
    MaxRequests = 3
    MaxRestarts = 1
    MaxWriteFails = 1
INVARIANTS LiveRecordHasOwner WorktreesAccounted PortsDistinct
PROPERTIES ImplementsLifecycle StopSignalsWorker ExitIsRecorded
CONSTRAINTS InOrder FirstIsolated OneFault LastAlone
CHECK_DEADLOCK FALSE
