SPECIFICATION FairSpec
CONSTANTS
    Configs <- MCConfigs
    Responses <- MCResponses
    KeepRecentTurns = 1
    MaxTurns = 2
    MaxAttempts = 2
    MaxMeta = 1
    MaxForced = 1
    MaxCompactFails = 1
    EmptyNudgeMax = 1
    MaxCalls = 2
CHECK_DEADLOCK FALSE
INVARIANTS RequestsWellFormed TurnsCountOnce RoundsBounded ShownOnce
PROPERTIES Terminates StopHalts
