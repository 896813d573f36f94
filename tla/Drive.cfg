SPECIFICATION FairSpec
CONSTANTS
    Surfaces = {"acp", "poll"}
    Settle = 3
    HubCap = 1
    MaxEvents = 2
    MaxAsks = 2
    MaxPrompts = 2
    MaxCancels = 1
INVARIANTS NeverFailsOpen UpdatesOnce
PROPERTIES ReplyAfterTurn PromptsReturn DisconnectEndsRun
CHECK_DEADLOCK FALSE
