SPECIFICATION FairSpec
CONSTANTS
    Clients = {c1, c2}
    Cap = 2
    InboxCap = 1
    IdlePolls = 1
    MaxEvents = 3
    MaxFrames = 2
    MaxLives = 2
    Unsaved = Unsaved
INVARIANTS AttachSeesAll FramesInOrder EndImpliesSaved RunNeverBlocked
PROPERTIES NoTimeoutUnderOperator UnattendedEnds
CHECK_DEADLOCK FALSE
