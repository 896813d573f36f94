SPECIFICATION FairSpec
CONSTANTS
    Calls <- MCCalls
    ReadOnly = {"read"}
    Edits = {"write"}
    Enter = "enter"
    Exit = "exit"
    Trusted = {"read", "enter", "exit"}
    AutoHard = {}
    AutoSoft = {"write"}
    AutoAllow = {"read"}
    Patterns <- MCPatterns
    Setups <- MCSetups
    MaxCalls = 2
    MaxRules = 2
    MaxKeys = 3
    Nothing = Nothing
INVARIANT NothingStranded
PROPERTIES DenyHolds AllowedWasShown GateReturns
CHECK_DEADLOCK FALSE
