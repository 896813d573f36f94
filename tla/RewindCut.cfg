SPECIFICATION CSpec
CONSTANTS
    Procs = {p}
    Files = {f}
    MaxPrompts = 2
    MaxToolTurns = 1
    MaxWrites = 1
    Cap = 1
    MaxRewinds = 1
    MaxFailures = 0
PROPERTIES CutsBetweenPrompts
CHECK_DEADLOCK FALSE
