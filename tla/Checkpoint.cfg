SPECIFICATION CheckpointSpec
CONSTANTS
    Procs = {p, q}
    Files = {f}
    MaxPrompts = 3
    MaxToolTurns = 2
    MaxWrites = 1
    Cap = 1
    MaxRewinds = 1
    MaxFailures = 1
INVARIANTS PreimagesFromStart BlobsBehindManifests
PROPERTIES ManifestsKept
CHECK_DEADLOCK FALSE
