SPECIFICATION Spec
CONSTANTS
    Attempts = {a1, a2}
    Threshold = 1
    HalfOpenProbes = 1
INVARIANT ProbeSlotOwned
