SPECIFICATION Spec
CONSTANTS
    Attempts = {a1, a2, a3}
    Threshold = 2
    HalfOpenProbes = 2
INVARIANTS ClosedIsBelowThreshold
PROPERTIES CooldownRespected
SYMMETRY Symmetry
