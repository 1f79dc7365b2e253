SPECIFICATION Spec
CONSTANTS
    Worker = {w1, w2, w3}
    w1 = w1
    w2 = w2
    w3 = w3
    Limit = 2
    LeaseTicks = 3
    BeatTicks = 1
    MaxSkew = 0
    MaxFaults = 1
SYMMETRY Symmetry
INVARIANTS
    CallsWithinLimit
