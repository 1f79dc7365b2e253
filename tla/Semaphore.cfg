SPECIFICATION FairSpec
CONSTANTS
    Worker = {w1, w2, w3}
    w1 = w1
    w2 = w2
    w3 = w3
    Limit = 2
    LeaseTicks = 3
    BeatTicks = 1
    MaxSkew = 1
    MaxFaults = 2
INVARIANTS
    BeatingHoldsPermit
    ProtectedCallsWithinLimit
PROPERTIES
    PermitsComeBack
