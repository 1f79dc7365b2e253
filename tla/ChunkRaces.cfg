SPECIFICATION Spec
CONSTANTS
    Chunk = {c1, c2}
    c1 = c1
    c2 = c2
    Worker = {w1, w2}
    w1 = w1
    w2 = w2
    MaxRetry = 1
    MinRatioDelta = 60
    MaxFaults = 0
    NoMessage = NoMessage
SYMMETRY Symmetry
INVARIANTS
    CountersMatchRows
    VerdictFollowsChunks
PROPERTIES
    RefinesLedger
