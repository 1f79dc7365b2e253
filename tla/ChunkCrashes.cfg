SPECIFICATION FairSpec
CONSTANTS
    Chunk = {c1}
    c1 = c1
    Worker = {w1, w2}
    w1 = w1
    w2 = w2
    MaxRetry = 1
    MinRatioDelta = 60
    MaxFaults = 1
    NoMessage = NoMessage
INVARIANTS
    NoLostChunk
    StaleRequestsInert
PROPERTIES
    SettledIsFinal
    EveryChunkSettles
