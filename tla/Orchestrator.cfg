SPECIFICATION FairSpec
CONSTANTS
    Worker = {w1, w2}
    w1 = w1
    w2 = w2
    Message = {r1, r2}
    r1 = r1
    r2 = r2
    NoMessage = NoMessage
    Key = {k1, k2}
    k1 = k1
    k2 = k2
    MaxFaults = 2
INVARIANTS
    NoLostRequest
    ChunksOfOneSource
    FailureIsRetried
PROPERTIES
    NoSecondStart
    RequestsSettle
