SPECIFICATION FairSpec
CONSTANTS
    Publisher = {p1, p2}
    p1 = p1
    p2 = p2
    MaxRow = 4
    BatchSize = 2
    Poison = {1}
    Delayed = {3}
    MaxFaults = 2
INVARIANTS
    CopiesNeedFaults
    StampedIsSent
    CalmIsInOrder
PROPERTIES
    OthersGetThrough
CHECK_DEADLOCK FALSE
