SPECIFICATION Spec
CONSTANTS
    FrameTicks = 2
    GapTicks = 3
    MaxTicks = 15
    Padding = 2
    TriggerPercent = 80
    MaxFrames = 8
    EchoTicks = 1
    Said <- SmallSaid
    MaxSegments = 2
INVARIANTS
    ChunksWithinLimit
    PiecesAreExact
    FramesAreKept
    MappingIsFaithful
    MergeIsOrderly
CHECK_DEADLOCK FALSE
