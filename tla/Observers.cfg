SPECIFICATION ApiSpec
CONSTANTS
    Chunk = {c1, c2, c3, c4}
    c1 = c1
    c2 = c2
    c3 = c3
    c4 = c4
    Worker = {w1}
    w1 = w1
    MaxRetry = 0
    MinRatioDelta = 50
    MaxFaults = 0
    NoMessage = NoMessage
    NotRead = NotRead
SYMMETRY Symmetry
INVARIANTS
    ProgressTellsVerdict
    ProgressNeverFarBehind
    AnswerIsBorneOut
    AvailableIsServed
