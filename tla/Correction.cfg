SPECIFICATION FairSpec
CONSTANTS
    Worker = {w1, w2}
    w1 = w1
    w2 = w2
    Message = {m1, m2}
    m1 = m1
    m2 = m2
    NoMessage = NoMessage
    MaxRetry = 1
    Text = {t1, t2}
    t1 = t1
    t2 = t2
    NoText = NoText
    MaxFaults = 2
INVARIANTS
    OneOutcome
    StatusTellsOutcome
    NoLostTranscript
    AnnouncedIsStored
PROPERTIES
    CorrectionSettles
