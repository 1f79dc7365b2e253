SPECIFICATION FairSpec
CONSTANTS
    Orchestrator = {o1, o2}
    o1 = o1
    o2 = o2
    Request = {r1}
    r1 = r1
    Key = {k1}
    k1 = k1
    Chunk = {c1, c2}
    c1 = c1
    c2 = c2
    MaxChunkRetry = 1
    Corrector = {v1}
    v1 = v1
    Entry = {e1}
    e1 = e1
    MaxRetry = 1
    Text = {t1}
    t1 = t1
    NoMessage = NoMessage
    NoText = NoText
    MaxOrchestratorFaults = 0
    MaxCorrectorFaults = 1
INVARIANTS
    OneAnnouncement
PROPERTIES
    OrchestratorSpec
    CorrectionSpec
    TranscriptionEnds
