SPECIFICATION Spec
CONSTANTS
    Ingester = {p1, p2}
    p1 = p1
    p2 = p2
    Request <- Requests
    InitialTerms <- Terms
    Phrase <- Phrases
    Keyword <- Strings
    MaxDay = 1
    Word <- Words
    Break = "BR"
    Window = 2
    MinPercent = 60
    Transcript <- Transcripts
    Said <- Answered
    NotLoaded = NotLoaded
    NoResult = NoResult
INVARIANTS
    DictionaryIntact
    CorrectionIsFaithful
    AuditIsTrue
CHECK_DEADLOCK FALSE
