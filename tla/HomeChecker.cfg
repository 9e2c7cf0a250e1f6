SPECIFICATION MCSpec
CONSTANTS
    Ids = {a, b, c}
    MaxAge = 1
    MaxReplayEntries = 2
    MaxTime = 2
    Slots = {r1, r2}
    MaxImages = 2
    MaxHits = 1
    MaxRedirects = 1
    MaxCalls = 2
    MaxAccepted = 6
    RequestTime = 1
INVARIANTS NoEarlyRepeat HonestReport UploadsAreRemoved
PROPERTIES AnswerStays AnalysisIsAnswered
CHECK_DEADLOCK FALSE
