SPECIFICATION FairSpec
CONSTANTS
    Client = {c1, c2}
    Review = {r1}
    MaxEdits = 1
    MaxAttempts = 2
    None = None
INVARIANTS
    TypeOK
    AnswerIsDecision
    OpenIsKnown
    StopWaitsForAsked
PROPERTIES
    ShutdownIsLast
    StopEnds
    CloseIsAnswered
CHECK_DEADLOCK FALSE
