SPECIFICATION Spec
CONSTANTS
    MaxConn = 2
    MaxCalls = 3
    Tools = {"read", "diff"}
    JetBrains = {2}
CHECK_DEADLOCK FALSE
INVARIANTS
    TypeOK
    AnswerIsOwn
    NoneLeftPending
    NothingRefused
PROPERTIES
    ImplementsContract
