SPECIFICATION CommandFairSpec
CONSTANTS
    Client = {c1, c2}
    Ide = {1, 2}
    Matching = {1}
    EnvPort = None
    None = None
    ErrorAfterOpen = FALSE
    ScanRace = FALSE
    DirOrder <- MCDirOrder
INVARIANTS
    CommandTypeOK
    NeverStranded
    AwaitedIsPending
PROPERTIES
    ReconnectsWhenCalm
    CommandReturns
    ConnectedIsTrue
