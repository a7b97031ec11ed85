SPECIFICATION Spec
CONSTANTS
    Client = {c1, c2, c3}
    Ide = {1, 2}
    Matching = {2}
    EnvPort = 1
    None = None
    ErrorAfterOpen = TRUE
    ScanRace = TRUE
SYMMETRY ClientSymmetry
INVARIANTS
    TypeOK
    OneLiveSocket
    StoppedIsQuiet
PROPERTIES
    NoStaleClose
    StrandedByTwoOnly
    ImplementsLink
