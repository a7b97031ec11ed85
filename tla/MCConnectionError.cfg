SPECIFICATION Spec
CONSTANTS
    Client = {c1, c2}
    Ide = {1, 2}
    Matching = {1, 2}
    EnvPort = None
    None = None
    ErrorAfterOpen = TRUE
    ScanRace = FALSE
INVARIANTS
    NeverStranded
