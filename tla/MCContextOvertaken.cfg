SPECIFICATION Spec
CONSTANTS
    Window = {idea}
    None = None
    JetBrains = {idea}
    MaxChan = 2
INVARIANTS
    EditorsInSync
