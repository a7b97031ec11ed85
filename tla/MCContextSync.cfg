SPECIFICATION Spec
CONSTANTS
    Window = {code, idea}
    None = None
    JetBrains = {idea}
    MaxChan = 2
INVARIANTS
    TypeOK
    EditorsInSyncUnlessOvertaken
    ToldHere
    NothingShownWithoutEditors
PROPERTIES
    LastNoticeIsCurrent
