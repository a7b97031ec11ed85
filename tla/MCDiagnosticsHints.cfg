SPECIFICATION FairSpec
CONSTANTS
    File = {f1}
    Project = {"p1", "p2"}
    ProjectOf <- MCProjectOf
    Kinds = {"vscode", "jetbrains"}
    None = None
    MaxReqs <- MCMaxReqs
    MaxChan <- MCMaxChan
INVARIANTS
    TypeOK
    HintsHonoured
    ActiveFilesInSyncOnJetbrains
PROPERTIES
    HintLeadsToPull
