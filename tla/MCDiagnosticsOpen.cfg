SPECIFICATION Spec
CONSTANTS
    File = {f1, f2}
    Project = {"p1", "p2"}
    ProjectOf <- MCProjectOf
    Kinds = {"vscode"}
    None = None
    MaxReqs <- MCMaxReqs
    MaxChan <- MCMaxChan
INVARIANTS
    OpenFilesInSync
