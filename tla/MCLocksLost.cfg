SPECIFICATION Spec
CONSTANTS
  Window = {v, j}
  Vscode = {v}
  Folder = {here}
  Covering = {here}
  None = None
  MaxWrites = 3
  MaxJobs = 1
INVARIANTS LiveLockStays
