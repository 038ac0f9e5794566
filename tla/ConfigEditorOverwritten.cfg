SPECIFICATION Spec
CONSTANTS
    a = a
    b = b
    Nowhere = Nowhere
    Paths <- MCPaths
    MaxWaits = 2
    MaxEdits = 1
    MaxSaves = 1
    MaxCommits = 1
    MaxErrors = 0
INVARIANT NothingOverwritten
CHECK_DEADLOCK FALSE
