SPECIFICATION Spec
CONSTANTS
    a = a
    b = b
    Nowhere = Nowhere
    Paths <- MCPaths
    MaxWaits = 2
    MaxEdits = 1
    MaxSaves = 2
    MaxCommits = 1
    MaxErrors = 1
SYMMETRY Symmetry
INVARIANTS OverwrittenOnlyIfKept NobodyWaitsForNothing
CHECK_DEADLOCK FALSE
