SPECIFICATION FairSpec
CONSTANTS
    Slots = {s1, s2}
    MaxFails = 2
    MaxStarts = 2
    MaxTroubles = 2
    MaxGates = 1
INVARIANTS NobodyForgotten OneReleaseEach OneRestart
PROPERTY BuildWatchEnds
CHECK_DEADLOCK FALSE
