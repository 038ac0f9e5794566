SPECIFICATION FairSpec
CONSTANTS
    Slots = {s1, s2}
    MaxFails = 2
    MaxStarts = 1
    MaxTroubles = 0
    MaxGates = 1
PROPERTY NeverWaitsSilently
CHECK_DEADLOCK FALSE
