SPECIFICATION RestartSpec
CONSTANTS
    Clicks = {c1, c2}
    Polls = {p1, p2}
    restartDedupeWindow = 1
    MAX_FAILS = 2
    MaxClock = 2
    MaxTemplate = 3
    MaxWatches = 2
    MaxReloads = 1
PROPERTY EveryWatchEnds
CHECK_DEADLOCK FALSE
