SPECIFICATION CacheSpec
CONSTANTS
    Callers = {a, b}
    MaxChanges = 3
INVARIANT SavesAppearUnlessOvertaken
PROPERTY ListingCatchesUp
CHECK_DEADLOCK FALSE
