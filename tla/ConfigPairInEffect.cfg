SPECIFICATION PairSpec
CONSTANTS
    Editors = {a, b}
    MaxEdits = 3
    MaxCopies = 2
SYMMETRY Anybody
INVARIANTS SavedIsInEffect ConsulViewSaves
