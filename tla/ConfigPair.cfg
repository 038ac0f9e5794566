SPECIFICATION PairSpec
CONSTANTS
    Editors = {a, b}
    MaxEdits = 3
    MaxCopies = 2
SYMMETRY Anybody
INVARIANT EveryCommitAddsItsEdit
INVARIANT InEffectUnlessBehind
INVARIANT WritesAreOnRecord
INVARIANT VerdictsAreTrue
