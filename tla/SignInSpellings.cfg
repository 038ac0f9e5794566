SPECIFICATION Spec
CONSTANTS
    SignInReplicas = {r1, r2}
    People = {p1, p2}
    Spellings = {s1, s2}
    Tries <- MCTries
    maxFailedAttempts = 2
    lockoutWindow = 2
    SeenReplicas = {r1, r2}
    MaxSightings = 4
INVARIANT AccountIsBounded
