SPECIFICATION SyncSpec
CONSTANTS
    r1 = r1
    r2 = r2
    h1 = h1
    h2 = h2
    ivan = ivan
    admin = admin
    all = all
    some = some
    id1 = id1
    pw = pw
    NoSpec = NoSpec
    NoPassword = NoPassword
    NoUser = NoUser
    Gone = Gone
    Nobody = Nobody
    Users <- MCUsers
    Roles <- MCRoles
    Specs <- MCSpecs
    Identities <- MCIdentities
    Passwords <- MCPasswords
    DeployedRoles <- MCDeployedRoles
    Handlers <- MCHandlers
    Replicas <- TwoReplicas
    Calls <- MCCalls
    MaxAttempts = 2
    MaxEdits = 2
    MaxFaults = 0
    MaxDrops = 1
    MaxStarts = 2
    MaxDeletions = 1
SYMMETRY Symmetry
INVARIANTS InForceUnlessCrossed
CHECK_DEADLOCK FALSE
