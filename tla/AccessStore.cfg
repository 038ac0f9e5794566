SPECIFICATION Spec
CONSTANTS
    r1 = r1
    r2 = r2
    ivan = ivan
    admin = admin
    viewer = viewer
    all = all
    some = some
    id1 = id1
    id2 = id2
    pw = pw
    NoSpec = NoSpec
    NoPassword = NoPassword
    NoUser = NoUser
    Gone = Gone
    Nobody = Nobody
    Users <- MCUsers
    Roles <- MCRoles
    Specs <- MCSpecs
    Identities <- MCIdentities
    Passwords <- MCPasswords
    DeployedRoles <- MCDeployedRoles
    Replicas <- MCReplicas
    Calls <- MCRoleCalls
    MaxAttempts = 2
    MaxEdits = 3
    MaxFaults = 1
    MaxDrops = 0
    MaxStarts = 3
    MaxDeletions = 1
SYMMETRY Symmetry
INVARIANTS TypeOK NoLostUpdate AckedDurable CopyIsItsVersion SeedsOnlyAnEmptyModel
PROPERTIES ImplementsSharedModel
CHECK_DEADLOCK FALSE
