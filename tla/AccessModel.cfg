SPECIFICATION MCSpec
CONSTANTS
    ivan = ivan
    maria = maria
    admin = admin
    viewer = viewer
    all = all
    id1 = id1
    id2 = id2
    pw = pw
    NoSpec = NoSpec
    NoPassword = NoPassword
    NoUser = NoUser
    NoModel = NoModel
    Users <- MCUsers
    Roles <- MCRoles
    Specs <- MCSpecs
    Identities <- MCIdentities
    Passwords <- MCPasswords
    DeployedRoles <- MCDeployedRoles
    Calls <- MCCalls
    MaxBatch = 1
    SessionReplicas = {r1, r2}
    Person = ivan
    Identity = id1
    Granted <- MCGranted
    bootstrapRoles = {admin}
    fileRoles = {admin}
    MaxRestarts = 1
    Movers = {m1, m2}
    MaxFileChanges = 3
SYMMETRY Anyhow
INVARIANTS DeletionsRevoke RetriesAreHarmless
INVARIANTS RevokedIsRefused
INVARIANTS FileKeepsChanges MoveCarriesTheFile
