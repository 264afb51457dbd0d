SPECIFICATION Spec
CONSTANTS
    s1 = s1
    s2 = s2
    a1 = a1
    a2 = a2
    dapp = dapp
    Sessions <- MCSessions
    ApprovalIds <- MCIds
    Origins <- MCOrigins
    Inputs <- ApprovalInputs
    AutoLockChoices = {2}
    DefaultAutoLock = 2
    ApprovalTimeout = 1
    MaxPending = 1
    MaxTime = 2
    MaxQueue = 1
    NoSession = NoSession
    NoTimer = NoTimer
SYMMETRY Symmetry
INVARIANTS
    PendingOwned
    OneShot
    PendingBounded
PROPERTY
    KeepsPromise
CHECK_DEADLOCK TRUE
