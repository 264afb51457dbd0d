SPECIFICATION FairSpec
CONSTANTS
    s1 = s1
    s2 = s2
    a1 = a1
    a2 = a2
    dapp = dapp
    Sessions <- MCSessions
    ApprovalIds = {a1}
    Origins <- MCOrigins
    Inputs <- LockInputs
    AutoLockChoices <- MCChoices
    DefaultAutoLock = 1
    ApprovalTimeout = 1
    MaxPending = 1
    MaxTime = 2
    MaxQueue = 1
    NoSession = NoSession
    NoTimer = NoTimer
INVARIANT
    AutoLockArmed
PROPERTY
    OverdueLocks
