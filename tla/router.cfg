SPECIFICATION FairSpec
CONSTANTS
    r1 = r1
    r2 = r2
    a1 = a1
    a2 = a2
    o1 = o1
    o2 = o2
    Requests = {r1, r2}
    Origins = {o1, o2}
    ApprovalIds = {a1, a2}
    MaxPerOrigin = 1
    MaxTotal = 2
    MaxCalls = 2
    MaxStorageOps = 1
    MaxRestores = 1
    MaxStops = 1
    Scenarios <- Mixed
    None = None
INVARIANTS
    TypeOK
    SignedWithConsent
    OkMeansSigned
    NoForgottenApproval
PROPERTIES
    AnswerFinal
    EveryCallAnswered
