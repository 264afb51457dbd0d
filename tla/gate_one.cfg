SPECIFICATION Spec
CONSTANTS
    p1 = p1
    p2 = p2
    send = send
    offer = offer
    take = take
    ecx = ecx
    tok = tok
    dex = dex
    shop = shop
    maker = maker
    Procs = {p1}
    Bundles = {send, offer, take}
    Content <- MCContent
    Assets = {ecx, tok}
    PolicyAsset = ecx
    Policies <- BothModes
    Window = 2
    MaxTime = 3
    MaxCalls = 3
    None = None
INVARIANTS
    RollingLimit
    AuditedBeforeRelease
    HumanInConfirmMode
PROPERTY
    FailsClosed
CHECK_DEADLOCK FALSE
