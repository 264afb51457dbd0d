SPECIFICATION Spec
CONSTANTS
    p1 = p1
    p2 = p2
    send = send
    offer = offer
    take = take
    ecx = ecx
    tok = tok
    dex = dex
    shop = shop
    maker = maker
    Procs = {p1, p2}
    Bundles = {send, offer, take}
    Content <- MCContent
    Assets = {ecx, tok}
    PolicyAsset = ecx
    Policies <- AutoMode
    Window = 2
    MaxTime = 3
    MaxCalls = 2
    None = None
INVARIANT
    RollingLimit
CHECK_DEADLOCK FALSE
