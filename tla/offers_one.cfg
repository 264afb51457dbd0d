SPECIFICATION Spec
CONSTANTS
    p1 = p1
    p2 = p2
    c1 = c1
    c2 = c2
    Procs = {p1}
    Coins = {c1, c2}
    Funds = {c1}
    MaxCommands = 4
    None = None
INVARIANTS
    TypeOK
    AddressNotReused
PROPERTY
    OfferedCoinKept
