SPECIFICATION SignerSpec
CONSTANTS
    p1 = p1
    p2 = p2
    r1 = r1
    r2 = r2
    r3 = r3
    r4 = r4
    t1 = t1
    t2 = t2
    Procs <- MCProcs
    Requests <- MCRequests
    Spenders <- MCSpenders
    NRelays = 2
    Nothing = Nothing
SYMMETRY Symmetry
INVARIANTS
    ReleasedRecoverable
    OneReceipt
    PreconfirmedHolds
CHECK_DEADLOCK FALSE
