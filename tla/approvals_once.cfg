SPECIFICATION Spec
CONSTANTS
    rv = rv
    rv2 = rv2
    ap1 = ap1
    ap2 = ap2
    cm1 = cm1
    cm2 = cm2
    bt = bt
    Handler = {rv, rv2, ap1, ap2, cm1, cm2}
    KindOf <- Kinds
    TokenLife = 2
    PlanExpiry = 1
    MaxNow = 1
    MaxCrashes = 1
    NoToken = NoToken
INVARIANTS
    ExecutesOnce
CHECK_DEADLOCK FALSE
