SPECIFICATION FairSpec
CONSTANTS
    rv = rv
    rv2 = rv2
    ap1 = ap1
    ap2 = ap2
    cm1 = cm1
    cm2 = cm2
    bt = bt
    Handler = {rv, ap1, ap2, cm1, cm2, bt}
    KindOf <- Kinds
    TokenLife = 2
    PlanExpiry = 1
    MaxNow = 1
    MaxCrashes = 1
    NoToken = NoToken
INVARIANTS
    TokenSingleUse
    NoReplayAfterRestart
PROPERTIES
    ExecutionEnds
CHECK_DEADLOCK FALSE
