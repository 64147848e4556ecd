SPECIFICATION MCSpec
CONSTANTS
    tick = tick
    rn1 = rn1
    ap1 = ap1
    ap2 = ap2
    pause = pause
    del = del
    Caller = {tick, rn1, ap1, ap2, pause, del}
    KindOf <- Kinds
    Run = {r1, r2, r3, r4, r5}
    NoRun = NoRun
    Window = 2
    Period = 1
    DayLength = 2
    MaxRunsPerDay = 2
    Cost = 1
    MaxCost = 2
    MaxNow = 2
    MaxCrashes = 1
    MicroTasks = {"m1", "m2", "i1"}
    Mutating = {"m1", "m2"}
    KeyOf <- OnePlan
    MaxAttempts = 2
    MaxMicroCalls = 2
    MaxMicroControls = 2
    PageTasks = {"t"}
    Pages = {"p1", "p2", "elsewhere"}
    AllowedPages = {"p1", "p2"}
    StartPage = "p1"
    MaxNavs = 1
    MaxPageControls = 2
    MaxPageCalls = 3
    MayGiveUp = TRUE
    Inputs = {"r1", "r2", "r3"}
    ActionOf <- TwoActions
    InputKind <- InputKinds
    MaxCaptures = 2
    MaxTouches = 1
    MaxCancels = 1
    MaxSwitches = 1
INVARIANTS
    OneAtATime
    EffectOncePerKey
    AdmittedWithinCap
PROPERTIES
    InputHolds
CHECK_DEADLOCK FALSE
