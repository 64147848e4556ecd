SPECIFICATION EffectsSpec
CONSTANTS
    Requests = {"h1", "h2"}
    NoReq = NoReq
    Mutating = {"h1"}
    MaxQueue = 2
    MaxHosts = 2
    NoRun = NoRun
INVARIANTS
    HelperUnderControl
PROPERTIES
    StartedEnds
    DueSlotConsumed
CHECK_DEADLOCK FALSE
