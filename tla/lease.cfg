SPECIFICATION FairSpec
CONSTANTS
    a1 = a1
    a2 = a2
    a3 = a3
    p1 = p1
    p2 = p2
    p3 = p3
    Actor = {a1, a2, a3}
    Process = {p1, p2, p3}
    Host = {"local", "remote"}
    ProcOf <- OneEach
    HostOf <- SameMachine
    RecoverStale = {a1, a2}
    MaxRecoveries = 1
    MaxRemoved = 1
    MaxForced = 1
    MaxPidTaken = 1
    MaxCrashes = 2
    NoFile = NoFile
INVARIANTS
    SoleWriter
    HolderRecordSurvives
PROPERTIES
    LiveRecordStays
    NothingHangs
CHECK_DEADLOCK FALSE
