SPECIFICATION MCSpec
CONSTANTS
    Caller = {"create", "up1", "up2", "up3", "purge", "read"}
    KindOf <- KindOfCall
    Entry = {1, 2, 3}
    EntryOf <- EntryOfCall
    NoCaller = NoCaller
    Mapping = FALSE
    MaxDamages = 0
    MaxFaults = 2
    MaxCrashes = 1
    MappingCalls = {"ups1", "ups2", "ups3", "mark1", "mark2"}
    MappingKindOf <- KindOfMapping
    MappingEntries = {"e1", "e2", "e3"}
    MappingEntryOf <- EntryOfMapping
    MaxMappingDamages = 2
    MaxMappingFaults = 1
    MaxMappingCrashes = 1
    TreeRuns = {"m1", "m2"}
    MaxForks = 1
    MaxTreeCrashes = 1
    Conversations = {"a"}
    SessionIds = {1, 2}
    NoId = 0
    Migrations = {"m1"}
    MaxRevision = 4
    MaxSessionCrashes = 1
    Agents = {"a1"}
    Requests = {"w1"}
    OpsOf <- PlanOps
    MaxTasks = 3
    MaxPlanFaults = 1
INVARIANTS
    RecordsSurvive
    MappingAndPlanHold
PROPERTIES
    CommitsWhatItRead
    RegisterSpec
    ConversationsKept
    EveryCallAnswered
CHECK_DEADLOCK FALSE
