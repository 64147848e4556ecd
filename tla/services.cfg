SPECIFICATION ServicesSpec
CONSTANTS
    MaxObservations = 5
    MaxFaults = 2
    MaxVersion = 3
    Permissions = {"p"}
    Grants <- SecondGrants
    Requests = {"r1", "r2"}
    MaxTampers = 1
    MaxPluginCrashes = 2
    Submissions = {"a1", "a2"}
    DedupeKey <- OneDedupeKey
    Conversations = {"s1", "s2"}
    RateLimit = 1
    MaxRuns = 3
    MaxDedupeWindows = 1
    MaxStops = 1
    ProjectCalls = {"c1", "c2", "c3"}
    Edits = {"e1", "e2", "e3"}
    WorkflowRuns = {"r1"}
    Steps = {1, 2}
    MaxPauses = 1
    BrowserCalls = {"c1", "c2"}
    MaxPid = 2
    MaxWindows = 2
    Invocations = {"i1", "i2"}
    NoInv = "none"
    BaseKeys = {"k1"}
    MutationKey <- OneMutationKey
    MaxCalls = 2
    Terminal = {"t1", "t2"}
    Execs = {"x1"}
    MaxSessions = 1
    MaxPending = 2
    MaxWrites = 2
    MaxCrashes = 1
INVARIANTS
    FreshGrounding
    InputOnce
    AgentCanMove
    AlertsKept
    ReferencesHold
    MutationsAccounted
    TerminalsContained
PROPERTIES
    InputUnderControl
    HonestRecord
    DecisionsHold
CHECK_DEADLOCK FALSE
