SPECIFICATION MCSpec
CONSTANTS
    Requests = {r1, r2}
    NoRun = NoRun
    MaxTurns = 1
    MaxDeletes = 1
    MaxCrashes = 1
    Tasks = {"t1"}
    Past = "t0"
    Guards = {"g1", "g2"}
    Approvals = {1}
    MaxFacts = 5
    MaxActs = 1
    MaxBrowserChanges = 1
    MaxLapses = 1
    Data = {"a", "b"}
    TotalRow = "sum"
    Values = {1, 2}
    MaxPages = 2
    Retries = 1
    MaxTableChanges = 1
    Clients = {"A", "B"}
    Planned = {"A"}
    First <- ByName
    Sessions = {"a1", "b1", "b2"}
    ClientOf <- WorkspaceOf
    Old = {"b1"}
    Nobody = "nobody"
    MaxClicks = 2
    MaxWrites = 1
    MaxRev = 2
    Paths = {"f", "d/n"}
    Contents = {"t", "u", "empty"}
    NoFile = "absent"
    Unmarked = {"empty"}
    NewDirs = {"d/n"}
    FirstTrees <- FirstCommits
    MaxEdits = 4
    MaxRestores = 1
INVARIANTS
    RunAccountedFor
PROPERTIES
    StopHolds
    EveryMessageAnswered
    EvidenceHolds
    ScreenHolds
    CheckpointsHold
CHECK_DEADLOCK FALSE
