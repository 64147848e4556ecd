SPECIFICATION Spec
CONSTANTS
    Steps = 2
    Stopping = {1}
    Resumes = {"r1"}
    Cancels = {"c1"}
    MaxFaults = 0
    MaxCrashes = 0
INVARIANTS
    AbortReachesExecutor
CHECK_DEADLOCK FALSE
