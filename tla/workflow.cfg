SPECIFICATION FairSpec
CONSTANTS
    Steps = 2
    Stopping = {1}
    Resumes = {"r1", "r2"}
    Cancels = {"c1", "c2"}
    MaxFaults = 1
    MaxCrashes = 1
INVARIANTS
    StepsInOrderOnce
PROPERTIES
    CancelHolds
    CancelSettles
CHECK_DEADLOCK FALSE
