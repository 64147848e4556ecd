SPECIFICATION Spec
CONSTANTS
    create = create
    up1 = up1
    up2 = up2
    purge = purge
    read = read
    up3 = up3
    ups1 = ups1
    ups2 = ups2
    e1 = e1
    e2 = e2
    e3 = e3
    Caller = {ups1, ups2, read}
    KindOf <- Kinds
    Entry = {e1, e2, e3}
    EntryOf <- Entries
    NoCaller = NoCaller
    Mapping = TRUE
    MaxDamages = 0
    MaxFaults = 0
    MaxCrashes = 0
INVARIANTS
    AckedSurvive
CHECK_DEADLOCK FALSE
