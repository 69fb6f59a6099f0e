SPECIFICATION FairSpec
CONSTANTS
    d1 = d1
    d2 = d2
    o1 = o1
    o2 = o2
    Absent = Absent
    Null = Null
    Device = {d1, d2}
    Obj = {o1, o2}
    Val = {"v"}
    Sessions <- NarrowSession
    ConflictAttempts = 2
    MaxEdits = 1
    MaxMachine = 1
    MaxFaults = 0
    MaxTeardowns = 1
INVARIANTS
    AncestorOnServer
    CleanIsOnServer
PROPERTIES
    NoWorkLost
    Converges
CHECK_DEADLOCK FALSE
