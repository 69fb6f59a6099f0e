SPECIFICATION HSpec
CONSTANTS
    d1 = d1
    d2 = d2
    o1 = o1
    o2 = o2
    Absent = Absent
    Null = Null
    Device = {d1, d2}
    Obj = {o1, o2}
    Val = {"v", "w"}
    Sessions <- Editors
    ConflictAttempts = 2
    MaxEdits = 3
    MaxMachine = 0
    MaxFaults = 0
    MaxTeardowns = 0
INVARIANTS
    TypeOK
    AncestorOnServer
    CleanIsOnServer
    PushesOwnChangesOnly
    DeleteWins
CHECK_DEADLOCK FALSE
SYMMETRY Devices
