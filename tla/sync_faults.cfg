SPECIFICATION Spec
CONSTANTS
    d1 = d1
    d2 = d2
    o1 = o1
    o2 = o2
    Absent = Absent
    Null = Null
    Device = {d1, d2}
    Obj = {o1, o2}
    Val = {"v"}
    Sessions <- Editors
    ConflictAttempts = 2
    MaxEdits = 2
    MaxMachine = 0
    MaxFaults = 1
    MaxTeardowns = 1
INVARIANTS
    ViewIsEntry
PROPERTIES
    NoWorkLost
    VanishesOnlyIfRemoved
CHECK_DEADLOCK FALSE
SYMMETRY Devices
