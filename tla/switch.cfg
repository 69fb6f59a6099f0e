SPECIFICATION Spec
CONSTANTS
    i1 = i1
    i2 = i2
    None = None
    Incident = {i1, i2}
    MaxTaps = 3
    MaxEdits = 2
    MaxFaults = 1
    MaxLeaves = 1
INVARIANTS
    TypeOK
    OneWriter
    NeverOlderTap
    WorkHeldInOrder
CHECK_DEADLOCK FALSE
SYMMETRY Incidents
