SPECIFICATION Spec
CONSTANTS
    a = a
    b = b
    c = c
    far = far
    sys1 = sys1
    sys2 = sys2
    NoTab = NoTab
    Unmade = Unmade
    Nothing = Nothing
    Tab = {t1, t2}
    Row = {a}
    Live = {}
    Bad = {}
    Elsewhere = {far}
    Boundary = {}
    Batch = 2
    MaxFaults = 0
    MaxUnread = 0
    MaxOpens = 2
    MaxTakeOvers = 1
INVARIANTS
    NoSilentLossInOrder
PROPERTIES
    ImplementsVerlauf
CHECK_DEADLOCK FALSE
