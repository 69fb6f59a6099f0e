SPECIFICATION Spec
CONSTANTS
    a = a
    b = b
    c = c
    far = far
    sys1 = sys1
    sys2 = sys2
    NoTab = NoTab
    Unmade = Unmade
    Nothing = Nothing
    Tab = {t1}
    Row = {a, b}
    Live = {a}
    Bad = {b}
    Elsewhere = {}
    Boundary = {sys1}
    Batch = 2
    MaxFaults = 1
    MaxUnread = 1
    MaxOpens = 2
    MaxTakeOvers = 0
INVARIANTS
    TypeOK
    NoSilentLossInOrder
PROPERTIES
    ImplementsVerlauf
CHECK_DEADLOCK FALSE
