SPECIFICATION FairSpec
CONSTANTS
    a = a
    b = b
    c = c
    far = far
    sys1 = sys1
    sys2 = sys2
    NoTab = NoTab
    Unmade = Unmade
    Nothing = Nothing
    Tab = {t1}
    Row = {a, b}
    Live = {a}
    Bad = {b}
    Elsewhere = {}
    Boundary = {sys1, sys2}
    Batch = 2
    MaxFaults = 1
    MaxUnread = 0
    MaxOpens = 1
    MaxTakeOvers = 0
PROPERTIES
    EverySent
    EveryoneFollows
CHECK_DEADLOCK FALSE
