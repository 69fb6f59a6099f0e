SPECIFICATION FairSpec
CONSTANTS
    d1 = d1
    Server = Server
    Device = {d1}
    Kept = 1
    MaxRev = 2
    MaxFaults = 1
    MaxLifecycle = 1
    MaxQuiet = 1
INVARIANTS
    TypeOK
    HasWhatItPasses
    NoneSleepsOnNews
PROPERTIES
    FollowersCatchUp
CHECK_DEADLOCK FALSE
