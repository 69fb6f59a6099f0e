SPECIFICATION FairSpec
CONSTANTS
    None = None
    Tab = {t1, t2, t3}
    MaxOpens = 3
    MaxTakeOvers = 2
    MaxRejects = 1
INVARIANTS
    TypeOK
    BeliefIsCorrected
PROPERTIES
    ToldBeforeAgain
    OneEdits
CHECK_DEADLOCK FALSE
