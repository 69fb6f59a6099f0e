SPECIFICATION FairSpec
CONSTANTS
  a1 = a1
  a2 = a2
  Agent = {a1}
  MaxJobs = 2
  MaxMishaps = 2
INVARIANTS
  TypeOK
  StampMeansPaper
PROPERTIES
  HeadLetsGoKnowingly
  EveryJobLeavesQueue
CHECK_DEADLOCK TRUE
