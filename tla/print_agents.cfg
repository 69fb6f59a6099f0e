SPECIFICATION Spec
CONSTANTS
  a1 = a1
  a2 = a2
  Agent = {a1, a2}
  MaxJobs = 2
  MaxMishaps = 1
INVARIANTS
  HandedOutOnce
CHECK_DEADLOCK TRUE
