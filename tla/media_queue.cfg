SPECIFICATION FairSpec
CONSTANTS
  s1 = s1
  s2 = s2
  Slot = {s1, s2}
  MaxAttempts = 1
  MaxMishaps = 2
INVARIANTS
  TypeOK
  NoCaptureLost
PROPERTIES
  EveryCaptureRetires
CHECK_DEADLOCK FALSE
