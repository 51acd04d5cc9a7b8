SPECIFICATION CiFairSpec
CONSTANTS
  iterations = 2
  MaxReboots = 1
INVARIANTS
  CiTypeOK
  DrawnFromEntropy
  OneAfterTheOther
  Released
  PassMeansDone
  FailForCause
PROPERTIES
  Judged
  SourceOff
CHECK_DEADLOCK FALSE
