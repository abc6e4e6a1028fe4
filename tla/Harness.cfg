SPECIFICATION Spec
CONSTANTS
  t1 = t1
  t2 = t2
  t3 = t3
  Tests <- MCTests
  Form <- MCForm
  NeedsData <- MCNeedsData
  Patterns <- MCPatterns
  Logs <- MCLogs
  MaxTries = 60
CHECK_DEADLOCK FALSE
INVARIANTS
  IndInv
  GreenIsEarned
  NothingIsLeft
PROPERTIES
  EveryRunEnds
