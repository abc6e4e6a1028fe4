SPECIFICATION Spec
CONSTANTS
  None = None
  UsizeRange = 8
  Profiles <- MCStackProfiles
INVARIANTS
  OutOfRangeIsUnresolved
CHECK_DEADLOCK FALSE
