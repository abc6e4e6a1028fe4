SPECIFICATION Spec
CONSTANTS
  None = None
  UsizeRange = 64
  Profiles <- MCProfiles
INVARIANTS
  TypeOK
  StacksAgreeWithJoin
  LocationsKeepTheirSlots
  OutOfRangeIsUnresolved
  LabelKeysAreUnique
  FirstLabelWins
CHECK_DEADLOCK FALSE
