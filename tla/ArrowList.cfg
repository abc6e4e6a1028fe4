SPECIFICATION Spec
CONSTANTS
  Half = 4
  Null = Null
  Columns <- MCColumns
INVARIANTS
  IndInv
  NeverSilentlyWrong
  PanicsExactlyAtLimit
CHECK_DEADLOCK FALSE
