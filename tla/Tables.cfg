SPECIFICATION Spec
CONSTANTS
  None = None
  UsizeRange = 64
  full = full
  empty = empty
  Profiles <- MCProfiles
  Message <- MCMessage
  EmptyBytes = EmptyBytes
  BadGzip = BadGzip
  BadProto = BadProto
  Absent = Absent
  Unreadable = Unreadable
  InFlux = InFlux
  NoFile = NoFile
  NoError = NoError
  UnitLists <- MCUnitLists
  Limit = 9
  Size <- MCSize
  NumberSize = 1
INVARIANTS
  TypeOK
  BatchIsBlocks
  BatchMatchesSchema
  BatchMatchesDocs
  LostExactlyAtLimit
CHECK_DEADLOCK FALSE
