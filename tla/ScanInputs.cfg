SPECIFICATION Spec
CONSTANTS
  p1 = p1
  p2 = p2
  star = star
  one = one
  open = open
  Calls = {c1}
  Profiles = {p1, p2}
  RowCount <- MCRowCount
  EmptyBytes = EmptyBytes
  BadGzip = BadGzip
  BadProto = BadProto
  NoFile = NoFile
  NoError = NoError
  Paths <- MCPaths
  Name <- MCLossyName
  Dirs <- MCDirs
  DirOf <- MCLossyDirOf
  Globs <- MCGlobs
  Malformed <- MCMalformed
  Matches <- MCLossyMatches
  Text <- MCTwoText
  Absent = Absent
  Unreadable = Unreadable
  InFlux = InFlux
  NullElem = NullElem
  NullBlob = NullBlob
  Args <- MCEveryArg
  NoArg = NoArg
  Fits <- MCFits
  Contents <- MCWide
  MaxChanges = 1
INVARIANTS
  QuietCallIsExact
  SteadyFileIsExact
