SPECIFICATION Spec
CONSTANTS
  p1 = p1
  p2 = p2
  star = star
  one = one
  open = open
  Calls = {c1}
  Profiles = {p1, p2}
  RowCount <- MCRowCount
  EmptyBytes = EmptyBytes
  BadGzip = BadGzip
  BadProto = BadProto
  NoFile = NoFile
  NoError = NoError
  Paths <- MCPaths
  Name <- MCName
  Dirs <- MCDirs
  DirOf <- MCDirOf
  Globs <- MCGlobs
  Malformed <- MCMalformed
  Matches <- MCMatches
  Text <- MCText
  Absent = Absent
  Unreadable = Unreadable
  InFlux = InFlux
  NullElem = NullElem
  NullBlob = NullBlob
  Args <- MCPathArgs
  NoArg = NoArg
  Fits <- MCFits
  Contents <- MCContents
  MaxChanges = 2
INVARIANTS
  TypeOK
  QuietCallIsExact
  SteadyFileIsExact
  ResultFollowsArgument
  ResultsAreObserved
