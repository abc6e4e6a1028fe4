SPECIFICATION Spec
CONSTANTS
  p1 = p1
  p2 = p2
  star = star
  one = one
  open = open
  Calls = {c1, c2}
  Profiles = {p1, p2}
  RowCount <- MCRowCount
  EmptyBytes = EmptyBytes
  BadGzip = BadGzip
  BadProto = BadProto
  NoFile = NoFile
  NoError = NoError
  Paths <- MCTwoPaths
  Name <- MCTwoName
  Dirs <- MCTwoDirs
  DirOf <- MCTwoDirOf
  Globs <- MCGlobs
  Malformed <- MCMalformed
  Matches <- MCTwoMatches
  Text <- MCTwoText
  Absent = Absent
  Unreadable = Unreadable
  InFlux = InFlux
  NullElem = NullElem
  NullBlob = NullBlob
  Args <- MCTwoArgs
  NoArg = NoArg
  Fits <- MCTwoFits
  Contents <- MCTwoContents
  MaxChanges = 1
INVARIANTS
  IndInv
  ResultsAreObserved
  ProgressIsTraced
PROPERTIES
  AcceptedCallIsResolved
  ImplementsScanAbs
