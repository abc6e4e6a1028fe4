SPECIFICATION Spec
CONSTANTS
  t1 = t1
  t2 = t2
  t3 = t3
  other = other
  Main = Main
  Pprof = Pprof
  Memory = Memory
  Unset = Unset
  NotUnicode = NotUnicode
  Threads <- MCThreads
  Names <- MCNames
  Words <- MCWords
  Arguments <- MCArguments
  NoMode = NoMode
SYMMETRY Symmetry
INVARIANTS
  IndInv
  OneCatalog
  EnvironmentIsExported
  ContainerKeepsArguments
PROPERTY
  GivenIsKept
CHECK_DEADLOCK FALSE
