SPECIFICATION FairSpec
CONSTANTS
  Absent = Absent
  Torn = Torn
  Procs = {p1, p2}
  MaxOps = 2
  MaxFailures = 2
  MaxSwaps = 1
INVARIANTS
  NeverTorn
  AckedIsDurable
  ReportedInPlace
  NothingLeftBehind
  WritesBackWhatItRead
PROPERTIES
  ImplementsAtomicStore
  OperationsEnd
CHECK_DEADLOCK FALSE
