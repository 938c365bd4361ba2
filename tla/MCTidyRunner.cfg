CONSTANTS
  Workers = {t1, t2}
  Databases <- MCDatabases
  Matching <- MCMatching
  NoFile = NoFile
SPECIFICATION Spec
INVARIANTS
    AllCheckedAfterJoin
    ZeroMeansClean
    DirectoryGone
PROPERTIES
    StartedOnce
    EndsUnlessThreadDies
CHECK_DEADLOCK FALSE
