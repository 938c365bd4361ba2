CONSTANTS
  Counts = {0, 1, 2, 3, 4, 5}
  JobOptions <- MCJobOptions
  Cpus = 1
  PipeSize = 1
  MaxNoise = 2
  Plain <- MCPlain
  Dirs <- MCDirs
  Extensions = {"c"}
  IgnoreFiles <- MCIgnoreFiles
  Excludes <- MCExcludes
  Arguments <- MCArguments
SPECIFICATION ScriptSpec
INVARIANTS ListsExactly NoFalseSuccess
PROPERTIES ImplementsLint ReportsTheRest
CHECK_DEADLOCK FALSE
