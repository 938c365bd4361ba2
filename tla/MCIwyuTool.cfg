CONSTANTS
  Databases <- MCDatabases
  Selections <- MCSelections
  OnDisk <- MCOnDisk
  ExtraArgs <- MCExtra
  Wrappers = {"ccache"}
  MsvcDrivers = {"cl.exe"}
  Iwyu = "iwyu"
  JobOptions <- MCJobs
  LoadOptions = {0, 2, 5}
  Loads = {0, 1, 4, 9}
  Codes <- MCCodes
  Letters = {"x"}
  MaxLength = 7
  Names = {f, g}
  MaxLines = 4
SPECIFICATION MCSpec
INVARIANTS RunsSelection ReturnReportsAll SplitsLikeMsdn ReportsEachSection
PROPERTIES NothingDropped ToolEnds
CHECK_DEADLOCK FALSE
