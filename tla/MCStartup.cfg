SPECIFICATION Spec
CONSTANTS
  Bytes <- MCBytes
  Names <- MCNames
  Configs <- MCConfigs
  MaxPathLen = 3
  MaxMonitored = 2
  U64Max = 11
  Digits <- MCDigits
  Upper <- MCUpper
  NotRegexes <- MCNotRegexes
  NotMapping = NotMapping
  Inputs <- MCInputs
  DefaultPaths <- MCDefaultPaths
  Occurrences <- MCOccurrences
INVARIANTS
  NoWriteMissed
  ReportedForCause
  RunningIsComplete
  NativeAsWritten
  ImportMissesOnlyWhereKnown
  ImportExceedsOnlyWhereKnown
PROPERTIES
  FileSpec
CHECK_DEADLOCK FALSE
