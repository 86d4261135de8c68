\* One rule of each kind, three sinks, every combination of options.
SPECIFICATION Spec
CONSTANTS
  RuleSeq <- MCRules
  Sinks <- MCSinks
  PerRule <- MCPerRule
  Default <- MCDefault
  NanosPerSec = 1
  U64Max = 3
  MaxSkew = 1
  MaxEvents = 2
  MaxHits = 2
INVARIANTS
  LaterSinkIsSublog
  FailureSpoilsOneRecord
  NoAlertLostSilently
  ExportRateLimited
  DetectionSkippedOnlyOnFailure
  AlertsTotalBounds
CHECK_DEADLOCK FALSE
