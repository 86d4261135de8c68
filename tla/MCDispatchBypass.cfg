\* A rule that asks for triage only is not rate limited.
SPECIFICATION Spec
CONSTANTS
  RuleSeq <- MCRules
  Sinks <- MCRemoteSinks
  PerRule <- MCPerRule
  Default <- MCDefault
  NanosPerSec = 1
  U64Max = 3
  MaxSkew = 1
  MaxEvents = 2
  MaxHits = 2
INVARIANTS
  EveryExportPassedSuppression
CHECK_DEADLOCK FALSE
