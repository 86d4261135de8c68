\* An event a sink failed on is not put to the rules.
SPECIFICATION Spec
CONSTANTS
  RuleSeq <- MCRules
  Sinks <- MCRemoteSinks
  PerRule <- MCPerRule
  Default <- MCDefault
  NanosPerSec = 1
  U64Max = 3
  MaxSkew = 1
  MaxEvents = 2
  MaxHits = 2
INVARIANTS
  EveryEventEvaluated
CHECK_DEADLOCK FALSE
