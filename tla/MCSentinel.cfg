\* The agent from the probes to the sinks, with shutdown.
SPECIFICATION FairSpec
CONSTANTS
  Cpus = {cpu1}
  RingCap = 1
  ChannelCap = 1
  MaxEvents = 3
  MaxHits = 1
  RuleSeq <- MCRules
  Sinks <- MCSinks
  PerRule <- MCPerRule
  Default <- MCDefault
  NanosPerSec = 1
  U64Max = 3
  MaxSkew = 3
INVARIANTS
  CountersAccountForRing
  SinksInRingOrder
PROPERTIES
  EventuallyDetected
  SignalEndsLoop
  ExitsUnlessRingEmpty
CHECK_DEADLOCK FALSE
