\* Records of two CPUs overtake each other by up to one time unit.
SPECIFICATION Spec
CONSTANTS
  often = often
  rare = rare
  muted = muted
  Rules = {often, rare, muted}
  Pids = {1}
  PerRule <- MCPerRule
  Default <- MCDefault
  NanosPerSec = 2
  U64Max = 5
  Timestamps <- MCTimestamps
  MaxSkew = 1
  MaxGrants = 4
  MaxSuppressed = 2
INVARIANTS
  RateLimited
  DeniedOnlyWhenBusy
  IInv
PROPERTIES
  ImplementsSlidingWindow
CHECK_DEADLOCK FALSE
