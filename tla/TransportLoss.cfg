\* A record lost to a full ring shows in no metric.
SPECIFICATION Spec
CONSTANTS
  Cpus = {cpu1, cpu2}
  RingCap = 2
  ChannelCap = 1
  MaxEvents = 5
INVARIANTS
  EveryRecordCounted
CHECK_DEADLOCK FALSE
