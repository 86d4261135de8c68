\* The transport as a bounded lossy queue, and how the consumer thread ends.
SPECIFICATION FairSpec
CONSTANTS
  Cpus = {cpu1, cpu2}
  RingCap = 2
  ChannelCap = 1
  MaxEvents = 5
INVARIANTS
  AcceptedInOrder
  EveryRecordAccounted
  UnreadableCounted
  IInv
PROPERTIES
  ImplementsLossyFifo
  ConsumerStops
CHECK_DEADLOCK FALSE
