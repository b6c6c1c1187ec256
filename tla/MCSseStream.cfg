SPECIFICATION Spec
CONSTANTS
  t1 = t1
  t2 = t2
  ok = ok
  excluded = excluded
  broken = broken
  Topics <- MCTopics
  Patterns <- MCPatterns
  Payloads <- MCPayloads
  Excluded = {excluded}
  Unrenderable = {broken}
  Cursors <- SequenceCursors
  Ends <- SequenceEnds
  Traffic <- MCTraffic
  Subscribers = {c1}
  MaxAllowed = 1
  MaxHeartbeats = 1
  MaxSequence = 3
  MaxClock = 1
CONSTRAINT SomeConnectionLeft
INVARIANTS
  DeliveryOrdered
  ReplayComplete
  NothingLostAfterBoundary
  LimitProvesTruncation
PROPERTIES
  ImplementsContract
CHECK_DEADLOCK FALSE
