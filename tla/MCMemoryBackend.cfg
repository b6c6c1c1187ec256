SPECIFICATION Spec
CONSTANTS
  t1 = t1
  t2 = t2
  t3 = t3
  k1 = k1
  k2 = k2
  Topics <- MCTopics
  Streams <- MCStreams
  StreamOf <- MCStreamOf
  BareTopics <- MCBareTopics
  Patterns <- MCPatterns
  Payloads = {p}
  Subscribers = {s1}
  MaxHistory = 2
  MaxTopics = 2
  ChannelCapacity = 2
  BatchSize = 2
  MaxSequence = 5
  MaxClock = 2
INVARIANTS
  SequencesOrdered
  RetentionBounded
  SubscriptionBoundary
  BatchesArePages
  DateEndSplitsHistory
PROPERTIES
  ImplementsLog
CHECK_DEADLOCK FALSE
