SPECIFICATION Spec
CONSTANTS
  t1 = t1
  t2 = t2
  Topics <- MCTopics
  Payloads = {b1}
  Patterns <- MCPatterns
  Coarse <- MCCoarse
  Subscribers = {}
  Readers = {r1}
  LatestOnly = FALSE
  MaxMessages = 0
  MaxAttempts = 2
  BatchSize = 2
  Horizon = 3
  MaxSequence = 3
  MaxClock = 2
INVARIANTS
  BatchesArePages
  DateEndSplitsHistory
CHECK_DEADLOCK FALSE
