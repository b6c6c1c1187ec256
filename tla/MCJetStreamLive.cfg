SPECIFICATION Spec
CONSTANTS
  t1 = t1
  t2 = t2
  Topics <- MCTopics
  Payloads = {b1}
  Patterns <- MCPatterns
  Coarse <- MCCoarse
  Subscribers = {s1, s2}
  Readers = {}
  LatestOnly = TRUE
  MaxMessages = 2
  MaxAttempts = 2
  BatchSize = 2
  Horizon = 3
  MaxSequence = 3
  MaxClock = 1
INVARIANTS
  CursorsAreOwn
PROPERTIES
  ImplementsLog
SYMMETRY Symmetry
CHECK_DEADLOCK FALSE
