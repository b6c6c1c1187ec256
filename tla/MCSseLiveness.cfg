SPECIFICATION FairSpec
CONSTANTS
  t1 = t1
  t2 = t2
  ok = ok
  excluded = excluded
  broken = broken
  Topics <- MCTopics
  Patterns <- MCPatterns
  Payloads <- MCPayloads
  Excluded = {excluded}
  Unrenderable = {broken}
  Cursors <- AllCursors
  Ends <- AllEnds
  Traffic <- PlainTraffic
  Subscribers = {c1}
  MaxAllowed = 2
  MaxHeartbeats = 0
  MaxSequence = 2
  MaxClock = 3
INVARIANTS
  ReplayWithinRequest
PROPERTIES
  EndDateExact
  CatchUpTerminates
  ReplayEnds
  ShutdownEndsStreams
CHECK_DEADLOCK FALSE
