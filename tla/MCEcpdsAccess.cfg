SPECIFICATION Spec
CONSTANTS
  Requests = {r1, r2}
  Users = {u1}
  Destinations = {d1}
  Servers = {s1, s2}
  Policies = {"strict", "any_success"}
  TTL = 2
  Timeout = 1
  MaxClock = 4
  MaxChanges = 2
INVARIANTS
  SingleFlight
PROPERTIES
  RevocationTakesEffect
  DenialsAreInformed
  OutagesAreNotExtended
SYMMETRY Symmetry
CHECK_DEADLOCK FALSE
