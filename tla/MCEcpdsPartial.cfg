SPECIFICATION Spec
CONSTANTS
  Requests = {r1}
  Users = {u1}
  Destinations = {d1}
  Servers = {s1, s2}
  Policies = {"any_success"}
  TTL = 2
  Timeout = 1
  MaxClock = 3
  MaxChanges = 2
PROPERTIES
  DenialEndsWithOutage
CHECK_DEADLOCK FALSE
