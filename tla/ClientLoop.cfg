SPECIFICATION OneLifecycleSpec
CONSTANTS
  c1 = c1
  c2 = c2
  s1 = s1
  r1 = r1
  Nobody = Nobody
  Callers = {c1, c2}
  Nested = {c2}
  Subscribers = {s1}
  Requests = {r1}
  Capacity = 2
  MaxRounds = 1
  MaxSessions = 2
  Budget <- HandshakeAndCall
INVARIANTS
  NoOrphans
  
PROPERTIES
  StreamIsAcknowledged
  
CHECK_DEADLOCK FALSE
