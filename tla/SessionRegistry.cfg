SPECIFICATION RoutedSpec
CONSTANTS
  i1 = i1
  i2 = i2
  r1 = r1
  r2 = r2
  None = None
  Instances = {i1, i2}
  Requests = {r1, r2}
  MaxSessions = 1
INVARIANTS
  WithinTheLimit
  RefreshedIsLive
  ClientIsKnown
PROPERTIES
  IdleIsReclaimed
