SPECIFICATION FairSpec
CONSTANTS
  h = h
  r1 = r1
  r2 = r2
  i1 = i1
  Nobody = Nobody
  Requests = {h, r1, r2}
  Handshakes = {h}
  Ids = {i1}
  IdOf <- SharedId
  Patient = {r1}
  Deaf = {r2}
  Limits <- OneOrTwo
  MaxWire = 2
INVARIANTS
  CancelledIsNotAnswered
  TwinsStayWithinReach
  HandshakeComesFirst
  ReturnLeavesNothing
PROPERTIES
  KeepsReading
  RunReturns
CHECK_DEADLOCK FALSE
