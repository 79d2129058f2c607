SPECIFICATION FairSpec
CONSTANTS
  e1 = e1
  e2 = e2
  x1 = x1
  x2 = x2
  d1 = d1
  r1 = r1
  r2 = r2
  Executions = {e1, e2}
  Cancellers = {x1, x2}
  Drainers = {d1}
  Reasons = {r1, r2}
  NoReason = NoReason
  CatchPanics = FALSE
INVARIANTS
  CountIsExact
  DrainedIsFinal
  CancellationReachesAll
PROPERTIES
  DrainResolves
CHECK_DEADLOCK FALSE
