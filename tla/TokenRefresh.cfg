SPECIFICATION SharedSpec
CONSTANTS
  NoFlow = NoFlow
  f1 = f1
  f2 = f2
  c1 = c1
  c2 = c2
  Flows = {f1, f2}
  Callers = {c1, c2}
  MaxToken = 3
INVARIANTS
  RefreshesTheCurrent
  RejectedStaysRejected
PROPERTIES
  CallReturns
