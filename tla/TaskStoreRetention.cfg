SPECIFICATION Spec
CONSTANTS
  t1 = t1
  t2 = t2
  k1 = k1
  k2 = k2
  c1 = c1
  c2 = c2
  w1 = w1
  w2 = w2
  q1 = q1
  q2 = q2
  a1 = a1
  NoTask = NoTask
  Ids = {t1, t2}
  Keys = {k1}
  Questions = {q1}
  Answers = {a1}
  Callers = {c1}
  Waiters = {}
  Loads <- SomeLoads
  Skeleton = 1
  NameSize = 1
  InputSize = 1
  FailText = 1
  FailError = 2
  CancelText = 2
  MaxTasks = 2
  MaxPayload = 2
  MaxRetained = 11
INVARIANTS
  ChargeIsExact
  FailureAlwaysFits
SYMMETRY IdSymmetry
