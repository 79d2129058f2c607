SPECIFICATION FairSpec
CONSTANTS
  t1 = t1
  t2 = t2
  k1 = k1
  k2 = k2
  c1 = c1
  c2 = c2
  w1 = w1
  w2 = w2
  q1 = q1
  q2 = q2
  a1 = a1
  NoTask = NoTask
  Ids = {t1}
  Keys = {k1, k2}
  Questions = {q1, q2}
  Answers = {a1}
  Callers = {c1, c2}
  Waiters = {w1}
  Loads <- Weightless
  Skeleton = 0
  NameSize = 0
  InputSize = 0
  FailText = 0
  FailError = 0
  CancelText = 0
  MaxTasks = 2
  MaxPayload = 0
  MaxRetained = 0
INVARIANTS
  NoMissedWakeup
  WaitsForTheOutcome
PROPERTIES
  KeysKeepTheirMeaning
  KeepsThePromises
  WaiterReturns
