SPECIFICATION Spec
CONSTANTS
  t1 = t1
  t2 = t2
  k1 = k1
  k2 = k2
  s1 = s1
  s2 = s2
  i1 = i1
  i2 = i2
  u1 = u1
  u2 = u2
  q1 = q1
  a1 = a1
  NoTask = NoTask
  Tasks = {t1}
  Live = {}
  Fallbacks = {}
  Slots = {}
  Invocations = {i1, i2}
  Updaters = {u1}
  Revisions = {"final", "legacy"}
  Keys = {k1, k2}
  Questions = {q1}
  Answers = {a1}
  Loads <- Weightless
  Skeleton = 0
  NameSize = 0
  InputSize = 0
  FailText = 0
  FailError = 0
  CancelText = 0
INVARIANTS
  WorkingHasAnOwner
CHECK_DEADLOCK FALSE
