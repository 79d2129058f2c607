SPECIFICATION Spec
CONSTANTS
  m1 = m1
  g1 = g1
  r1 = r1
  r2 = r2
  p1 = p1
  p2 = p2
  c1 = c1
  c2 = c2
  Lists = {m1}
  Pages = {g1}
  Read = Read
  Uris = {r1, r2}
  NoParams = NoParams
  Partitions = {p1, p2}
  Public = Public
  Calls = {c1, c2}
  MaxResources = 1
  NoSlot = NoSlot
  NoEntry = NoEntry
  MaxVersion = 1
  MaxGeneration = 1
INVARIANTS
  NothingOutdated
  SlotsAreCounted
  OneAnswerPerQuery
  PrivateStaysPrivate
SYMMETRY Symmetry
CHECK_DEADLOCK FALSE
