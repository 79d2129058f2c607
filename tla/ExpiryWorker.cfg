SPECIFICATION WorkerFairSpec
CONSTANTS
  t1 = t1
  t2 = t2
  w1 = w1
  w2 = w2
  Ids = {t1, t2}
  Writers = {w1, w2}
  Ttls <- ShortAndLong
  CleanupInterval = 3
  MaxSleep = 2
INVARIANTS
  NeverOversleeps
  OutlivesNoStore
PROPERTIES
  ExpiredIsReclaimed
  StopsWithTheStore
