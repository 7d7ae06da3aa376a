CONSTANTS
  Threads = {t1, t2, t3}
  W = 4
  Nodes = {n1, n2, n3, n4}
  Cohorts = {c1, c2}
  Shared = shared
  MaxPass = 2
  MaxSpurious = 1
  Producers = {t1, t2, t3}
  Consumers = {t4, t5, t6}
  Max = 1
  Readers = {t1, t2, t3}
  Writers = {t4, t5}
  Leds = {0, 1}
  MaxLeaving = 2
  Rounds = 3
  Messages = 3
  Items = 5
  Window = 2
  Echoes = {1, 2}
SPECIFICATION SyncSpec
INVARIANT SafeAccess
PROPERTY LocksImplement
PROPERTY AcquireReturns
PROPERTY Progress
PROPERTY LedsFollow
