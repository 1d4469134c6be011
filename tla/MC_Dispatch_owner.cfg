\* The ownership check of a frame against the row it then changes.
SPECIFICATION Spec
CONSTANTS
  r1 = r1
  r2 = r2
  r3 = r3
  Runs = {r1}
  Workers = {w1, w2}
  Threads = {t1, t2}
  NoOne = NoOne
  DefOf <- OwnDefinition
  Singletons = {}
  RetryMax <- RetryOnce
  QueuePos <- Position
  InZone <- AllRuns
  Capable <- AllRuns
  Capacity <- TwoSlots
  MaxOffers = 1
  WaitRuns = {r1}
  StaleHello = FALSE
  CoreCancel = FALSE
  DeleteFails = {}
  MaxClaims = 3
  Reports = {"SUCCESS", "FAILURE", "TERMINATED"}
  CancelRuns = {r1}
  DrainWorkers = {w1}
  CrashThreads = {t1, t2}
PROPERTY OnlyOwnerTouches
