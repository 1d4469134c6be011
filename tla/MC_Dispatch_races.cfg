\* Everything the code can do, the unlocked abandons included.
SPECIFICATION Spec
CONSTANTS
  r1 = r1
  r2 = r2
  r3 = r3
  Runs = {r1, r2}
  Workers = {w1, w2}
  Threads = {t1, t2}
  NoOne = NoOne
  DefOf <- OneDefinition
  Singletons = {"d"}
  RetryMax <- RetryFirst
  QueuePos <- Position
  InZone <- AllRuns
  Capable <- AllRuns
  Capacity <- TwoSlots
  MaxOffers = 2
  WaitRuns = {}
  StaleHello = TRUE
  CoreCancel = TRUE
  DeleteFails = {}
  MaxClaims = 2
  Reports = {"SUCCESS"}
  CancelRuns = {}
  DrainWorkers = {}
  CrashThreads = {t1, t2}
SYMMETRY Symmetry
INVARIANT TypeOK SingletonExclusion RowShape
PROPERTY ClaimedFromQueue
