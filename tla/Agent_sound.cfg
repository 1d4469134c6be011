\* One run, two attempts, two faults in any order, one frame nobody waits for.
SPECIFICATION FairSpec
CONSTANTS
  Runs = {r1}
  Capacity = 1
  MaxAttempts = 2
  EarlyPush = FALSE
  MaxFaults = 2
  MaxLate = 1
INVARIANT TypeOK ContainersKnown
PROPERTY NothingForgotten UnwantedStops EndedReleased
