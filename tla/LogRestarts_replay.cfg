\* Three lines, one restart of the agent or one retry of the run.
SPECIFICATION RestartSpec
CONSTANTS
  Lines = 3
  BatchMax = 2
  MaxAttempts = 2
  MaxCrashes = 0
  MaxSinks = 2
INVARIANT Accounted
CHECK_DEADLOCK FALSE
