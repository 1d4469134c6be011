\* Two schedules and two executions at once; one worker with one slot and a run that waits;
\* two workers over one queue.
SPECIFICATION ProgressSpec
CONSTANTS
  Schedules = {1, 2}
  Rank <- ByNumber
  Interval <- Custom
  Every <- EveryTwo
  CronNext <- OneAndTwo
  Unreadable = {1}
  StartTime <- LateFirst
  Beats = {b1, b2}
  MaxTime = 2
  MaxDeaths = 1
  MaxEdits = 1
INVARIANT SpacedOut
PROPERTY DueSubmitted ExpiredLeaseHandled WaitBudgetEnforced QueueMoves
CHECK_DEADLOCK FALSE
