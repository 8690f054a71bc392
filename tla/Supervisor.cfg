SPECIFICATION FairSpec
CONSTANTS
  TaskId = {1, 2}
  TickRestart = 7
  Period = 2
  CancelWait = 3
  Interval = 1
  MaxTick = 3
  MaxLost = 3
CHECK_DEADLOCK FALSE
INVARIANTS NeverTwoTickers ClosedMeansStopped
PROPERTIES HealthyLeftAlone WedgedGivesWay StopCompletes
