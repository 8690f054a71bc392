SPECIFICATION Spec
CONSTANTS
  Task = {t1, t2, t3}
  Ticker = {t1}
  NoTask = NoTask
  Units = 2
  MaxCancels = 2
  MaxHealth = 1
INVARIANTS CommittedIsApplied
