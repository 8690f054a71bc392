CONSTANTS
  NsPerMs = 1
  NoTime = NoTime
  NoValue = NoValue
  Bot = {a, b, c}
  MaxGames = 2
  TimeControl = 2
  Increment = 1
  MaxThink = 2
  MaxGap = 1
  PlyCap = 2
  DrawRules = {"stalemate"}
SPECIFICATION Spec
CHECK_DEADLOCK FALSE
INVARIANTS RaisingForfeits
