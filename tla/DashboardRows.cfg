SPECIFICATION Spec
CONSTANTS
  GameId = {1, 2}
  Request = {r1, r2}
  QueueMax = 1
  NoGame = NoGame
  NoRun = NoRun
  MaxPly = 1
  MaxSeq = 3
  MaxRun = 1
PROPERTIES RowsReachEventId
