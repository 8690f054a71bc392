SPECIFICATION FairSpec
CONSTANTS
  GameId = {1}
  Request = {r1, r2}
  QueueMax = 1
  NoGame = NoGame
  NoRun = NoRun
  MaxPly = 1
  MaxSeq = 3
  MaxRun = 1
INVARIANTS PageSound
PROPERTIES Converges
