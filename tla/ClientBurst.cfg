SPECIFICATION Spec
CONSTANTS
  Key = {me, other, third}
  Mine = me
  Capacity = 2
  RefillMs = 1
  MaxKeys = 2
  NsPerMs = 2
  StrikeLimit = 2
  InitialBackoff = 4
  MaxBackoff = 5
  IdleSleep = 4
  RetryAfter = 4
  NoTurn = NoTurn
  MaxGame = 2
  MaxPly = 2
  MaxLate = 1
PROPERTIES ExtraBurstsEnd
