SPECIFICATION LedgerSpec
CONSTANTS
  BotId = {}
  NoBot = NoBot
  NoValue = NoValue
  NoTime = NoTime
  DrawRules = {}
  NsPerMs = 3
  TimeControl = 7
  Increment = 5
  MaxInstant = 12
  MaxPly = 5
INVARIANTS LedgerAgrees FlagAgrees
