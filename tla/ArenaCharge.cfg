SPECIFICATION Spec
CONSTANTS
  c1 = c1
  c2 = c2
  a1 = a1
  a2 = a2
  alice = alice
  bob = bob
  BotId = {c1, a1}
  Anchor = {a1}
  Owner = {alice}
  AnchorRating <- MCAnchorRating
  GameId = {1}
  NoTime = NoTime
  NoBot = NoBot
  NoValue = NoValue
  NoGame = NoGame
  DrawRules = {"stalemate"}
  NsPerMs = 2
  TimeControl = 2
  Increment = 2
  PlyCap = 3
  StrikeLimit = 2
  Grace = 1
  Recency = 1
  Baseline = {0}
  MaxNow = 3
  TickLag = 3
  PairUntil = 3
  MayPause = TRUE
INVARIANTS ChargedFromHandover
