SPECIFICATION Spec
CONSTANTS
  c1 = c1
  c2 = c2
  a1 = a1
  a2 = a2
  alice = alice
  bob = bob
  BotId = {c1, c2, a1, a2}
  Anchor = {a1, a2}
  Owner = {alice, bob}
  AnchorRating <- MCAnchorRating
  GameId = {1, 2}
  NoTime = NoTime
  NoBot = NoBot
  NoValue = NoValue
  NoGame = NoGame
  DrawRules = {}
  NsPerMs = 1
  TimeControl = 1
  Increment = 1
  PlyCap = 1
  StrikeLimit = 1
  Grace = 0
  Recency = 0
  Baseline = {0}
  MaxNow = 1
  TickLag = 1
  PairUntil = 0
  MayPause = FALSE
SYMMETRY Interchangeable
INVARIANTS SeatIffLive SweepListsFresh RatedExactlyOnce ZeroSum RatingConsistent CountersMatchGames
PROPERTIES TerminalFrozen
