SPECIFICATION FairSpec
CONSTANTS
  w = w
  k = k
  p1 = p1
  p2 = p2
  p3 = p3
  s1 = s1
  s2 = s2
  Bot = {w, k}
  GameId = {1, 2}
  White <- MCWhite
  Black <- MCBlack
  Poll = {p1, p2}
  Submit = {s1}
  Sender <- MCSender
  None = None
  NotYourTurn = NotYourTurn
  WaitingForPairing = WaitingForPairing
  Superseded = Superseded
  MaxPly = 2
INVARIANTS WaitersSound
PROPERTIES AnswersCurrent CheckedClaimsSound PollsAnswered
