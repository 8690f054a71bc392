SPECIFICATION FairSpec
CONSTANTS
  alice = alice
  bob = bob
  server = server
  BotId = {1, 2, 3, 4}
  Anchor = {4}
  OwnerOf <- MCOwnerOf
  Rating <- MCRating
  Window = 2
  RelaxAfter = 2
  NoBot = NoBot
  NoGame = NoGame
  MaxSpread = 1
INVARIANTS PairingSound RelaxedWaitsAlone
PROPERTIES CountersFollowSeats EverySeatedAgain
