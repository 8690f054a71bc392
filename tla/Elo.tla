-------------------------------- MODULE Elo --------------------------------
(***************************************************************************)
(* chess_core/elo.py.  The logistic curve is floating point; what the      *)
(* program uses of it is round(K * (score - expected)), an integer that    *)
(* falls by one at each of K thresholds of the rating difference.  The     *)
(* thresholds below are the code's own, read off it for every difference   *)
(* from -4000 to 4000.                                                     *)
(***************************************************************************)
EXTENDS Integers, FiniteSets

STARTING_RATING == 1200

K_FACTOR == 24

\* The winner gains at least k points while it leads by at most Threshold[k].
Threshold ==
  <<668, 470, 373, 307, 254, 210, 172, 136, 104, 73, 43, 14,
    -15, -44, -74, -105, -137, -173, -211, -255, -308, -374, -471, -669>>

\* round(K * (1 - expected)) of a player diff points above its opponent.
WinGain(diff) == Cardinality({k \in 1..K_FACTOR : diff <= Threshold[k]})

\* The other scores lie on the same curve, shifted by K/2 or by K.
DrawGain(diff) == WinGain(diff) - K_FACTOR \div 2

LossGain(diff) == WinGain(diff) - K_FACTOR

\* Mutant of RatingExchange: the loser's delta computed from its own side.
RatingExchangeRecomputed(winner_rating, loser_rating) ==
  [winner |-> WinGain(winner_rating - loser_rating),
   loser |-> -WinGain(loser_rating - winner_rating)]

\* compute_rating_exchange: the loser's delta is the negated winner's, never
\* a second rounding.
RatingExchange(winner_rating, loser_rating) ==
  LET gain == WinGain(winner_rating - loser_rating)
  IN [winner |-> gain, loser |-> -gain]

DrawExchange(white_rating, black_rating) ==
  LET gain == DrawGain(white_rating - black_rating)
  IN [white |-> gain, black |-> -gain]

\* The anchor's rating never moves.
OneSidedExchange(competitor_rating, anchor_rating, outcome) ==
  LET diff == competitor_rating - anchor_rating
  IN CASE outcome = "win"  -> WinGain(diff)
       [] outcome = "draw" -> DrawGain(diff)
       [] outcome = "loss" -> LossGain(diff)
=============================================================================
