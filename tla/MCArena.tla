------------------------------ MODULE MCArena ------------------------------
(***************************************************************************)
(* Small instances of Arena for TLC.                                       *)
(***************************************************************************)
EXTENDS Arena, TLC

CONSTANTS c1, c2, a1, a2, alice, bob

MCAnchorRating == [b \in Anchor |-> 1000]

Interchangeable ==
  Permutations(BotId \ Anchor) \cup Permutations(Anchor) \cup Permutations(Owner)
=============================================================================
