---------------------------- MODULE MCTurnRoutes ----------------------------
(***************************************************************************)
(* Two bots that meet twice, each playing white once; one of them has two  *)
(* polls under way, as a client does that gave up on one and sent another. *)
(***************************************************************************)
EXTENDS TurnRoutes, TLC

CONSTANTS w, k, p1, p2, p3, s1, s2

MCWhite == [g \in GameId |-> IF g = 1 THEN w ELSE k]
MCBlack == [g \in GameId |-> IF g = 1 THEN k ELSE w]
MCSender == [r \in Poll \cup Submit |-> IF r \in {p1, p2, s1} THEN w ELSE k]

PollSymmetry == Permutations({p1, p2})
=============================================================================
