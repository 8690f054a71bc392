---------------------------- MODULE MCMatchmaker ----------------------------
(***************************************************************************)
(* A small instance of Matchmaker: two bots of one owner, one of another,  *)
(* one anchor within the window of some of them.                           *)
(***************************************************************************)
EXTENDS Matchmaker, TLC

CONSTANTS alice, bob, server

MCOwnerOf == (1 :> alice) @@ (2 :> alice) @@ (3 :> bob) @@ (4 :> server)

MCRating == (1 :> 3) @@ (2 :> 2) @@ (3 :> 0) @@ (4 :> 4)
=============================================================================
