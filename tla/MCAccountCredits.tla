-------------------------- MODULE MCAccountCredits --------------------------
(* Two usages of an account, one of which costs more than an allowance, and *)
(* one usage of a room.                                                     *)
EXTENDS AccountCredits, TLC

CONSTANTS u1, u2, w1, p1, p2

Costs == u1 :> 3 @@ u2 :> 1 @@ w1 :> 1
=============================================================================
