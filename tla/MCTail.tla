------------------------------- MODULE MCTail -------------------------------
(* The decision of one round on a small instance, with bids on either side   *)
(* of the leader threshold.                                                  *)
EXTENDS TailRound

MCBids == {<<90, 5>>, <<5, 90>>, <<89, 10>>}
=============================================================================
