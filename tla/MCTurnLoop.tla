----------------------------- MODULE MCTurnLoop -----------------------------
(* Small instance of TurnLoop: two call ids, reused from round to round.   *)
EXTENDS TurnLoop

CONSTANTS c1, c2

MCCalls == {c1, c2}
MCBatches == {<< c1 >>, << c2, c1 >>}
=============================================================================
