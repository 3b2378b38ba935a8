----------------------------- MODULE MCDoorTurn -----------------------------
(* Small instance of DoorTurn: one call id and a batch of two.             *)
EXTENDS DoorTurn

CONSTANTS c1, c2

MCCalls == {c1, c2}
MCBatches == {<< c1, c2 >>}
=============================================================================
