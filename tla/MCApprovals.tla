----------------------------- MODULE MCApprovals -----------------------------
(* Small instance of Approvals: two requests at the door.                  *)
EXTENDS Approvals, TLC

CONSTANTS r1, r2

MCClients == {r1, r2}
=============================================================================
