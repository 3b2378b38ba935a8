--------------------------- MODULE MCDoorRequests ---------------------------
(* Small instance of DoorRequests: two requests, each with the one key or  *)
(* none, each an ordinary call or an upgrade; with the same key and body   *)
(* they are a request and its retry.                                       *)
EXTENDS DoorRequests

CONSTANTS r1, r2, k, call, upgrade

MCRequests == {r1, r2}
MCKeys == {k}
MCBodies == {call, upgrade}
MCUpgrades == {upgrade}
=============================================================================
