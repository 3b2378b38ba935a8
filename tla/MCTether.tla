------------------------------ MODULE MCTether ------------------------------
(***************************************************************************)
(* Two resources that are created, changed and deleted, one turn, a queue  *)
(* of one frame, pages of one change so that a reader is always several    *)
(* pages behind, one failure and one mirror that starts over.              *)
(***************************************************************************)
EXTENDS Tether
=============================================================================
