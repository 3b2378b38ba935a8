-------------------------------- MODULE Relay --------------------------------
(***************************************************************************)
(* What a box promises whoever mirrors it: every change that was recorded, *)
(* in the order it was recorded, none twice and none left out, sooner or   *)
(* later, until the box is told to stop.                                   *)
(***************************************************************************)
EXTENDS Integers, Sequences

VARIABLES
  history,  \* the changes recorded so far, oldest first
  applied,  \* how many of them the mirror has applied
  ended     \* whether the box has been told to stop

Init == history = << >> /\ applied = 0 /\ ended = FALSE

Record ==
  /\ Len(history') = Len(history) + 1
  /\ SubSeq(history', 1, Len(history)) = history
  /\ UNCHANGED << applied, ended >>

Apply ==
  /\ applied' > applied /\ applied' <= Len(history)
  /\ UNCHANGED << history, ended >>

End == ended' = TRUE /\ UNCHANGED << history, applied >>

vars == << history, applied, ended >>

Next == Record \/ Apply \/ End

Safety == Init /\ [][Next]_vars

(* A mirror that lags behind catches up.                                   *)
CatchesUp == applied < Len(history) ~> applied = Len(history) \/ ended

Spec == Safety /\ CatchesUp
=============================================================================
