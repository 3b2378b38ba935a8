----------------------------- MODULE MCEnrolment -----------------------------
(* Two workers and two keys of the console, a clock long enough to withdraw *)
(* a key and outlive it; an enrolment after what another left, of the same  *)
(* harness or of another one.                                               *)
EXTENDS Enrolment, TLC

Alike == Permutations(Threads) \cup Permutations(Harnesses) \cup Permutations(Kids)

(* Enrolling touches nothing that verifying does until a request is let in: *)
(* orders that only differ in how these two follow on one another are left  *)
(* out.                                                                     *)
Apart == enrol.at # "idle" => \A t \in Threads : thread[t].at \notin Busy \cup {"decode"}
=============================================================================
