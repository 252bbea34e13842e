---------------------------- MODULE MCEnrollment ----------------------------
(* Instances of Enrollment for TLC. *)
EXTENDS Enrollment

(* Two tokens of one organization and one of another. *)
MCTokenOrg == [t \in Tokens |-> IF t = "t3" THEN "orgB" ELSE "orgA"]
=============================================================================
