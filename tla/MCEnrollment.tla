---------------------------- MODULE MCEnrollment ----------------------------
(* Two sources and three requests: every overlap of the two critical       *)
(* sections, up to the capped lockout and past the attempt window.         *)
EXTENDS Enrollment
=============================================================================
