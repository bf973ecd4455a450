---------------------------- MODULE MCEnrollment ----------------------------
(***************************************************************************)
(* Enrollment for TLC.  The constants are given in the configurations.     *)
(***************************************************************************)
EXTENDS Enrollment
=============================================================================
