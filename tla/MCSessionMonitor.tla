-------------------------- MODULE MCSessionMonitor --------------------------
(***************************************************************************)
(* SessionMonitor for model checking.  The constants are given in the      *)
(* configurations.                                                         *)
(***************************************************************************)
EXTENDS SessionMonitor
=============================================================================
