----------------------------- MODULE MCHostPipe -----------------------------
(***************************************************************************)
(* HostPipe for TLC.  The constants are given in the configuration.        *)
(***************************************************************************)
EXTENDS HostPipeProofs
=============================================================================
