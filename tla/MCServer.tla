------------------------------ MODULE MCServer ------------------------------
(***************************************************************************)
(* Server for TLC.  The constants are given in the configuration.          *)
(***************************************************************************)
EXTENDS Server
=============================================================================
