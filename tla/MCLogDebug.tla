---------------------------- MODULE MCLogDebug ------------------------------
(***************************************************************************)
(* LogDebug for model checking.                                            *)
(***************************************************************************)
EXTENDS LogDebug
=============================================================================
