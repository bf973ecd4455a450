-------------------------- MODULE MCConfiguration --------------------------
(***************************************************************************)
(* Configuration for TLC.  The constants are given in the configurations.  *)
(***************************************************************************)
EXTENDS Configuration, TLC

\* The calls differ in nothing but their names.
Symmetry == Permutations(Call)
=============================================================================
