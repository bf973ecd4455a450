---------------------------- MODULE MCNamespace ----------------------------
(***************************************************************************)
(* Namespace for model checking.  Names and handle slots are used          *)
(* interchangeably, so states that differ by a permutation of them are one *)
(* state.  The reply is written by every operation and read by none, so    *)
(* invariants about the rest of the state are checked without it.          *)
(***************************************************************************)
EXTENDS Namespace, TLC

Symmetry == Permutations(Name) \cup Permutations(Handle)

View == <<directories, files, handles, nextFile, record, opened, diverged>>
=============================================================================
