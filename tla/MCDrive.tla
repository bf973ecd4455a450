------------------------------ MODULE MCDrive ------------------------------
(***************************************************************************)
(* Drive for model checking, with the symmetry and the view of MCNamespace *)
(* extended to the contexts.  TLC evaluates WriteIsDurable, which mentions *)
(* reply', on every step before the view identifies the state it leads to. *)
(***************************************************************************)
EXTENDS Drive, TLC

Symmetry == Permutations(Name) \cup Permutations(Handle) \cup Permutations(Context)

View ==
    <<directories, files, handles, nextFile, record, opened, diverged, contexts, staged, written>>
=============================================================================
