---------------------------- MODULE MCFileStore ----------------------------
(***************************************************************************)
(* FileStore for TLC.  The constants are given in the configurations.      *)
(***************************************************************************)
EXTENDS FileStore

\* The records of a generation directory that no pointer names and that no
\* running call works on are never read again: what matters of it is that it
\* exists.  A flush that takes its number again writes every record it reads.
Live(g) == g \in {selected, previous, generation}
View ==
    <<staged, nextGeneration, nextEvidence, pc, generation, index,
      selected, previous, evidence, reply, committed, exposed,
      [g \in Generation |->
          IF generations[g] = None \/ Live(g) THEN generations[g] ELSE EmptyDir]>>
=============================================================================
