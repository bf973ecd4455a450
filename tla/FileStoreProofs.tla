--------------------------- MODULE FileStoreProofs ---------------------------
(***************************************************************************)
(* FileStore for every set of chunks and every bound: its types, and that  *)
(* the current pointer names what was committed.  Then the two functions   *)
(* of Selection, which MCAlgorithms checks: wildmatch, which lists the     *)
(* files of the store, and the evaluator of policies.                      *)
(***************************************************************************)
EXTENDS FileStore, Selection, TLAPS

\* Contents are sequences of chunks no longer than MaxChunks.
LEMMA ContentShape ==
    ASSUME NEW c \in Content
    PROVE  /\ Len(c) \in 0 .. MaxChunks
           /\ c \in [1 .. Len(c) -> Chunk]
           /\ c # None
<1>1. PICK n \in 0 .. MaxChunks : c \in [1 .. n -> Chunk]
  BY DEF Content
<1>2. n \in Nat
  BY BoundsAssumption
<1>3. \A i \in 1 .. n : c[i] \in Chunk
  BY <1>1
<1>4. c = [i \in 1 .. n |-> c[i]]
  BY <1>1
<1>5. c \in Seq(Chunk) /\ Len(c) = n
  BY <1>2, <1>3, <1>4, SMT
<1> QED
  BY <1>1, <1>5, ValueAssumption DEF Content

\* What write_at and truncate_handle stage has the type of contents.
LEMMA ResizeIsContent ==
    ASSUME NEW c \in Content, NEW n \in 0 .. MaxChunks
    PROVE  Resize(c, n) \in Content /\ Resize(c, n) \in [1 .. n -> Chunk]
<1>1. \A i \in 1 .. n : (IF i <= Len(c) THEN c[i] ELSE Zero) \in Chunk
  BY ContentShape, BoundsAssumption, ValueAssumption
<1> QED
  BY <1>1 DEF Resize, Content

\* What a readable pointer yields has the type of a file's contents.
LEMMA ReadIsContent ==
    ASSUME NEW p, Readable(p)
    PROVE  ContentOf(p) \in Content
BY DEF Readable, ContentOf, Content

\* So has what they start from.
LEMMA BaseIsContent ==
    ASSUME TypeOK
    PROVE  Base \in Content
<1>1. << >> \in Content
  <2>1. << >> \in [1 .. 0 -> Chunk]
    OBVIOUS
  <2> QED
    BY <2>1, BoundsAssumption DEF Content
<1> QED
  BY <1>1, ReadIsContent DEF Base, TypeOK

\* The program counter, spelled out for the provers.
LEMMA StepMembers ==
    /\ "idle" \in Step /\ "chunk" \in Step /\ "manifest" \in Step /\ "commit" \in Step
    /\ "keep" \in Step /\ "pointer" \in Step /\ "remove" \in Step /\ "rename" \in Step
    /\ "marker" \in Step /\ "restore" \in Step /\ "cleanup" \in Step /\ "removeDir" \in Step
BY DEF Step, FlushStep, RecoveryStep

\* A directory that was just created is well formed.
LEMMA EmptyDirIsDirectory == EmptyDir \in Directory
BY DEF EmptyDir, Directory

\* preserve_evidence_directory takes one evidence number.
LEMMA EvidenceTypes ==
    ASSUME nextEvidence \in 1 .. MaxEvidence, evidence \subseteq Evidence,
           nextEvidence' = nextEvidence + 1,
           evidence' = evidence \/ evidence' = evidence \cup {nextEvidence}
    PROVE  nextEvidence' \in 1 .. MaxEvidence + 1 /\ evidence' \subseteq Evidence
<1>1. nextEvidence \in Evidence
  BY DEF Evidence
<1>2. evidence' \subseteq Evidence
  BY <1>1, Zenon
<1> QED
  BY <1>2, BoundsAssumption

\* The initial state satisfies both invariants.
LEMMA InitInv == Init => TypeOK /\ FlushInv
<1> SUFFICES ASSUME Init PROVE TypeOK /\ FlushInv
  OBVIOUS
<1> USE DEF Init
<1>1. TypeOK
  BY BoundsAssumption, StepMembers DEF TypeOK, Generation
<1>2. FlushInv
  BY DEF FlushInv, FlushProgress, PointerProgress, RecoveryProgress, Separation,
         CurrentIsCommitted, FlushStep
<1> QED
  BY <1>1, <1>2

-----------------------------------------------------------------------------
\* Every step keeps the types; flush_file's writes stay inside the chunks it
\* was given because of FlushProgress.
LEMMA TypeStep == TypeOK /\ FlushInv /\ [Next]_vars => TypeOK'
<1> SUFFICES ASSUME TypeOK, FlushInv, [Next]_vars PROVE TypeOK'
  OBVIOUS
<1> USE BoundsAssumption 
<1> USE StepMembers DEF FlushStep
<1>1. ASSUME NEW c \in Content, Stage(c) PROVE TypeOK'
  BY <1>1 DEF TypeOK, Stage, disk
<1>2. ASSUME NEW i \in Position, NEW c \in Chunk, WriteAt(i, c) PROVE TypeOK'
  <2> DEFINE n == IF i > Len(Base) THEN i ELSE Len(Base)
  <2>1. n \in 0 .. MaxChunks /\ i \in 1 .. n
    BY BaseIsContent, ContentShape DEF Position
  <2>2. Resize(Base, n) \in [1 .. n -> Chunk]
    BY <2>1, BaseIsContent, ResizeIsContent, Zenon
  <2>3. [Resize(Base, n) EXCEPT ![i] = c] \in Content
    BY <2>1, <2>2 DEF Content
  <2> QED
    BY <1>1, <1>2, <2>3 DEF WriteAt
<1>3. ASSUME NEW n \in 0 .. MaxChunks, Truncate(n) PROVE TypeOK'
  BY <1>1, <1>3, BaseIsContent, ResizeIsContent DEF Truncate
<1>4. CASE BeginFlush
  <2>1. generations' \in [Generation -> Directory \cup {None}]
    BY <1>4, EmptyDirIsDirectory, Zenon DEF BeginFlush, TypeOK
  <2>2. pc' \in Step
    BY <1>4 DEF BeginFlush
  <2>3. exposed' \subseteq {"reuse", "tornRestore"}
    BY <1>4 DEF BeginFlush, TypeOK
  <2>4. nextGeneration' \in 1 .. MaxGeneration + 1 /\ generation' \in 0 .. MaxGeneration
    BY <1>4 DEF BeginFlush, TypeOK
  <2> QED
    BY <1>4, <2>1, <2>2, <2>3, <2>4 DEF BeginFlush, TypeOK
<1>5. CASE FlushNoDirectory
  BY <1>5 DEF FlushNoDirectory, TypeOK, disk
<1>14. CASE FlushOther
  BY <1>14 DEF FlushOther, TypeOK, disk
<1>6. CASE Flush
  <2>1. pc \in FlushStep => staged \in Content /\ generation \in Generation
                            /\ generations[generation] \in Directory
    BY DEF FlushInv, FlushProgress, TypeOK
  <2>2. CASE WriteChunk
    <3>1. index \in 1 .. Len(staged) /\ staged[index] \in Chunk /\ index \in Position
      BY <2>1, <2>2, ContentShape DEF WriteChunk, FlushInv, FlushProgress, Position
    <3>2. [generations EXCEPT ![generation].chunk[index] = staged[index]]
            \in [Generation -> Directory \cup {None}]
      BY <2>1, <2>2, <3>1 DEF WriteChunk, TypeOK, Directory
    <3> QED
      BY <2>1, <2>2, <3>1, <3>2, ContentShape DEF WriteChunk, TypeOK, history, Position
  <2>3. CASE WriteManifest
    <3>1. [generations EXCEPT ![generation].manifest = Len(staged)]
            \in [Generation -> Directory \cup {None}]
      BY <2>1, <2>3, ContentShape, Zenon DEF WriteManifest, TypeOK, Directory
    <3> QED
      BY <2>3, <3>1 DEF WriteManifest, TypeOK, history
  <2>4. CASE WriteCommit
    <3>1. [generations EXCEPT ![generation].commit = generation]
            \in [Generation -> Directory \cup {None}]
      BY <2>1, <2>4 DEF WriteCommit, TypeOK, Directory
    <3> QED
      BY <2>4, <3>1 DEF WriteCommit, TypeOK, history
  <2>5. CASE KeepPrevious \/ WritePointer \/ RemoveSelected
    BY <2>5, Zenon DEF KeepPrevious, WritePointer, RemoveSelected, TypeOK, history, disk
  <2>6. CASE RenamePointer
    BY <2>1, <2>6 DEF RenamePointer, TypeOK
  <2>7. CASE FinishFlush
    BY <2>7 DEF FinishFlush, Return, TypeOK, disk
  <2> QED
    BY <1>6, <2>2, <2>3, <2>4, <2>5, <2>6, <2>7 DEF Flush
<1>7. CASE Recover
  <2>1. /\ nextEvidence' \in 1 .. MaxEvidence + 1
        /\ evidence' \subseteq Evidence
    <3>1. nextEvidence \in 1 .. MaxEvidence
      BY <1>7 DEF Recover, TypeOK
    <3>2. \/ UNCHANGED <<nextEvidence, evidence>>
          \/ nextEvidence' = nextEvidence + 1
             /\ (evidence' = evidence \/ evidence' = evidence \cup {nextEvidence})
      BY <1>7 DEF Recover, PreserveEvidence
    <3> QED
      BY <3>1, <3>2, EvidenceTypes DEF TypeOK
  <2>2. /\ pc' \in Step
        /\ generation' \in 0 .. MaxGeneration
        /\ index' \in 0 .. MaxChunks + 1
        /\ reply' \in {"none", "io", "flushed", "recovered", "required", "integrity"}
    BY <1>7 DEF Recover, PreserveEvidence, Return, TypeOK
  <2> QED
    BY <1>7, <2>1, <2>2 DEF Recover, TypeOK
<1>8. CASE Recovery
  <2>1. CASE RestorePrevious
    BY <2>1 DEF RestorePrevious, TypeOK, history
  <2>4. CASE FinishRecovery
    BY <2>4 DEF FinishRecovery, Return, TypeOK, disk
  <2>2. CASE RemoveDirectory
    <3>1. generations' \in [Generation -> Directory \cup {None}]
      BY <2>2, Zenon DEF RemoveDirectory, TypeOK
    <3> QED
      BY <2>2, <3>1 DEF RemoveDirectory, TypeOK, history
  <2>3. ASSUME NEW g \in Generation, Quarantine(g) PROVE TypeOK'
    <3>1. /\ nextEvidence' \in 1 .. MaxEvidence + 1
          /\ evidence' \subseteq Evidence
      <4>1. nextEvidence \in 1 .. MaxEvidence
        BY <2>3 DEF Quarantine, TypeOK
      <4>2. nextEvidence' = nextEvidence + 1
            /\ (evidence' = evidence \/ evidence' = evidence \cup {nextEvidence})
        BY <2>3 DEF Quarantine, PreserveEvidence
      <4> QED
        BY <4>1, <4>2, EvidenceTypes DEF TypeOK
    <3>2. /\ pc' \in Step
          /\ generation' \in 0 .. MaxGeneration
          /\ index' \in 0 .. MaxChunks + 1
          /\ reply' \in {"none", "io", "flushed", "recovered", "required", "integrity"}
      BY <2>3 DEF Quarantine, PreserveEvidence, Return, TypeOK, Generation
    <3> QED
      BY <2>3, <3>1, <3>2 DEF Quarantine, TypeOK
  <2> QED
    BY <1>8, <2>1, <2>2, <2>3, <2>4 DEF Recovery
<1>9. ASSUME Interrupted
      PROVE  /\ generations' \in [Generation -> Directory \cup {None}]
             /\ selected' \in Generation \cup {None, Torn}
             /\ previous' \in Generation \cup {None, Torn}
             /\ exposed' \subseteq {"reuse", "tornRestore"}
  <2>1. CASE pc \in {"chunk", "manifest", "commit"}
    <3>1. generation \in Generation /\ generations[generation] \in Directory
      BY <2>1 DEF FlushInv, FlushProgress, TypeOK
    <3>2. pc = "chunk" => index \in Position
      BY <2>1, ContentShape DEF FlushInv, FlushProgress, Position
    <3>3. pc = "chunk" => [generations EXCEPT ![generation].chunk[index] = Torn]
                            \in [Generation -> Directory \cup {None}]
      BY <3>1, <3>2 DEF TypeOK, Directory
    <3>4. [generations EXCEPT ![generation].manifest = Torn] \in [Generation -> Directory \cup {None}]
      BY <3>1 DEF TypeOK, Directory
    <3>5. [generations EXCEPT ![generation].commit = Torn] \in [Generation -> Directory \cup {None}]
      BY <3>1 DEF TypeOK, Directory
    <3> QED
      BY <1>9, <2>1, <3>3, <3>4, <3>5 DEF Interrupted, TypeOK
  <2>2. CASE pc \notin {"chunk", "manifest", "commit"}
    BY <1>9, <2>2, EmptyDirIsDirectory DEF Interrupted, TypeOK
  <2> QED
    BY <2>1, <2>2
<1>10. CASE IoError
  BY <1>9, <1>10 DEF IoError, Return, TypeOK
<1>11. CASE Crash
  BY <1>9, <1>11 DEF Crash, Return, TypeOK
<1>12. CASE Reopen
  BY <1>12 DEF Reopen, TypeOK, disk
<1>13. CASE UNCHANGED vars
  BY <1>13 DEF vars, TypeOK
<1> QED
  BY <1>1, <1>2, <1>3, <1>4, <1>5, <1>6, <1>7, <1>8, <1>10, <1>11, <1>12, <1>13, <1>14 DEF Next, Write

-----------------------------------------------------------------------------
(* CurrentIsCommitted.                                                     *)

\* A step that moves neither the current pointer nor the generation it names
\* keeps the committed contents readable.
LEMMA CurrentKept ==
    ASSUME CurrentIsCommitted, committed' = committed,
           exposed' = {} => exposed = {},
           exposed' = {} => Current' = Current,
           exposed' = {} /\ Current \in Generation => generations'[Current] = generations[Current]
    PROVE  CurrentIsCommitted'
<1> SUFFICES ASSUME exposed' = {}, committed' # None
             PROVE  Readable(Current)' /\ (ContentOf(Current) = committed)'
  BY DEF CurrentIsCommitted
<1>1. Readable(Current) /\ ContentOf(Current) = committed
  BY DEF CurrentIsCommitted
<1>2. Current' = Current /\ Current \in Generation /\ generations'[Current] = generations[Current]
  BY <1>1 DEF Readable
<1>3. Readable(Current)'
  BY <1>1, <1>2 DEF Readable
<1> QED
  BY <1>1, <1>2, <1>3 DEF ContentOf

\* What a flush has written when it publishes is a complete generation with
\* the staged contents.
LEMMA FlushedIsReadable ==
    ASSUME TypeOK, FlushProgress, pc \in {"rename", "marker"}
    PROVE  Readable(generation) /\ ContentOf(generation) = staged
<1>1. /\ staged \in Content
      /\ generation \in Generation
      /\ generations[generation] # None
      /\ \A i \in 1 .. Len(staged) : generations[generation].chunk[i] = staged[i]
      /\ generations[generation].manifest = Len(staged)
      /\ generations[generation].commit = generation
  BY DEF FlushProgress, FlushStep
<1>2. Len(staged) \in 0 .. MaxChunks /\ staged \in [1 .. Len(staged) -> Chunk]
  BY <1>1, ContentShape
<1>3. Readable(generation)
  BY <1>1, <1>2 DEF Readable
<1>4. ContentOf(generation) = [i \in 1 .. Len(staged) |-> staged[i]]
  BY <1>1 DEF ContentOf
<1> QED
  BY <1>2, <1>3, <1>4

\* A call that returns has no progress to account for.
LEMMA IdleProgress ==
    ASSUME pc' = "idle"
    PROVE  FlushProgress' /\ PointerProgress' /\ RecoveryProgress'
BY DEF FlushProgress, PointerProgress, RecoveryProgress, FlushStep

\* Every step of flush_file keeps the invariant.
LEMMA FlushStepInv == TypeOK /\ FlushInv /\ Flush => FlushInv'
<1> SUFFICES ASSUME TypeOK, FlushInv, Flush PROVE FlushInv'
  OBVIOUS
<1>1. pc \in FlushStep
  BY DEF Flush, WriteChunk, WriteManifest, WriteCommit, KeepPrevious, WritePointer,
         RemoveSelected, RenamePointer, FinishFlush, FlushStep
<1>2. /\ staged \in Content
      /\ generation \in Generation
      /\ generations[generation] # None
      /\ generations[generation] \in Directory
      /\ DOMAIN generations = Generation
  BY <1>1 DEF FlushInv, FlushProgress, TypeOK
<1>3. Len(staged) \in 0 .. MaxChunks
  BY <1>2, ContentShape
<1> USE DEF FlushInv
<1>4. CASE WriteChunk
  <2> DEFINE d == [generations[generation] EXCEPT !.chunk[index] = staged[index]]
  <2>1. /\ generations' = [generations EXCEPT ![generation] = d]
        /\ index \in 1 .. Len(staged) /\ index \in Position
        /\ UNCHANGED <<staged, generation, selected, previous, reply, committed, exposed>>
        /\ pc = "chunk" /\ index' = index + 1
        /\ pc' = IF index = Len(staged) THEN "manifest" ELSE "chunk"
    <3>1. pc = "chunk" /\ index \in 1 .. Len(staged)
      BY <1>1, <1>4 DEF WriteChunk, FlushProgress
    <3>2. index \in Position
      BY <1>3, <3>1, BoundsAssumption DEF Position
    <3> QED
      BY <1>4, <3>1, <3>2 DEF WriteChunk, history
  <2>2. d \in Directory /\ \A i \in Position : d.chunk[i] = IF i = index THEN staged[index] ELSE generations[generation].chunk[i]
    <3>1. staged[index] \in Chunk
      BY <1>2, <2>1, ContentShape
    <3> QED
      BY <1>2, <2>1, <3>1 DEF Directory
  <2>3. generations'[generation] = d
    BY <1>2, <2>1
  <2>4. FlushProgress'
    <3>1. \A i \in 1 .. Len(staged) : i < index => generations[generation].chunk[i] = staged[i]
      BY <1>1, <2>1 DEF FlushProgress
    <3>2. \A i \in 1 .. Len(staged) : i < index + 1 => d.chunk[i] = staged[i]
      BY <1>3, <2>1, <2>2, <3>1, BoundsAssumption DEF Position
    <3>3. d # None
      BY <2>2, ValueAssumption
    <3> QED
      BY <1>2, <1>3, <2>1, <2>3, <3>2, <3>3 DEF FlushProgress
  <2>5. PointerProgress' /\ RecoveryProgress'
    BY <2>1 DEF PointerProgress, RecoveryProgress
  <2>6. Separation'
    BY <1>1, <2>1 DEF Separation, Current, FlushStep
  <2>7. CurrentIsCommitted'
    BY <1>1, <2>1, CurrentKept DEF Separation, Current, FlushStep
  <2> QED
    BY <2>4, <2>5, <2>6, <2>7
<1>5. CASE WriteManifest
  <2> DEFINE d == [generations[generation] EXCEPT !.manifest = Len(staged)]
  <2>1. /\ generations' = [generations EXCEPT ![generation] = d]
        /\ UNCHANGED <<staged, generation, selected, previous, reply, committed, exposed>>
        /\ pc = "manifest" /\ pc' = "commit"
    BY <1>5 DEF WriteManifest, history
  <2>2. d \in Directory /\ d.chunk = generations[generation].chunk /\ d.manifest = Len(staged)
    BY <1>2, <1>3 DEF Directory
  <2>3. generations'[generation] = d
    BY <1>2, <2>1
  <2>4. FlushProgress'
    <3>1. \A i \in 1 .. Len(staged) : generations[generation].chunk[i] = staged[i]
      BY <1>1, <2>1 DEF FlushProgress
    <3>2. d # None
      BY <2>2, ValueAssumption
    <3> QED
      BY <1>2, <2>1, <2>2, <2>3, <3>1, <3>2 DEF FlushProgress
  <2>5. PointerProgress' /\ RecoveryProgress'
    BY <2>1 DEF PointerProgress, RecoveryProgress
  <2>6. Separation'
    BY <1>1, <2>1 DEF Separation, Current, FlushStep
  <2>7. CurrentIsCommitted'
    BY <1>1, <2>1, CurrentKept DEF Separation, Current, FlushStep
  <2> QED
    BY <2>4, <2>5, <2>6, <2>7
<1>6. CASE WriteCommit
  <2> DEFINE d == [generations[generation] EXCEPT !.commit = generation]
  <2>1. /\ generations' = [generations EXCEPT ![generation] = d]
        /\ UNCHANGED <<staged, generation, selected, previous, reply, committed, exposed>>
        /\ pc = "commit" /\ pc' = IF selected # None THEN "keep" ELSE "pointer"
    BY <1>6 DEF WriteCommit, history
  <2>2. d \in Directory /\ d.chunk = generations[generation].chunk
        /\ d.manifest = generations[generation].manifest /\ d.commit = generation
    BY <1>2 DEF Directory
  <2>3. generations'[generation] = d
    BY <1>2, <2>1
  <2>4. FlushProgress'
    <3>1. /\ \A i \in 1 .. Len(staged) : generations[generation].chunk[i] = staged[i]
          /\ generations[generation].manifest = Len(staged)
      BY <1>1, <2>1 DEF FlushProgress
    <3>2. d # None
      BY <2>2, ValueAssumption
    <3> QED
      BY <1>2, <2>1, <2>2, <2>3, <3>1, <3>2 DEF FlushProgress
  <2>5. PointerProgress' /\ RecoveryProgress'
    BY <2>1 DEF PointerProgress, RecoveryProgress
  <2>6. Separation'
    BY <1>1, <2>1 DEF Separation, Current, FlushStep
  <2>7. CurrentIsCommitted'
    BY <1>1, <2>1, CurrentKept DEF Separation, Current, FlushStep
  <2> QED
    BY <2>4, <2>5, <2>6, <2>7
<1>7. CASE KeepPrevious
  <2>1. /\ previous' = selected /\ pc = "keep" /\ pc' = "pointer" /\ selected # None
        /\ UNCHANGED <<staged, generation, index, generations, selected, reply, committed, exposed>>
    BY <1>7 DEF KeepPrevious, history, PointerProgress
  <2>2. FlushProgress' /\ PointerProgress' /\ RecoveryProgress'
    BY <1>1, <2>1 DEF FlushProgress, PointerProgress, RecoveryProgress
  <2>3. Separation'
    BY <1>1, <2>1 DEF Separation, Current, FlushStep
  <2>4. CurrentIsCommitted'
    BY <2>1, CurrentKept DEF Current
  <2> QED
    BY <2>2, <2>3, <2>4
<1>8. CASE WritePointer
  <2>1. /\ pc = "pointer" /\ pc' = IF selected # None THEN "remove" ELSE "rename"
        /\ UNCHANGED <<staged, generation, index, generations, selected, previous, reply, committed, exposed>>
    BY <1>8 DEF WritePointer, disk, history
  <2>2. FlushProgress' /\ PointerProgress' /\ RecoveryProgress'
    BY <1>1, <2>1 DEF FlushProgress, PointerProgress, RecoveryProgress
  <2>3. Separation'
    BY <1>1, <2>1 DEF Separation, Current, FlushStep
  <2>4. CurrentIsCommitted'
    BY <2>1, CurrentKept DEF Current
  <2> QED
    BY <2>2, <2>3, <2>4
<1>9. CASE RemoveSelected
  <2>1. /\ pc = "remove" /\ pc' = "rename" /\ selected' = None
        /\ UNCHANGED <<staged, generation, index, generations, previous, reply, committed, exposed>>
        /\ selected # None => previous = selected
    BY <1>9 DEF RemoveSelected, history, PointerProgress
  <2>2. FlushProgress' /\ PointerProgress' /\ RecoveryProgress'
    BY <1>1, <2>1 DEF FlushProgress, PointerProgress, RecoveryProgress
  <2>3. Separation'
    BY <1>1, <2>1 DEF Separation, Current, FlushStep
  <2>4. CurrentIsCommitted'
    BY <2>1, CurrentKept DEF Current
  <2> QED
    BY <2>2, <2>3, <2>4
<1>10. CASE RenamePointer
  <2>1. /\ pc = "rename" /\ pc' = "marker" /\ selected' = generation /\ committed' = staged
        /\ UNCHANGED <<staged, generation, index, generations, previous, reply, exposed>>
    BY <1>10 DEF RenamePointer
  <2>2. FlushProgress' /\ PointerProgress' /\ RecoveryProgress'
    BY <1>1, <2>1 DEF FlushProgress, PointerProgress, RecoveryProgress
  <2>3. Separation'
    BY <1>2, <2>1, ContentShape DEF Separation
  <2>4. CurrentIsCommitted'
    <3>1. Readable(generation) /\ ContentOf(generation) = staged
      BY <2>1, FlushedIsReadable
    <3>2. Current' = generation
      BY <1>2, <2>1, ValueAssumption, BoundsAssumption DEF Current, Generation
    <3>3. Readable(Current)' /\ (ContentOf(Current) = committed)'
      BY <2>1, <3>1, <3>2 DEF Readable, ContentOf
    <3> QED
      BY <3>3 DEF CurrentIsCommitted
  <2> QED
    BY <2>2, <2>3, <2>4
<1>11. CASE FinishFlush
  <2>1. pc' = "idle" /\ UNCHANGED <<generations, selected, previous, committed, exposed>>
    BY <1>11 DEF FinishFlush, Return, disk
  <2>2. Separation'
    BY <2>1 DEF Separation, FlushStep
  <2>3. CurrentIsCommitted'
    BY <2>1, CurrentKept DEF Current
  <2> QED
    BY <2>1, <2>2, <2>3, IdleProgress
<1> QED
  BY <1>4, <1>5, <1>6, <1>7, <1>8, <1>9, <1>10, <1>11 DEF Flush

\* A step of an idle store that touches neither disk nor history.
LEMMA IdleStepInv ==
    ASSUME FlushInv, pc' = "idle",
           UNCHANGED <<generations, selected, previous, committed, exposed>>
    PROVE  FlushInv'
<1>1. Separation'
  BY DEF FlushInv, Separation, FlushStep
<1>2. CurrentIsCommitted'
  BY CurrentKept DEF FlushInv, Current
<1> QED
  BY <1>1, <1>2, IdleProgress DEF FlushInv

\* A flush that begins outside the current generation keeps the invariant.
LEMMA BeginFlushInv == TypeOK /\ FlushInv /\ BeginFlush => FlushInv'
<1> SUFFICES ASSUME TypeOK, FlushInv, BeginFlush PROVE FlushInv'
  OBVIOUS
<1> USE DEF FlushInv
<1>1. /\ nextGeneration \in Generation
      /\ staged \in Content
      /\ generation' = nextGeneration /\ index' = 1 /\ reply' = "none"
      /\ pc' = IF Len(staged) = 0 THEN "manifest" ELSE "chunk"
      /\ UNCHANGED <<staged, selected, previous, committed>>
  BY BoundsAssumption DEF BeginFlush, TypeOK, Generation
<1>2. /\ generations'[nextGeneration] # None
      /\ \A g \in Generation \ {nextGeneration} : generations'[g] = generations[g]
  BY <1>1, EmptyDirIsDirectory, ValueAssumption DEF BeginFlush, TypeOK
<1>3. Len(staged) \in Nat
  BY <1>1, ContentShape, BoundsAssumption
<1>4. FlushProgress'
  BY <1>1, <1>2, <1>3 DEF FlushProgress
<1>5. PointerProgress' /\ RecoveryProgress'
  BY <1>1 DEF PointerProgress, RecoveryProgress
<1>6. exposed' = {} => exposed = {} /\ nextGeneration # Current
  BY DEF BeginFlush
<1>7. Current' = Current
  BY <1>1 DEF Current
<1>8. Separation'
  BY <1>1, <1>6, <1>7 DEF Separation
<1>9. CurrentIsCommitted'
  BY <1>1, <1>2, <1>6, <1>7, CurrentKept
<1> QED
  BY <1>4, <1>5, <1>8, <1>9

\* recover_store keeps the invariant, up to its first write and after it.
LEMMA RecoverInv == TypeOK /\ FlushInv /\ Recover => FlushInv'
<1> SUFFICES ASSUME TypeOK, FlushInv, Recover PROVE FlushInv'
  OBVIOUS
<1> USE DEF FlushInv
<1>1. UNCHANGED <<generations, selected, previous, committed, exposed>>
  BY DEF Recover
<1>2. CASE pc' = "idle"
  BY <1>1, <1>2, IdleStepInv
<1>3. CASE pc' # "idle"
  <2>1. /\ ReadStatus(Current) = "ok" /\ reply' = "none"
        /\ pc' = IF selected = None THEN "restore" ELSE "cleanup"
    BY <1>3 DEF Recover, PreserveEvidence, Return
  <2>2. Readable(Current)
    BY <2>1 DEF ReadStatus
  <2>3. selected = None => previous \in Generation
    BY <2>2 DEF Readable, Current
  <2>4. FlushProgress' /\ PointerProgress' /\ RecoveryProgress' /\ Separation'
    BY <1>1, <2>1, <2>3 DEF FlushProgress, PointerProgress, RecoveryProgress, Separation, FlushStep
  <2>5. CurrentIsCommitted'
    BY <1>1, CurrentKept DEF Current
  <2> QED
    BY <2>4, <2>5
<1> QED
  BY <1>2, <1>3

\* The steps of recover_store preserve the invariant.
LEMMA RecoveryInv == TypeOK /\ FlushInv /\ Recovery => FlushInv'
<1> SUFFICES ASSUME TypeOK, FlushInv, Recovery PROVE FlushInv'
  OBVIOUS
<1> USE DEF FlushInv
<1>1. CASE RestorePrevious
  <2>1. /\ pc = "restore" /\ pc' = "cleanup" /\ selected' = previous
        /\ selected = None /\ previous \in Generation
        /\ UNCHANGED <<generations, previous, reply, committed, exposed>>
    BY <1>1 DEF RestorePrevious, history, RecoveryProgress
  <2>2. previous # None
    BY <2>1, ValueAssumption, BoundsAssumption DEF Generation
  <2>3. FlushProgress' /\ PointerProgress' /\ RecoveryProgress' /\ Separation'
    BY <2>1, <2>2 DEF FlushProgress, PointerProgress, RecoveryProgress, Separation, FlushStep
  <2>4. CurrentIsCommitted'
    BY <2>1, <2>2, CurrentKept DEF Current
  <2> QED
    BY <2>3, <2>4
<1>2. CASE RemoveDirectory
  <2>1. /\ pc = "removeDir" /\ pc' = "cleanup"
        /\ generations' = [generations EXCEPT ![generation] = None]
        /\ generation \notin {selected, previous}
        /\ UNCHANGED <<selected, previous, reply, committed, exposed>>
    BY <1>2 DEF RemoveDirectory, history, RecoveryProgress
  <2>2. FlushProgress' /\ PointerProgress' /\ RecoveryProgress' /\ Separation'
    BY <2>1 DEF FlushProgress, PointerProgress, RecoveryProgress, Separation, FlushStep
  <2>3. Current # generation
    BY <2>1 DEF Current
  <2>4. CurrentIsCommitted'
    BY <2>1, <2>3, CurrentKept DEF Current, TypeOK
  <2> QED
    BY <2>2, <2>4
<1>3. CASE FinishRecovery
  BY <1>3, IdleStepInv DEF FinishRecovery, Return, disk
<1>4. ASSUME NEW g \in Generation, Quarantine(g) PROVE FlushInv'
  <2>1. UNCHANGED <<generations, selected, previous, committed, exposed>>
    BY <1>4 DEF Quarantine
  <2>2. CASE pc' = "idle"
    BY <2>1, <2>2, IdleStepInv
  <2>3. CASE pc' # "idle"
    <3>1. /\ pc = "cleanup" /\ pc' = "removeDir" /\ generation' = g /\ UNCHANGED reply
          /\ g \notin {selected, previous}
      BY <1>4, <2>3 DEF Quarantine, PreserveEvidence, Return, Unreferenced
    <3>2. FlushProgress' /\ PointerProgress' /\ RecoveryProgress' /\ Separation'
      BY <1>4, <2>1, <3>1 DEF FlushProgress, PointerProgress, RecoveryProgress, Separation, FlushStep
    <3>3. CurrentIsCommitted'
      BY <2>1, CurrentKept DEF Current
    <3> QED
      BY <3>2, <3>3
  <2> QED
    BY <2>2, <2>3
<1> QED
  BY <1>1, <1>2, <1>3, <1>4 DEF Recovery

\* A failed or interrupted file operation keeps the invariant: what it may
\* tear is never what the current pointer names.
LEMMA InterruptedInv ==
    ASSUME TypeOK, FlushInv, Interrupted, pc' = "idle", UNCHANGED committed
    PROVE  FlushInv'
<1> USE DEF FlushInv
<1>1. exposed' = {} => exposed = {}
  BY DEF Interrupted
<1>2. Separation'
  BY ValueAssumption, BoundsAssumption
     DEF Interrupted, Separation, PointerProgress, RecoveryProgress, FlushStep, Generation
<1>3. exposed' = {} => Current' = Current
  BY DEF Interrupted, Current, PointerProgress
<1>4. ASSUME exposed' = {}, Current \in Generation
      PROVE  generations'[Current] = generations[Current]
  <2>1. CASE UNCHANGED generations
    BY <2>1
  <2>2. CASE ~UNCHANGED generations
    <3>1. pc \in {"chunk", "manifest", "commit", "removeDir"}
      BY <2>2 DEF Interrupted
    <3>2. Current # generation
      BY <1>1, <1>4, <3>1 DEF Separation, RecoveryProgress, Current, FlushStep
    <3>3. \A g \in Generation : g # generation => generations'[g] = generations[g]
      BY <2>2, <3>1 DEF Interrupted, TypeOK
    <3> QED
      BY <1>4, <3>2, <3>3
  <2> QED
    BY <2>1, <2>2
<1>5. CurrentIsCommitted'
  BY <1>1, <1>3, <1>4, CurrentKept
<1> QED
  BY <1>2, <1>5, IdleProgress

\* Every step preserves the invariant.
LEMMA InvStep == TypeOK /\ FlushInv /\ [Next]_vars => FlushInv'
<1> SUFFICES ASSUME TypeOK, FlushInv, [Next]_vars PROVE FlushInv'
  OBVIOUS
<1>1. ASSUME NEW c, Stage(c) PROVE FlushInv'
  BY <1>1, IdleStepInv DEF Stage, disk
<1>2. CASE FlushNoDirectory \/ FlushOther
  BY <1>2, IdleStepInv DEF FlushNoDirectory, FlushOther, disk
<1>3. CASE IoError \/ Crash
  BY <1>3, InterruptedInv DEF IoError, Crash, Return
<1>4. CASE Reopen
  BY <1>4, IdleStepInv DEF Reopen, disk
<1>5. CASE UNCHANGED vars
  BY <1>5 DEF vars, FlushInv, FlushProgress, PointerProgress, RecoveryProgress, Separation,
              CurrentIsCommitted, Readable, ContentOf, Current
<1> QED
  BY <1>1, <1>2, <1>3, <1>4, <1>5, BeginFlushInv, FlushStepInv, RecoverInv, RecoveryInv, Zenon
     DEF Next, Write, WriteAt, Truncate

\* Every variable keeps its type.
THEOREM TypeCorrect == Spec => []TypeOK
<1>1. TypeOK /\ FlushInv /\ [Next]_vars => (TypeOK /\ FlushInv)'
  BY TypeStep, InvStep
<1> QED
  BY <1>1, InitInv, PTL DEF Spec

\* The inductive invariant holds in every reachable state.
THEOREM FlushInvariant == Spec => [](TypeOK /\ FlushInv)
<1>1. TypeOK /\ FlushInv /\ [Next]_vars => (TypeOK /\ FlushInv)'
  BY TypeStep, InvStep
<1> QED
  BY <1>1, InitInv, PTL DEF Spec

\* flush_file and recover_store: whatever a flush or a recovery is interrupted
\* by, the pointer recovery follows names a complete generation that holds the
\* contents last renamed into place.
THEOREM CommittedSurvives == Spec => []CurrentIsCommitted
<1>1. FlushInv => CurrentIsCommitted
  BY DEF FlushInv
<1> QED
  BY <1>1, FlushInvariant, PTL

-----------------------------------------------------------------------------
(* What recover_store and flush_file return.                               *)

\* No step of a committed file makes recover_store refuse it.
LEMMA DeniedStep ==
    ASSUME TypeOK, FlushInv, RecoveryIsNeverDenied, [Next]_vars
    PROVE  RecoveryIsNeverDenied'
<1> SUFFICES ASSUME exposed' = {}
             PROVE  reply' # "integrity" /\ (reply' = "required" => committed' = None)
  BY DEF RecoveryIsNeverDenied
<1> USE DEF FlushInv
<1>1. CASE Recover
  <2>1. exposed = {} /\ UNCHANGED committed
    BY <1>1 DEF Recover
  <2>2. CASE committed # None
    <3>1. ReadStatus(Current) = "ok"
      BY <2>1, <2>2 DEF CurrentIsCommitted, ReadStatus
    <3> QED
      BY <1>1, <3>1 DEF Recover
  <2>3. CASE committed = None
    <3>1. Current = None /\ selected = None
      BY <2>3 DEF Separation, Current
    <3>2. None \notin Generation
      BY ValueAssumption, BoundsAssumption DEF Generation
    <3>3. ReadStatus(Current) = "missing"
      BY <3>1, <3>2 DEF ReadStatus, Readable, FirstBad
    <3> QED
      BY <1>1, <2>1, <2>3, <3>1, <3>3 DEF Recover, Return
  <2> QED
    BY <2>2, <2>3
<1>2. CASE RenamePointer
  BY <1>2 DEF RenamePointer, RecoveryProgress
<1>3. CASE UNCHANGED <<reply, committed, exposed>>
  BY <1>3 DEF RecoveryIsNeverDenied
<1>4. CASE reply' \in {"none", "io", "flushed", "recovered"}
  BY <1>4
<1>5. Recover \/ RenamePointer \/ UNCHANGED <<reply, committed, exposed>>
      \/ reply' \in {"none", "io", "flushed", "recovered"}
  <2>1. CASE Flush
    BY <2>1 DEF Flush, WriteChunk, WriteManifest, WriteCommit, KeepPrevious, WritePointer,
                RemoveSelected, FinishFlush, Return, history
  <2>2. CASE Recovery
    BY <2>2 DEF Recovery, RestorePrevious, RemoveDirectory, FinishRecovery, Quarantine,
                PreserveEvidence, Return, history
  <2>3. CASE ~Flush /\ ~Recovery
    BY <2>3 DEF Next, Write, WriteAt, Truncate, Stage, BeginFlush, FlushNoDirectory, FlushOther,
                IoError, Crash, Reopen, Return, vars
  <2> QED
    BY <2>1, <2>2, <2>3
<1> QED
  BY <1>1, <1>2, <1>3, <1>4, <1>5

\* recover_store never refuses a committed file.
THEOREM RecoverySucceeds == Spec => []RecoveryIsNeverDenied
<1>1. Init => RecoveryIsNeverDenied
  BY DEF Init, RecoveryIsNeverDenied
<1>2. TypeOK /\ FlushInv /\ RecoveryIsNeverDenied /\ [Next]_vars => RecoveryIsNeverDenied'
  BY DeniedStep
<1> QED
  BY <1>1, <1>2, FlushInvariant, PTL DEF Spec

\* flush_file returns Ok only when a read returns what was staged, whatever
\* happened before.
THEOREM AcknowledgedReadable == Spec => AcknowledgedIsReadable
<1> DEFINE A == pc = "marker" /\ reply' = "flushed" =>
                  Readable(selected)' /\ ContentOf(selected)' = staged
<1>1. TypeOK /\ FlushInv /\ [Next]_vars => [A]_vars
  <2> SUFFICES ASSUME TypeOK, FlushInv, Next, pc = "marker", reply' = "flushed"
               PROVE  Readable(selected)' /\ ContentOf(selected)' = staged
    OBVIOUS
  <2>1. UNCHANGED <<generations, selected>>
    <3>1. FinishFlush
      BY DEF Next, Write, WriteAt, Truncate, Stage, BeginFlush, FlushNoDirectory, FlushOther,
             Recover, Recovery, RestorePrevious, RemoveDirectory, FinishRecovery, Quarantine,
             IoError, Crash, Reopen, Return, Flush, WriteChunk, WriteManifest, WriteCommit,
             KeepPrevious, WritePointer, RemoveSelected, RenamePointer
    <3> QED
      BY <3>1 DEF FinishFlush, disk
  <2>2. Readable(generation) /\ ContentOf(generation) = staged /\ selected = generation
    BY FlushedIsReadable DEF FlushInv, PointerProgress
  <2> QED
    BY <2>1, <2>2 DEF Readable, ContentOf
<1> QED
  BY <1>1, FlushInvariant, PTL DEF Spec, AcknowledgedIsReadable

\* A record file of the directory a flush writes is replaced, or torn.
LEMMA RecordReplaced ==
    ASSUME TypeOK, FlushInv, Next, pc \in {"chunk", "manifest", "commit"}
    PROVE  generation \in Generation /\ generations'[generation] # None
<1>1. generation \in Generation /\ generations[generation] \in Directory
  BY DEF FlushInv, FlushProgress, FlushStep, TypeOK
<1>2. pc = "chunk" => index \in Position /\ staged[index] \in Chunk
  BY ContentShape, BoundsAssumption DEF FlushInv, FlushProgress, FlushStep, Position
<1>3. ASSUME NEW x \in Chunk \cup {Torn}, index \in Position
      PROVE  [generations EXCEPT ![generation].chunk[index] = x][generation] \in Directory
  BY <1>1, <1>3 DEF TypeOK, Directory
<1>4. ASSUME NEW x \in 0 .. MaxChunks \cup {Torn}
      PROVE  [generations EXCEPT ![generation].manifest = x][generation] \in Directory
  BY <1>1 DEF TypeOK, Directory
<1>5. ASSUME NEW x \in Generation \cup {Torn}
      PROVE  [generations EXCEPT ![generation].commit = x][generation] \in Directory
  BY <1>1 DEF TypeOK, Directory
<1>6. Len(staged) \in 0 .. MaxChunks
  BY ContentShape DEF FlushInv, FlushProgress, FlushStep
<1>7. \/ UNCHANGED generations
      \/ pc = "chunk" /\ \E x \in Chunk \cup {Torn} :
           generations' = [generations EXCEPT ![generation].chunk[index] = x]
      \/ pc = "manifest" /\ \E x \in 0 .. MaxChunks \cup {Torn} :
           generations' = [generations EXCEPT ![generation].manifest = x]
      \/ pc = "commit" /\ \E x \in Generation \cup {Torn} :
           generations' = [generations EXCEPT ![generation].commit = x]
  BY <1>1, <1>2, <1>6, Zenon
     DEF Next, Write, WriteAt, Truncate, Stage, BeginFlush, FlushNoDirectory, FlushOther,
         Recover, Recovery, RestorePrevious, RemoveDirectory, FinishRecovery, Quarantine,
         IoError, Crash, Interrupted, Reopen, Flush, WriteChunk, WriteManifest, WriteCommit,
         KeepPrevious, WritePointer, RemoveSelected, RenamePointer, FinishFlush
<1>8. generations'[generation] \in Directory
  BY <1>1, <1>2, <1>3, <1>4, <1>5, <1>7, Zenon
<1> QED
  BY <1>1, <1>8, ValueAssumption

\* The steps that change a generation directory.
LEMMA DirectoryWriters ==
    ASSUME TypeOK, Next, NEW g \in Generation, generations'[g] # generations[g]
    PROVE  BeginFlush \/ (g = generation /\ pc \in {"chunk", "manifest", "commit", "removeDir"})
<1> SUFFICES ASSUME ~BeginFlush
             PROVE  g = generation /\ pc \in {"chunk", "manifest", "commit", "removeDir"}
  OBVIOUS
<1> QED
  BY DEF Next, Write, WriteAt, Truncate, Stage, FlushNoDirectory, FlushOther,
         Recover, Recovery, RestorePrevious, RemoveDirectory, FinishRecovery, Quarantine,
         IoError, Crash, Interrupted, Reopen, Flush, WriteChunk, WriteManifest, WriteCommit,
         KeepPrevious, WritePointer, RemoveSelected, RenamePointer, FinishFlush, disk, TypeOK

\* cleanup_unreferenced_staging removes only what neither pointer names.
THEOREM ReferencedKept == Spec => ReferencedIsKept
<1> DEFINE A == \A g \in Generation :
                  generations[g] # None /\ generations'[g] = None => g \notin {selected, previous}
<1>1. TypeOK /\ FlushInv /\ [Next]_vars => [A]_vars
  <2> SUFFICES ASSUME TypeOK, FlushInv, Next,
                      NEW g \in Generation, generations[g] # None, generations'[g] = None
               PROVE  g \notin {selected, previous}
    OBVIOUS
  <2>1. CASE BeginFlush
    BY <2>1, EmptyDirIsDirectory, ValueAssumption DEF BeginFlush, TypeOK
  <2>2. CASE g = generation /\ pc = "removeDir"
    BY <2>2 DEF FlushInv, RecoveryProgress
  <2>3. CASE g = generation /\ pc \in {"chunk", "manifest", "commit"}
    BY <2>3, RecordReplaced
  <2> QED
    BY <2>1, <2>2, <2>3, DirectoryWriters
<1> QED
  BY <1>1, FlushInvariant, PTL DEF Spec, ReferencedIsKept

-----------------------------------------------------------------------------
(* FileStore implements AtomicFile.                                        *)

\* The refinement mapping of AtomicFile's value.
Stored == IF Readable(Current) THEN ContentOf(Current) ELSE None

\* While nothing is exposed, what recovery would read is what was committed.
LEMMA StoredIsCommitted ==
    ASSUME TypeOK, FlushInv, exposed = {}
    PROVE  Stored = committed
<1>1. CASE committed # None
  BY <1>1 DEF FlushInv, CurrentIsCommitted, Stored
<1>2. CASE committed = None
  <2>1. Current = None
    BY <1>2 DEF FlushInv, Separation, Current
  <2>2. None \notin Generation
    BY ValueAssumption, BoundsAssumption DEF Generation
  <2> QED
    BY <1>2, <2>1, <2>2 DEF Stored, Readable
<1> QED
  BY <1>1, <1>2

\* What a step does to the staged and committed contents and to the reply.
LEMMA StepKinds ==
    ASSUME TypeOK, FlushInv, exposed = {}, Next
    PROVE  \/ UNCHANGED <<committed, staged, reply>>
           \/ UNCHANGED <<committed, staged>> /\ reply' # "flushed"
           \/ UNCHANGED committed /\ staged' \in Content /\ reply' # "flushed"
           \/ UNCHANGED committed /\ staged' = None /\ reply' # "flushed"
           \/ committed' = staged /\ staged # None /\ UNCHANGED <<staged, reply>>
           \/ /\ UNCHANGED committed /\ staged' = None /\ reply' = "flushed"
              /\ staged # None /\ committed = staged
<1>1. CASE RenamePointer
  <2>1. staged \in Content
    BY <1>1 DEF RenamePointer, FlushInv, FlushProgress, FlushStep
  <2> QED
    BY <1>1, <2>1, ContentShape DEF RenamePointer
<1>2. CASE FinishFlush
  <2>1. /\ Readable(generation) /\ ContentOf(generation) = staged /\ selected = generation
        /\ staged \in Content /\ generation \in Generation
    BY <1>2, FlushedIsReadable DEF FinishFlush, FlushInv, FlushProgress, PointerProgress, FlushStep
  <2>2. selected # None
    BY <2>1, ValueAssumption, BoundsAssumption DEF Generation
  <2>3. committed = staged
    BY <2>1, <2>2 DEF FlushInv, CurrentIsCommitted, Separation, Current
  <2> QED
    BY <1>2, <2>1, <2>3, ContentShape DEF FinishFlush, Return
<1>3. CASE Flush /\ ~RenamePointer /\ ~FinishFlush
  BY <1>3 DEF Flush, WriteChunk, WriteManifest, WriteCommit, KeepPrevious, WritePointer,
              RemoveSelected, history
<1>4. CASE Recover \/ Recovery
  BY <1>4 DEF Recover, Recovery, RestorePrevious, RemoveDirectory, FinishRecovery, Quarantine,
              PreserveEvidence, Return, history
<1>5. CASE BeginFlush \/ FlushNoDirectory \/ FlushOther \/ IoError \/ Crash \/ Reopen
  BY <1>5 DEF BeginFlush, FlushNoDirectory, FlushOther, IoError, Crash, Reopen, Return
<1>6. ASSUME NEW c, Stage(c) PROVE UNCHANGED committed /\ reply' # "flushed" /\ staged' \in Content \cup {None}
  <2>1. TypeOK'
    BY TypeStep
  <2> QED
    BY <1>6, <2>1 DEF Stage, TypeOK
<1> QED
  BY <1>1, <1>2, <1>3, <1>4, <1>5, <1>6, Zenon DEF Next, Flush, Write, WriteAt, Truncate

\* Up to the first unprotected event, flush_file with recover_store is a file
\* whose contents are replaced in one step and acknowledged after it.
THEOREM ImplementsAtomicFile == ProtectedSpec => RefinesAtomicFile
<1> DEFINE Inv == TypeOK /\ FlushInv /\ exposed = {}
<1>1. Init => Inv
  BY InitInv DEF Init
<1>2. Inv /\ [Next /\ Protected]_vars => Inv'
  BY TypeStep, InvStep DEF Protected, vars
<1>3. Init => Atomic!Init
  <2> SUFFICES ASSUME Init PROVE Atomic!Init
    OBVIOUS
  <2>1. Stored = None
    BY <1>1, StoredIsCommitted DEF Init
  <2> QED
    BY <2>1 DEF Init, Atomic!Init, Stored
<1>5. Inv => Stored = committed
  BY StoredIsCommitted
<1>6. Inv' => (Stored = committed)'
  BY <1>5, PTL
<1>4. Inv /\ Inv' /\ [Next /\ Protected]_vars => [Atomic!Next]_<<Stored, staged, reply = "flushed">>
  <2> SUFFICES ASSUME Inv, Inv', [Next /\ Protected]_vars
               PROVE  [Atomic!Next]_<<Stored, staged, reply = "flushed">>
    OBVIOUS
  <2>1. Stored = committed
    BY StoredIsCommitted
  <2>2. Stored' = committed'
    BY <1>6
  <2>3. CASE UNCHANGED vars
    BY <2>1, <2>2, <2>3 DEF vars
  <2>4. CASE Next
    <3>1. CASE UNCHANGED <<committed, staged, reply>>
      BY <2>1, <2>2, <3>1
    <3>2. CASE UNCHANGED <<committed, staged>> /\ reply' # "flushed"
      BY <2>1, <2>2, <3>2 DEF Atomic!Next, Atomic!Other, Stored
    <3>3. CASE UNCHANGED committed /\ staged' \in Content /\ reply' # "flushed"
      BY <2>1, <2>2, <3>3 DEF Atomic!Next, Atomic!Stage, Stored
    <3>4. CASE UNCHANGED committed /\ staged' = None /\ reply' # "flushed"
      BY <2>1, <2>2, <3>4 DEF Atomic!Next, Atomic!Lose, Stored
    <3>5. CASE committed' = staged /\ staged # None /\ UNCHANGED <<staged, reply>>
      BY <2>1, <2>2, <3>5 DEF Atomic!Next, Atomic!Commit, Stored
    <3>6. CASE /\ UNCHANGED committed /\ staged' = None /\ reply' = "flushed"
               /\ staged # None /\ committed = staged
      BY <2>1, <2>2, <3>6 DEF Atomic!Next, Atomic!Acknowledge, Stored
    <3> QED
      BY <2>4, <3>1, <3>2, <3>3, <3>4, <3>5, <3>6, StepKinds
  <2> QED
    BY <2>3, <2>4
<1> QED
  BY <1>1, <1>2, <1>3, <1>4, PTL DEF ProtectedSpec, RefinesAtomicFile, Atomic!Spec, Stored

-----------------------------------------------------------------------------
(* wildmatch::matches.  Why the last star is enough: an attempt takes the  *)
(* pattern between two stars as early as it fits, so what a later start    *)
(* leaves for the rest of the pattern is only less of the name.            *)

\* One element in front of a rest.
LEMMA Prepend ==
  ASSUME NEW p, NEW n, Len(p) \in Nat, Len(n) \in Nat,
         NEW i \in 1..Len(p), NEW x \in 1..Len(n) + 1, NEW y \in 1..Len(n) + 1,
         StandsFor(p, n, i, x, y), Rest(p, n, i + 1, y)
  PROVE  Rest(p, n, i, x)
<1>1. PICK f \in [i + 1..Len(p) + 1 -> 1..Len(n) + 1] :
        /\ f[i + 1] = y /\ f[Len(p) + 1] = Len(n) + 1
        /\ \A k \in i + 1..Len(p) : StandsFor(p, n, k, f[k], f[k + 1])
  BY Zenon DEF Rest
<1> DEFINE g == [k \in i..Len(p) + 1 |-> IF k = i THEN x ELSE f[k]]
<1>2. g \in [i..Len(p) + 1 -> 1..Len(n) + 1] OBVIOUS
<1>3. g[i] = x /\ g[i + 1] = y /\ g[Len(p) + 1] = Len(n) + 1 BY <1>1
<1>4. ASSUME NEW k \in i..Len(p) PROVE StandsFor(p, n, k, g[k], g[k + 1])
  <2>1. CASE k = i BY <1>3, <2>1
  <2>2. CASE k # i
    <3>1. k \in i + 1..Len(p) /\ g[k] = f[k] /\ g[k + 1] = f[k + 1] BY <2>2
    <3> QED BY <1>1, <3>1, Zenon
  <2> QED BY <2>1, <2>2
<1> HIDE DEF g
<1> QED BY <1>2, <1>3, <1>4, Zenon DEF Rest

\* The first element of a rest, and what is left.
LEMMA Unfold ==
  ASSUME NEW p, NEW n, Len(p) \in Nat, Len(n) \in Nat,
         NEW i \in 1..Len(p), NEW x \in 1..Len(n) + 1, Rest(p, n, i, x)
  PROVE  \E y \in 1..Len(n) + 1 : StandsFor(p, n, i, x, y) /\ Rest(p, n, i + 1, y)
<1>1. PICK f \in [i..Len(p) + 1 -> 1..Len(n) + 1] :
        /\ f[i] = x /\ f[Len(p) + 1] = Len(n) + 1
        /\ \A k \in i..Len(p) : StandsFor(p, n, k, f[k], f[k + 1])
  BY Zenon DEF Rest
<1> DEFINE g == [k \in i + 1..Len(p) + 1 |-> f[k]]
<1>2. g \in [i + 1..Len(p) + 1 -> 1..Len(n) + 1] OBVIOUS
<1>3. f[i + 1] \in 1..Len(n) + 1 /\ g[i + 1] = f[i + 1] /\ g[Len(p) + 1] = Len(n) + 1 BY <1>1
<1>4. ASSUME NEW k \in i + 1..Len(p) PROVE StandsFor(p, n, k, g[k], g[k + 1])
  <2>1. k \in i..Len(p) /\ g[k] = f[k] /\ g[k + 1] = f[k + 1] OBVIOUS
  <2> QED BY <1>1, <2>1, Zenon
<1> HIDE DEF g
<1>5. Rest(p, n, i + 1, f[i + 1]) BY <1>2, <1>3, <1>4, Zenon DEF Rest
<1>6. StandsFor(p, n, i, x, f[i + 1])
  <2>1. i \in i..Len(p) OBVIOUS
  <2> QED BY <1>1, <2>1, Zenon
<1> QED BY <1>3, <1>5, <1>6, Zenon

LEMMA EndOfPattern ==
  ASSUME NEW p, NEW n, Len(p) \in Nat, Len(n) \in Nat, NEW x \in 1..Len(n) + 1
  PROVE  Rest(p, n, Len(p) + 1, x) <=> x = Len(n) + 1
<1>1. ASSUME Rest(p, n, Len(p) + 1, x) PROVE x = Len(n) + 1 BY <1>1, Zenon DEF Rest
<1>2. ASSUME x = Len(n) + 1 PROVE Rest(p, n, Len(p) + 1, x)
  <2> DEFINE g == [k \in Len(p) + 1..Len(p) + 1 |-> x]
  <2>1. g \in [Len(p) + 1..Len(p) + 1 -> 1..Len(n) + 1] /\ g[Len(p) + 1] = x OBVIOUS
  <2>2. \A k \in Len(p) + 1..Len(p) : StandsFor(p, n, k, g[k], g[k + 1]) OBVIOUS
  <2> HIDE DEF g
  <2> QED BY <1>2, <2>1, <2>2, Zenon DEF Rest
<1> QED BY <1>1, <1>2

\* What does not start with a star takes one character and leaves the rest.
LEMMA Advance ==
  ASSUME NEW p, NEW n, Len(p) \in Nat, Len(n) \in Nat,
         NEW i \in 1..Len(p), NEW x \in 1..Len(n) + 1, Rest(p, n, i, x), p[i] # "*"
  PROVE  x <= Len(n) /\ p[i] \in {n[x], "?"} /\ Rest(p, n, i + 1, x + 1)
<1>1. PICK y \in 1..Len(n) + 1 : StandsFor(p, n, i, x, y) /\ Rest(p, n, i + 1, y) BY Unfold, Zenon
<1>2. y = x + 1 /\ p[i] \in {n[x], "?"} BY <1>1, Zenon DEF StandsFor
<1> QED BY <1>1, <1>2

LEMMA Spread ==
  ASSUME NEW p, NEW n, Len(p) \in Nat, Len(n) \in Nat,
         NEW i \in 1..Len(p), NEW x \in 1..Len(n) + 1, Rest(p, n, i, x), p[i] = "*"
  PROVE  \E y \in x..Len(n) + 1 : Rest(p, n, i + 1, y)
<1>1. PICK y \in 1..Len(n) + 1 : StandsFor(p, n, i, x, y) /\ Rest(p, n, i + 1, y) BY Unfold, Zenon
<1>2. x <= y BY <1>1, Zenon DEF StandsFor
<1>3. y \in x..Len(n) + 1 BY <1>2
<1> QED BY <1>1, <1>3, Zenon

\* Where the pattern does not fit and no star begins, nothing is meant.
LEMMA Stuck ==
  ASSUME NEW p, NEW n, Len(p) \in Nat, Len(n) \in Nat, NEW i \in 1..Len(p) + 1, NEW j \in 1..Len(n),
         i <= Len(p) => p[i] \notin {n[j], "?"} /\ p[i] # "*"
  PROVE  ~Rest(p, n, i, j)
<1> SUFFICES ASSUME Rest(p, n, i, j) PROVE FALSE OBVIOUS
<1>1. j \in 1..Len(n) + 1 OBVIOUS
<1>2. CASE i = Len(p) + 1
  <2>1. j = Len(n) + 1 BY <1>1, <1>2, EndOfPattern
  <2> QED BY <2>1
<1>3. CASE i <= Len(p)
  <2>1. i \in 1..Len(p) BY <1>3
  <2>2. p[i] \in {n[j], "?"} BY <1>1, <1>3, <2>1, Advance
  <2> QED BY <1>3, <2>2
<1> QED BY <1>2, <1>3

-----------------------------------------------------------------------------
(* The loop keeps its invariant.                                           *)

LEMMA LoopBegins ==
  ASSUME NEW p, NEW n, Len(p) \in Nat, Len(n) \in Nat
  PROVE  LoopInv(p, n, 1, 1, 0, 1)
BY DEF LoopInv, Sound, Complete, Meant

LEMMA TakeKeepsInv ==
  ASSUME NEW p, NEW n, Len(p) \in Nat, Len(n) \in Nat, \A k \in 1..Len(n) : n[k] # "*",
         NEW i, NEW j, NEW star, NEW match, LoopInv(p, n, i, j, star, match),
         j <= Len(n), i <= Len(p), p[i] \in {n[j], "?"}
  PROVE  LoopInv(p, n, i + 1, j + 1, star, match)
<1>1. i \in 1..Len(p) /\ j \in 1..Len(n) + 1 /\ star \in 0..i - 1 /\ match \in 1..j BY DEF LoopInv
<1>2. p[i] # "*"
  <2>1. n[j] # "*" BY <1>1
  <2> QED BY <2>1
<1>3. Rest(p, n, i + 1, j + 1) => Rest(p, n, i, j)
  <2>1. StandsFor(p, n, i, j, j + 1) BY <1>2 DEF StandsFor
  <2>2. j + 1 \in 1..Len(n) + 1 BY <1>1
  <2> QED BY <1>1, <2>1, <2>2, Prepend
<1>4. ASSUME NEW x \in 1..Len(n) + 1, Rest(p, n, i, x) PROVE x + 1 <= Len(n) + 1 /\ Rest(p, n, i + 1, x + 1)
  <2>1. x <= Len(n) /\ Rest(p, n, i + 1, x + 1) BY <1>1, <1>2, <1>4, Advance
  <2> QED BY <2>1
<1>5. Sound(p, n, i + 1, j + 1, star, match) BY <1>3, Zenon DEF LoopInv, Sound
<1>6. Complete(p, n, i + 1, j + 1, star, match)
  <2>1. CASE star = 0 BY <1>1, <1>4, <2>1, Zenon DEF LoopInv, Complete
  <2>2. CASE star # 0
    <3>1. ASSUME NEW m \in match..Len(n) + 1, Rest(p, n, star + 1, m)
          PROVE  m + ((j + 1) - match) <= Len(n) + 1 /\ Rest(p, n, i + 1, m + ((j + 1) - match))
      <4>1. m + (j - match) <= Len(n) + 1 /\ Rest(p, n, i, m + (j - match))
        BY <2>2, <3>1, Zenon DEF LoopInv, Complete
      <4>2. m + (j - match) \in 1..Len(n) + 1 /\ (m + (j - match)) + 1 = m + ((j + 1) - match) BY <1>1, <4>1
      <4>3. (m + (j - match)) + 1 <= Len(n) + 1 /\ Rest(p, n, i + 1, (m + (j - match)) + 1) BY <1>4, <4>1, <4>2
      <4> QED BY <4>2, <4>3
    <3>2. Meant(p, n) => \E m \in match..Len(n) + 1 : Rest(p, n, star + 1, m) BY <2>2, Zenon DEF LoopInv, Complete
    <3> QED BY <2>2, <3>1, <3>2, Zenon DEF Complete
  <2> QED BY <2>1, <2>2
<1>7. i + 1 \in 1..Len(p) + 1 /\ j + 1 \in 1..Len(n) + 1 /\ star \in 0..(i + 1) - 1 /\ match \in 1..j + 1 BY <1>1
<1> QED BY <1>5, <1>6, <1>7, Zenon DEF LoopInv

LEMMA MeetKeepsInv ==
  ASSUME NEW p, NEW n, Len(p) \in Nat, Len(n) \in Nat,
         NEW i, NEW j, NEW star, NEW match, LoopInv(p, n, i, j, star, match),
         i <= Len(p), p[i] = "*"
  PROVE  LoopInv(p, n, i + 1, j, i, j)
<1>1. i \in 1..Len(p) /\ j \in 1..Len(n) + 1 /\ star \in 0..i - 1 /\ match \in 1..j BY DEF LoopInv
<1>2. ASSUME NEW m \in j..Len(n) + 1, Rest(p, n, i + 1, m) PROVE Meant(p, n)
  <2>1. StandsFor(p, n, i, j, m) BY <1>1 DEF StandsFor
  <2>2. Rest(p, n, i, j) BY <1>1, <1>2, <2>1, Prepend
  <2> QED BY <2>2, Zenon DEF LoopInv, Sound
<1>3. Sound(p, n, i + 1, j, i, j)
  <2>1. j \in j..Len(n) + 1 BY <1>1
  <2> QED BY <1>2, <2>1, Zenon DEF Sound
<1>4. ASSUME Meant(p, n) PROVE \E m \in j..Len(n) + 1 : Rest(p, n, i + 1, m)
  <2>1. PICK x \in j..Len(n) + 1 : Rest(p, n, i, x)
    <3>1. CASE star = 0
      <4>1. j \in j..Len(n) + 1 BY <1>1
      <4> QED BY <1>4, <3>1, <4>1, Zenon DEF LoopInv, Complete
    <3>2. CASE star # 0
      <4>1. PICK m \in match..Len(n) + 1 : Rest(p, n, star + 1, m) BY <1>4, <3>2, Zenon DEF LoopInv, Complete
      <4>2. m + (j - match) <= Len(n) + 1 /\ Rest(p, n, i, m + (j - match))
        BY <3>2, <4>1, Zenon DEF LoopInv, Complete
      <4>3. m + (j - match) \in j..Len(n) + 1 BY <1>1, <4>1, <4>2
      <4> QED BY <4>2, <4>3, Zenon
    <3> QED BY <3>1, <3>2
  <2>2. x \in 1..Len(n) + 1 BY <1>1
  <2>3. PICK y \in x..Len(n) + 1 : Rest(p, n, i + 1, y) BY <1>1, <2>1, <2>2, Spread
  <2>4. y \in j..Len(n) + 1 BY <1>1
  <2> QED BY <2>3, <2>4, Zenon
<1>5. Complete(p, n, i + 1, j, i, j)
  <2>1. \A m \in j..Len(n) + 1 : m + (j - j) = m /\ m <= Len(n) + 1 BY <1>1
  <2>2. i # 0 BY <1>1
  <2> QED BY <1>4, <2>1, <2>2 DEF Complete
<1>6. i + 1 \in 1..Len(p) + 1 /\ i \in 0..(i + 1) - 1 /\ j \in 1..j BY <1>1
<1> QED BY <1>1, <1>3, <1>5, <1>6, Zenon DEF LoopInv

LEMMA BackKeepsInv ==
  ASSUME NEW p, NEW n, Len(p) \in Nat, Len(n) \in Nat,
         NEW i, NEW j, NEW star, NEW match, LoopInv(p, n, i, j, star, match),
         j <= Len(n), i <= Len(p) => p[i] \notin {n[j], "?"} /\ p[i] # "*", star # 0
  PROVE  LoopInv(p, n, star + 1, match + 1, star, match + 1)
<1>1. i \in 1..Len(p) + 1 /\ j \in 1..Len(n) /\ star \in 1..i - 1 /\ match \in 1..j BY DEF LoopInv
<1>2. ~Rest(p, n, i, j) BY <1>1, Stuck
<1>3. match + 1 \in match..Len(n) + 1 /\ \A m \in match + 1..Len(n) + 1 : m \in match..Len(n) + 1 BY <1>1
<1>4. Sound(p, n, star + 1, match + 1, star, match + 1) BY <1>3, Zenon DEF LoopInv, Sound
<1>5. ASSUME Meant(p, n) PROVE \E m \in match + 1..Len(n) + 1 : Rest(p, n, star + 1, m)
  <2>1. PICK m \in match..Len(n) + 1 : Rest(p, n, star + 1, m) BY <1>5, Zenon DEF LoopInv, Complete
  <2>2. Rest(p, n, i, m + (j - match)) BY <2>1, Zenon DEF LoopInv, Complete
  <2>3. m # match
    <3> SUFFICES ASSUME m = match PROVE FALSE OBVIOUS
    <3>1. m + (j - match) = j BY <1>1
    <3> QED BY <1>2, <2>2, <3>1
  <2>4. m \in match + 1..Len(n) + 1 BY <1>1, <2>3
  <2> QED BY <2>1, <2>4, Zenon
<1>6. Complete(p, n, star + 1, match + 1, star, match + 1)
  <2>1. \A m \in match + 1..Len(n) + 1 : m + ((match + 1) - (match + 1)) = m /\ m <= Len(n) + 1 BY <1>1
  <2> QED BY <1>5, <2>1 DEF Complete
<1>7. /\ star + 1 \in 1..Len(p) + 1 /\ match + 1 \in 1..Len(n) + 1
      /\ star \in 0..(star + 1) - 1 /\ match + 1 \in 1..match + 1
  BY <1>1
<1> QED BY <1>4, <1>6, <1>7, Zenon DEF LoopInv

\* Behind the name, what is meant is the rest, with or without a star.
LEMMA EndOfName ==
  ASSUME NEW p, NEW n, Len(p) \in Nat, Len(n) \in Nat,
         NEW i, NEW star, NEW match, LoopInv(p, n, i, Len(n) + 1, star, match)
  PROVE  Meant(p, n) <=> Rest(p, n, i, Len(n) + 1)
<1>1. Rest(p, n, i, Len(n) + 1) => Meant(p, n) BY Zenon DEF LoopInv, Sound
<1>2. ASSUME Meant(p, n), star # 0 PROVE Rest(p, n, i, Len(n) + 1)
  <2>1. PICK m \in match..Len(n) + 1 : Rest(p, n, star + 1, m) BY <1>2, Zenon DEF LoopInv, Complete
  <2>2. m + ((Len(n) + 1) - match) <= Len(n) + 1 /\ Rest(p, n, i, m + ((Len(n) + 1) - match))
    BY <1>2, <2>1, Zenon DEF LoopInv, Complete
  <2>3. match \in 1..Len(n) + 1 BY DEF LoopInv
  <2>4. m + ((Len(n) + 1) - match) = Len(n) + 1 BY <2>2, <2>3
  <2> QED BY <2>2, <2>4
<1>3. ASSUME Meant(p, n), star = 0 PROVE Rest(p, n, i, Len(n) + 1) BY <1>3, Zenon DEF LoopInv, Complete
<1> QED BY <1>1, <1>2, <1>3

LEMMA SkipKeepsInv ==
  ASSUME NEW p, NEW n, Len(p) \in Nat, Len(n) \in Nat,
         NEW i, NEW star, NEW match, LoopInv(p, n, i, Len(n) + 1, star, match),
         i <= Len(p), p[i] = "*"
  PROVE  LoopInv(p, n, i + 1, Len(n) + 1, star, match)
<1> DEFINE j == Len(n) + 1
<1>1. i \in 1..Len(p) /\ j \in 1..Len(n) + 1 /\ star \in 0..i - 1 /\ match \in 1..j BY DEF LoopInv
<1>2. Rest(p, n, i, j) <=> Rest(p, n, i + 1, j)
  <2>1. ASSUME Rest(p, n, i, j) PROVE Rest(p, n, i + 1, j)
    <3>1. PICK y \in j..Len(n) + 1 : Rest(p, n, i + 1, y) BY <1>1, <2>1, Spread
    <3>2. y = j BY <1>1
    <3> QED BY <3>1, <3>2
  <2>2. ASSUME Rest(p, n, i + 1, j) PROVE Rest(p, n, i, j)
    <3>1. StandsFor(p, n, i, j, j) BY <1>1 DEF StandsFor
    <3> QED BY <1>1, <2>2, <3>1, Prepend
  <2> QED BY <2>1, <2>2
<1>3. ASSUME star # 0, NEW m \in match..Len(n) + 1, Rest(p, n, star + 1, m)
      PROVE  m + (j - match) <= Len(n) + 1 /\ Rest(p, n, i + 1, m + (j - match))
  <2>1. m + (j - match) <= Len(n) + 1 /\ Rest(p, n, i, m + (j - match)) BY <1>3, Zenon DEF LoopInv, Complete
  <2>2. m + (j - match) = j BY <1>1, <2>1
  <2> QED BY <1>2, <2>1, <2>2
<1> HIDE DEF j
<1>4. LoopInv(p, n, i, j, star, match) BY DEF j
<1>5. Sound(p, n, i + 1, j, star, match) BY <1>2, <1>4, Zenon DEF LoopInv, Sound
<1>6. Complete(p, n, i + 1, j, star, match) BY <1>2, <1>3, <1>4, Zenon DEF LoopInv, Complete
<1>7. i + 1 \in 1..Len(p) + 1 /\ star \in 0..(i + 1) - 1 BY <1>1
<1>8. LoopInv(p, n, i + 1, j, star, match) BY <1>1, <1>5, <1>6, <1>7, Zenon DEF LoopInv
<1> QED BY <1>8 DEF j

-----------------------------------------------------------------------------
(* The steps of matches, on the texts of the call.                         *)

LEMMA LowerIsText ==
  ASSUME NEW A, NEW L \in Nat, NEW s \in Strings(A, L)
  PROVE  Len(LowerAll(s)) \in Nat /\ \A k \in 1..Len(LowerAll(s)) : s[k] \in A /\ LowerAll(s)[k] = Lower(s[k])
<1>1. PICK z \in 0..L : s \in [1..z -> A] BY DEF Strings
<1>2. LowerAll(s) = [k \in 1..z |-> Lower(s[k])] BY <1>1 DEF LowerAll
<1>3. z \in Nat OBVIOUS
<1> DEFINE t == [k \in 1..z |-> Lower(s[k])]
<1>4. \A k \in 1..z : s[k] \in A BY <1>1
<1>5. t \in Seq({Lower(s[k]) : k \in 1..z}) BY <1>3
<1>6. Len(t) = z BY <1>3, <1>5
<1>7. \A k \in 1..z : t[k] = Lower(s[k]) OBVIOUS
<1> HIDE DEF t
<1>8. LowerAll(s) = t BY <1>2 DEF t
<1> QED BY <1>3, <1>4, <1>6, <1>7, <1>8

LEMMA CallTexts ==
  ASSUME IsMatching
  PROVE  /\ Len(Pattern) \in Nat /\ Len(Name) \in Nat /\ \A k \in 1..Len(Name) : Name[k] # "*"
         /\ [call EXCEPT !.of = "matches"] = [of |-> "matches", input |-> call.input]
<1>1. PICK pattern \in Strings(PatternCharacter, MaxPattern), name \in Strings(NameCharacter, MaxName) :
        call = [of |-> "matching", input |-> [pattern |-> pattern, name |-> name]]
  BY Zenon DEF IsMatching
<1>2. Pattern = LowerAll(pattern) /\ Name = LowerAll(name) BY <1>1, Zenon DEF Pattern, Name
<1>3. Len(Pattern) \in Nat BY <1>2, LowerIsText, SelectionAssumption
<1>4. Len(Name) \in Nat /\ \A k \in 1..Len(Name) : name[k] \in NameCharacter /\ Name[k] = Lower(name[k])
  BY <1>2, LowerIsText, SelectionAssumption
<1>5. \A c \in NameCharacter : Lower(c) # "*" BY SelectionAssumption DEF Lower
<1>6. \A k \in 1..Len(Name) : Name[k] # "*" BY <1>4, <1>5, Zenon
<1>7. [call EXCEPT !.of = "matches"] = [of |-> "matches", input |-> call.input] BY <1>1
<1> QED BY <1>3, <1>4, <1>6, <1>7

\* The loop goes on: what is left is the invariant of the loop.
LEMMA LoopGoesOn ==
  ASSUME SelectionInv, call.of = "matching", UNCHANGED <<call, answer>>,
         NEW i \in Nat, NEW j \in Nat, NEW star \in Nat, NEW match \in Nat,
         loop' = [i |-> i, j |-> j, star |-> star, match |-> match],
         LoopInv(Pattern, Name, i, j, star, match)
  PROVE  SelectionInv'
<1>1. IsMatching' /\ call'.of = "matching" BY Zenon DEF SelectionInv, IsMatching
<1>2. Loops' BY DEF Loops
<1>3. LoopInv(Pattern, Name, loop.i, loop.j, loop.star, loop.match)'
  <2>1. Pattern' = Pattern /\ Name' = Name BY Zenon DEF Pattern, Name
  <2>2. loop'.i = i /\ loop'.j = j /\ loop'.star = star /\ loop'.match = match OBVIOUS
  <2> QED BY <2>1, <2>2
<1>4. MatchesIsMeant' /\ DecisionIsOrderFree' BY <1>1 DEF MatchesIsMeant, DecisionIsOrderFree
<1> QED BY <1>1, <1>2, <1>3, <1>4, Zenon DEF SelectionInv

\* The loop returns: what is left is that the result is what is meant.
LEMMA LoopReturns ==
  ASSUME SelectionInv, call.of = "matching", NEW result, Returns(result), result = Meant(Pattern, Name)
  PROVE  SelectionInv'
<1>1. IsMatching BY Zenon DEF SelectionInv
<1>2. call' = [of |-> "matches", input |-> call.input] BY <1>1, CallTexts DEF Returns
<1>3. call'.of = "matches" /\ call'.input = call.input BY <1>2
<1>4. MatchesIsMeant'
  <2>1. Pattern' = Pattern /\ Name' = Name BY <1>3, Zenon DEF Pattern, Name
  <2>2. Meant(Pattern, Name)' = Meant(Pattern, Name) BY <2>1, Zenon DEF Meant, Rest, StandsFor
  <2>3. answer' = result BY Zenon DEF Returns
  <2> QED BY <2>2, <2>3, Zenon DEF MatchesIsMeant
<1>5. DecisionIsOrderFree' BY <1>3 DEF DecisionIsOrderFree
<1>6. call'.of # "matching" BY <1>3
<1> QED BY <1>4, <1>5, <1>6, Zenon DEF SelectionInv

LEMMA MatchStepKeepsInv ==
  ASSUME SelectionInv, MatchStep
  PROVE  SelectionInv'
<1>1. call.of = "matching"
  BY Zenon DEF MatchStep, TakeCharacter, MeetStar, BackToStar, ReturnFalse, SkipStar, ReturnAtEnd, Iterates, Leaves
<1>2. PICK i \in Nat, j \in Nat, star \in Nat, match \in Nat :
        loop = [i |-> i, j |-> j, star |-> star, match |-> match]
  <2>1. loop \in [i : Nat, j : Nat, star : Nat, match : Nat] BY <1>1, Zenon DEF SelectionInv, Loops
  <2> QED BY <2>1
<1> DEFINE p == Pattern
           n == Name
<1>3. loop.i = i /\ loop.j = j /\ loop.star = star /\ loop.match = match BY <1>2
<1>4. LoopInv(p, n, i, j, star, match) BY <1>1, <1>3 DEF SelectionInv
<1>5. Len(p) \in Nat /\ Len(n) \in Nat /\ \A k \in 1..Len(n) : n[k] # "*" BY <1>1, CallTexts DEF SelectionInv
<1>6. /\ Iterates => j <= Len(n)
      /\ Leaves => j = Len(n) + 1
      /\ Fits <=> i <= Len(p) /\ p[i] \in {n[j], "?"}
      /\ GoesOnWith({"*"}) <=> i <= Len(p) /\ p[i] = "*"
  <2>1. Iterates => j <= Len(n) BY <1>3, Zenon DEF Iterates
  <2>2. Leaves => j = Len(n) + 1
    <3>1. Leaves => j > Len(n) BY <1>3, Zenon DEF Leaves
    <3>2. j <= Len(n) + 1 BY <1>4, <1>5 DEF LoopInv
    <3> QED BY <1>5, <3>1, <3>2
  <2>3. Fits <=> i <= Len(p) /\ p[i] \in {n[j], "?"} BY <1>3, Zenon DEF Fits, GoesOnWith
  <2>4. GoesOnWith({"*"}) <=> i <= Len(p) /\ p[i] = "*" BY <1>3, Zenon DEF GoesOnWith
  <2> QED BY <2>1, <2>2, <2>3, <2>4
<1>7. i \in 1..Len(p) + 1 BY <1>4, Zenon DEF LoopInv
<1> HIDE DEF p, n
<1>8. CASE TakeCharacter
  <2>1. Iterates /\ Fits /\ UNCHANGED <<call, answer>> BY <1>8, Zenon DEF TakeCharacter
  <2>2. loop' = [i |-> i + 1, j |-> j + 1, star |-> star, match |-> match] BY <1>2, <1>8, Zenon DEF TakeCharacter
  <2>3. LoopInv(p, n, i + 1, j + 1, star, match) BY <1>4, <1>5, <1>6, <2>1, TakeKeepsInv, Zenon
  <2>4. i + 1 \in Nat /\ j + 1 \in Nat OBVIOUS
  <2> QED BY <1>1, <2>1, <2>2, <2>3, <2>4, LoopGoesOn, Zenon DEF p, n
<1>9. CASE MeetStar
  <2>1. Iterates /\ GoesOnWith({"*"}) /\ UNCHANGED <<call, answer>> BY <1>9, Zenon DEF MeetStar
  <2>2. loop' = [i |-> i + 1, j |-> j, star |-> i, match |-> j] BY <1>2, <1>9, Zenon DEF MeetStar
  <2>3. LoopInv(p, n, i + 1, j, i, j) BY <1>4, <1>5, <1>6, <2>1, MeetKeepsInv
  <2>4. i + 1 \in Nat OBVIOUS
  <2> QED BY <1>1, <2>1, <2>2, <2>3, <2>4, LoopGoesOn, Zenon DEF p, n
<1>10. CASE BackToStar
  <2>1. Iterates /\ ~Fits /\ ~GoesOnWith({"*"}) /\ star # 0 /\ UNCHANGED <<call, answer>>
    BY <1>3, <1>10, Zenon DEF BackToStar
  <2>2. loop' = [i |-> star + 1, j |-> match + 1, star |-> star, match |-> match + 1]
    BY <1>2, <1>10, Zenon DEF BackToStar
  <2>3. LoopInv(p, n, star + 1, match + 1, star, match + 1) BY <1>4, <1>5, <1>6, <2>1, BackKeepsInv
  <2>4. star + 1 \in Nat /\ match + 1 \in Nat OBVIOUS
  <2> QED BY <1>1, <2>1, <2>2, <2>3, <2>4, LoopGoesOn, Zenon DEF p, n
<1>11. CASE ReturnFalse
  <2>1. Iterates /\ ~Fits /\ ~GoesOnWith({"*"}) /\ star = 0 /\ Returns(FALSE)
    BY <1>3, <1>11, Zenon DEF ReturnFalse
  <2>2. ~Rest(p, n, i, j)
    <3>1. j \in 1..Len(n) BY <1>4, <1>5, <1>6, <2>1 DEF LoopInv
    <3> QED BY <1>5, <1>6, <1>7, <2>1, <3>1, Stuck
  <2>3. ~Meant(p, n) BY <1>4, <2>1, <2>2, Zenon DEF LoopInv, Complete
  <2>4. FALSE = Meant(p, n) BY <2>3 DEF Meant, Rest
  <2> QED BY <1>1, <2>1, <2>4, LoopReturns, Zenon DEF p, n
<1>12. CASE SkipStar
  <2>1. Leaves /\ GoesOnWith({"*"}) /\ UNCHANGED <<call, answer>> BY <1>12, Zenon DEF SkipStar
  <2>2. loop' = [i |-> i + 1, j |-> j, star |-> star, match |-> match] BY <1>2, <1>12 DEF SkipStar
  <2>3. LoopInv(p, n, i + 1, j, star, match) BY <1>4, <1>5, <1>6, <2>1, SkipKeepsInv
  <2>4. i + 1 \in Nat OBVIOUS
  <2> QED BY <1>1, <2>1, <2>2, <2>3, <2>4, LoopGoesOn, Zenon DEF p, n
<1>13. CASE ReturnAtEnd
  <2>1. Leaves /\ ~GoesOnWith({"*"}) /\ Returns(i = Len(p) + 1) BY <1>3, <1>13, Zenon DEF ReturnAtEnd, p
  <2>2. Meant(p, n) <=> Rest(p, n, i, Len(n) + 1) BY <1>4, <1>5, <1>6, <2>1, EndOfName
  <2>3. Len(n) + 1 \in 1..Len(n) + 1 BY <1>5
  <2>4. Rest(p, n, i, Len(n) + 1) <=> i = Len(p) + 1
    <3>1. CASE i = Len(p) + 1 BY <1>5, <2>3, <3>1, EndOfPattern
    <3>2. CASE i # Len(p) + 1
      <4>1. i \in 1..Len(p) /\ p[i] # "*" BY <1>5, <1>6, <1>7, <2>1, <3>2
      <4>2. ~(Len(n) + 1 <= Len(n)) BY <1>5
      <4> QED BY <1>5, <2>3, <3>2, <4>1, <4>2, Advance
    <3> QED BY <3>1, <3>2
  <2>5. (i = Len(p) + 1) = Meant(p, n) BY <2>2, <2>4, Zenon DEF Meant, Rest
  <2> QED BY <1>1, <2>1, <2>5, LoopReturns, Zenon DEF p, n
<1> QED BY <1>8, <1>9, <1>10, <1>11, <1>12, <1>13 DEF MatchStep

-----------------------------------------------------------------------------
(* PolicyEvaluator::evaluate.                                              *)

\* Two actions of the same restrictiveness are one.
LEMMA Restrictive ==
  /\ \A a \in Action : Restrictiveness(a) \in Nat
  /\ \A a, b \in Action : Restrictiveness(a) = Restrictiveness(b) => a = b
BY DEF Restrictiveness, Strictness, Action

\* A candidate that none is before has the highest priority, among those the
\* most restrictive action, and among those the first id.
LEMMA FirstIsFirst ==
  ASSUME NEW l \in Rule, NEW r \in Rule, ~Before(r, l)
  PROVE  /\ l.priority >= r.priority
         /\ l.priority = r.priority => Restrictiveness(l.action) >= Restrictiveness(r.action)
         /\ l.priority = r.priority /\ Restrictiveness(l.action) = Restrictiveness(r.action) => l.id <= r.id
<1>1. /\ l.priority \in Nat /\ r.priority \in Nat /\ l.id \in Nat /\ r.id \in Nat
      /\ l.action \in Action /\ r.action \in Action
  BY SelectionAssumption DEF Rule
<1>2. Restrictiveness(l.action) \in Nat /\ Restrictiveness(r.action) \in Nat BY <1>1, Restrictive, Zenon
<1> QED BY <1>1, <1>2 DEF Before

LEMMA DecisionIsDecided ==
  ASSUME NEW rules \in Strings(Rule, MaxRules), NEW default, NEW decision \in Decisions(default, rules)
  PROVE  Decided(rules, default, decision)
<1> DEFINE matching == Candidates(rules)
           top == {i \in matching : \A j \in matching : rules[i].priority >= rules[j].priority}
           Strict(i) == Restrictiveness(rules[i].action)
           strictest == {i \in top : \A j \in top : Strict(i) >= Strict(j)}
<1>1. CASE matching = {} BY <1>1 DEF Decisions, Decided
<1>2. CASE matching # {}
  <2>1. PICK i \in matching :
          /\ \A j \in matching : ~Before(rules[j], rules[i])
          /\ decision = [action |-> rules[i].action, rule |-> rules[i].id,
                         reason |-> IF \E j \in matching \ {i} : rules[j].priority = rules[i].priority
                                    THEN "EqualPriorityConflict" ELSE "MatchedRule"]
    BY <1>2, Zenon DEF Decisions
  <2>2. decision.action = rules[i].action /\ decision.rule = rules[i].id BY <2>1
  <2>3. decision.reason = "EqualPriorityConflict" <=> \E j \in matching \ {i} : rules[j].priority = rules[i].priority
    BY <2>1
  <2>4. \A j \in matching : rules[j] \in Rule
    <3>1. PICK z \in 0..MaxRules : rules \in [1..z -> Rule] BY DEF Strings
    <3> QED BY <3>1 DEF Candidates
  <2>5. \A j \in matching : rules[j].priority \in Nat /\ rules[j].id \in Nat /\ rules[j].action \in Action
    BY <2>4, SelectionAssumption DEF Rule
  <2>6. \A j \in matching : Strict(j) \in Nat BY <2>5, Restrictive, Zenon
  <2>7. ASSUME NEW j \in matching
        PROVE  /\ rules[i].priority >= rules[j].priority
               /\ rules[i].priority = rules[j].priority => Strict(i) >= Strict(j)
               /\ rules[i].priority = rules[j].priority /\ Strict(i) = Strict(j) => rules[i].id <= rules[j].id
    BY <2>1, <2>4, FirstIsFirst, Zenon
  <2> HIDE DEF matching, Strict
  <2>8. \A j \in top : rules[j].priority = rules[i].priority BY <2>5, <2>7
  <2>9. \A j \in matching : rules[j].priority = rules[i].priority => j \in top BY <2>5, <2>7
  <2>10. i \in strictest BY <2>7, <2>8, <2>9
  <2>11. \A j \in strictest : Strict(j) = Strict(i) BY <2>6, <2>7, <2>8, <2>10
  <2> HIDE DEF top
  <2>12. \A j \in strictest : j \in top /\ j \in matching BY DEF top
  <2> HIDE DEF strictest
  <2>13. \A j \in strictest : decision.action = rules[j].action
    BY <2>1, <2>2, <2>5, <2>11, <2>12, Restrictive, Zenon DEF Strict
  <2>14. \E j \in strictest : decision.rule = rules[j].id BY <2>2, <2>10, Zenon
  <2>15. \A j \in strictest : decision.rule <= rules[j].id BY <2>2, <2>7, <2>8, <2>11, <2>12, Zenon
  <2>16. decision.reason = "EqualPriorityConflict" <=> \E j, k \in top : j # k
    <3>1. i \in top BY <2>10, <2>12
    <3>2. \A j \in top : j \in matching BY DEF top
    <3> QED BY <2>3, <2>8, <2>9, <3>1, <3>2
  <2> QED BY <1>2, <2>13, <2>14, <2>15, <2>16, Zenon DEF Decided, matching, top, Strict, strictest
<1> QED BY <1>1, <1>2

-----------------------------------------------------------------------------
(* The invariant, and what it says of the two functions.                   *)

LEMMA CallKeepsInv ==
  ASSUME SelectionInv, CallMatches \/ CallEvaluate
  PROVE  SelectionInv'
<1>1. CASE CallMatches
  <2>1. IsMatching' BY <1>1, Zenon DEF CallMatches, IsMatching
  <2>2. call'.of = "matching" BY <1>1 DEF CallMatches
  <2>3. loop' = [i |-> 1, j |-> 1, star |-> 0, match |-> 1] BY <1>1, Zenon DEF CallMatches
  <2>4. Loops' BY <2>3 DEF Loops
  <2>5. LoopInv(Pattern, Name, loop.i, loop.j, loop.star, loop.match)'
    <3>1. (Len(Pattern) \in Nat /\ Len(Name) \in Nat)' BY <2>1, CallTexts, PTL
    <3>2. loop'.i = 1 /\ loop'.j = 1 /\ loop'.star = 0 /\ loop'.match = 1 BY <2>3
    <3> QED BY <3>1, <3>2, LoopBegins
  <2>6. MatchesIsMeant' /\ DecisionIsOrderFree' BY <2>2 DEF MatchesIsMeant, DecisionIsOrderFree
  <2> QED BY <2>1, <2>4, <2>5, <2>6, Zenon DEF SelectionInv
<1>2. CASE CallEvaluate
  <2>1. PICK rules \in Strings(Rule, MaxRules), default \in Action : \E decision \in Decisions(default, rules) :
          Calls("evaluate", [rules |-> rules, default |-> default], decision)
    BY <1>2, Zenon DEF CallEvaluate
  <2>2. PICK decision \in Decisions(default, rules) :
          Calls("evaluate", [rules |-> rules, default |-> default], decision)
    BY <2>1, Zenon
  <2>3. call' = [of |-> "evaluate", input |-> [rules |-> rules, default |-> default]] /\ answer' = decision
    BY <2>2, Zenon DEF Calls
  <2>4. call'.of = "evaluate" /\ call'.input.rules = rules /\ call'.input.default = default BY <2>3
  <2>5. Decided(rules, default, decision) BY DecisionIsDecided, Zenon
  <2>6. DecisionIsOrderFree' BY <2>3, <2>4, <2>5 DEF DecisionIsOrderFree
  <2>7. call'.of # "matching" /\ call'.of # "matches" BY <2>4
  <2> QED BY <2>6, <2>7, Zenon DEF SelectionInv, MatchesIsMeant
<1> QED BY <1>1, <1>2

\* Whatever is asked, the loop of matches keeps its invariant, and both
\* functions answer what is meant.
THEOREM SelectionInvariance == SelectionSpec => []SelectionInv
<1>1. SelectionInit => SelectionInv
  BY DEF SelectionInit, SelectionInv, MatchesIsMeant, DecisionIsOrderFree
<1>2. SelectionInv /\ [SelectionNext]_<<call, answer, loop>> => SelectionInv'
  <2> SUFFICES ASSUME SelectionInv, [SelectionNext]_<<call, answer, loop>> PROVE SelectionInv' OBVIOUS
  <2>1. CASE MatchStep BY <2>1, MatchStepKeepsInv
  <2>2. CASE CallMatches \/ CallEvaluate BY <2>2, CallKeepsInv
  <2>3. CASE UNCHANGED <<call, answer, loop>>
    <3>1. call' = call /\ answer' = answer /\ loop' = loop BY <2>3
    <3> QED BY <3>1 DEF SelectionInv, IsMatching, Loops, MatchesIsMeant, DecisionIsOrderFree, Pattern, Name
  <2> QED BY <2>1, <2>2, <2>3, Zenon DEF SelectionNext
<1> QED BY <1>1, <1>2, PTL DEF SelectionSpec

\* wildmatch::matches says that a name matches exactly when the pattern can
\* be laid over it, for patterns and names of any length over any alphabet:
\* going back to the last star only loses no match.
THEOREM MatchesAreMeant == SelectionSpec => []MatchesIsMeant
<1>1. SelectionInv => MatchesIsMeant BY Zenon DEF SelectionInv
<1> QED BY <1>1, SelectionInvariance, PTL

\* PolicyEvaluator::evaluate decides by the rules, whatever their number,
\* order, priorities and ids, and however the unstable sort places them.
THEOREM DecisionsAreOrderFree == SelectionSpec => []DecisionIsOrderFree
<1>1. SelectionInv => DecisionIsOrderFree BY Zenon DEF SelectionInv
<1> QED BY <1>1, SelectionInvariance, PTL
==============================================================================
