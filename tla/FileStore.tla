----------------------------- MODULE FileStore -----------------------------
(***************************************************************************)
(* One file of the encrypted store (crates/dlp-storage/src/store.rs and    *)
(* recovery.rs): staging in memory, the publication protocol of            *)
(* flush_file, the pointer files selected.commit and previous.commit, and  *)
(* recover_store.  A process may crash between any two file operations,    *)
(* and a file operation may fail; either may leave the file being written  *)
(* torn.                                                                   *)
(*                                                                         *)
(* Contents are sequences of whole chunks, so a manifest is the number of  *)
(* its chunks.  An encrypted record is its payload: a record that was only *)
(* partly written never authenticates and is Torn, a record that does not  *)
(* exist is None.  Nonces are fresh random values and never collide.       *)
(***************************************************************************)
EXTENDS Naturals, Sequences, FiniteSetsExt

CONSTANTS
    Chunk,          \* plaintext chunks
    Zero,           \* the chunk of zero bytes that Vec::resize fills with
    MaxChunks,      \* bound on the length of a file
    MaxGeneration,  \* bound on NEXT_GENERATION
    MaxEvidence,    \* bound on NEXT_EVIDENCE
    None,           \* a file, directory or value that does not exist
    Torn            \* a record that was only partly written

ASSUME BoundsAssumption ==
    /\ MaxChunks \in Nat
    /\ MaxGeneration \in Nat \ {0}
    /\ MaxEvidence \in Nat

Position == 1 .. MaxChunks
Generation == 1 .. MaxGeneration
Evidence == 1 .. MaxEvidence
Content == UNION {[1 .. n -> Chunk] : n \in 0 .. MaxChunks}

\* A generation directory, as fs::create_dir_all makes it.
EmptyDir == [chunk |-> [i \in Position |-> None], manifest |-> None, commit |-> None]
Directory ==
    [chunk : [Position -> Chunk \cup {None, Torn}],
     manifest : 0 .. MaxChunks \cup {None, Torn},
     commit : Generation \cup {None, Torn}]

ASSUME ValueAssumption ==
    /\ Zero \in Chunk
    /\ None # Torn
    /\ None \notin Chunk /\ None \notin Nat /\ None \notin Content /\ None \notin Directory
    /\ Torn \notin Chunk /\ Torn \notin Nat

VARIABLES
    \* volatile state of the process
    staged,         \* LocalEncryptedStore::staged for this file
    nextGeneration, \* NEXT_GENERATION
    nextEvidence,   \* NEXT_EVIDENCE
    pc,             \* the file operation the running call performs next
    generation,     \* the generation directory that operation works on
    index,          \* the next chunk flush_file writes
    \* the backing directory
    generations,    \* generations/g-N: a Directory, or None
    selected,       \* selected.commit: the generation it names, None or Torn
    previous,       \* previous.commit, likewise
    evidence,       \* the evidence/e-N directories
    \* history
    reply,          \* what the last call returned
    committed,      \* the contents whose pointer was last renamed into place
    exposed         \* the events the format does not protect against

disk == <<generations, selected, previous, evidence>>
history == <<reply, committed, exposed>>
vars == <<staged, nextGeneration, nextEvidence, pc, generation, index,
          generations, selected, previous, evidence,
          reply, committed, exposed>>

FlushStep == {"chunk", "manifest", "commit", "keep", "pointer", "remove", "rename", "marker"}
RecoveryStep == {"restore", "cleanup", "removeDir"}
Step == {"idle"} \cup FlushStep \cup RecoveryStep

Init ==
    /\ staged = None
    /\ nextGeneration = 1
    /\ nextEvidence = 1
    /\ pc = "idle"
    /\ generation = 0
    /\ index = 0
    /\ generations = [g \in Generation |-> None]
    /\ selected = None
    /\ previous = None
    /\ evidence = {}
    /\ reply = "none"
    /\ committed = None
    /\ exposed = {}

-----------------------------------------------------------------------------
(* Reading through a pointer.                                              *)

\* read_from_pointer succeeds: the pointer, the commit record of the
\* generation it names, the manifest and every chunk authenticate.
Readable(p) ==
    /\ p \in Generation
    /\ generations[p] # None
    /\ generations[p].commit = p
    /\ generations[p].manifest \in 0 .. MaxChunks
    /\ \A i \in 1 .. generations[p].manifest : generations[p].chunk[i] \in Chunk

\* What read_from_pointer returns when it succeeds.
ContentOf(p) == [i \in 1 .. generations[p].manifest |-> generations[p].chunk[i]]

\* The record on which read_from_pointer stops when it does not succeed.
FirstBad(p) ==
    IF p \notin Generation THEN p
    ELSE LET d == generations[p]
         IN  IF d = None THEN None
             ELSE IF d.commit # p THEN d.commit
             ELSE IF d.manifest \in {None, Torn} THEN d.manifest
             ELSE d.chunk[Min({i \in 1 .. d.manifest : d.chunk[i] \notin Chunk})]

ReadStatus(p) ==
    IF Readable(p) THEN "ok" ELSE IF FirstBad(p) = None THEN "missing" ELSE "integrity"

\* Mutant: previous.commit is never consulted.
CurrentWithoutPrevious == selected

\* The pointer that recovery would follow.
Current == IF selected = None THEN previous ELSE selected

-----------------------------------------------------------------------------
(* Staging.                                                                *)

\* Vec::resize(n, 0).
Resize(c, n) == [i \in 1 .. n |-> IF i <= Len(c) THEN c[i] ELSE Zero]

\* The contents write_at and truncate_handle start from: what is staged, else
\* what can be read, and nothing at all when the read fails.
Base ==
    IF staged # None THEN staged ELSE IF Readable(selected) THEN ContentOf(selected) ELSE << >>

\* A call returns r: its locals go out of scope.
Return(r) ==
    /\ pc' = "idle"
    /\ generation' = 0
    /\ index' = 0
    /\ reply' = r

Stage(c) ==
    /\ pc = "idle"
    /\ staged' = c
    /\ reply' = "none"
    /\ UNCHANGED <<nextGeneration, nextEvidence, pc, generation, index, disk,
                   committed, exposed>>

\* write: replaces the staged contents.
Write(c) == Stage(c)

\* write_at: overwrites chunk i of the existing contents, extending them.
WriteAt(i, c) ==
    Stage([Resize(Base, IF i > Len(Base) THEN i ELSE Len(Base)) EXCEPT ![i] = c])

\* truncate_handle: resizes the existing contents to n chunks.
Truncate(n) == Stage(Resize(Base, n))

-----------------------------------------------------------------------------
(* flush_file, one action per file operation.                              *)

\* flush_file takes a generation number and creates its directory, which
\* may be there already: NEXT_GENERATION starts at 1 in every process.
BeginFlush ==
    /\ pc = "idle"
    /\ staged # None
    /\ nextGeneration <= MaxGeneration
    /\ nextGeneration' = nextGeneration + 1
    /\ generation' = nextGeneration
    /\ index' = 1
    /\ pc' = IF Len(staged) = 0 THEN "manifest" ELSE "chunk"
    /\ generations' = IF generations[nextGeneration] = None
                      THEN [generations EXCEPT ![nextGeneration] = EmptyDir]
                      ELSE generations
    /\ exposed' = exposed \cup (IF nextGeneration = Current THEN {"reuse"} ELSE {})
    /\ reply' = "none"
    /\ UNCHANGED <<staged, nextEvidence, selected, previous, evidence, committed>>

\* flush_file whose directory cannot be created: the number is used up.
FlushNoDirectory ==
    /\ pc = "idle"
    /\ staged # None
    /\ nextGeneration <= MaxGeneration
    /\ nextGeneration' = nextGeneration + 1
    /\ reply' = "io"
    /\ UNCHANGED <<staged, nextEvidence, pc, generation, index, disk,
                   committed, exposed>>

\* Flushes of the other files of the store draw from the same counter.
FlushOther ==
    /\ pc = "idle"
    /\ nextGeneration <= MaxGeneration
    /\ nextGeneration' = nextGeneration + 1
    /\ reply' = "none"
    /\ UNCHANGED <<staged, nextEvidence, pc, generation, index, disk,
                   committed, exposed>>

\* Mutant: the last chunk is not written.
WriteChunkShort ==
    /\ pc = "chunk"
    /\ generations' = [generations EXCEPT ![generation].chunk[index] = staged[index]]
    /\ index' = index + 1
    /\ pc' = IF index + 1 >= Len(staged) THEN "manifest" ELSE "chunk"
    /\ UNCHANGED <<staged, nextGeneration, nextEvidence, generation,
                   selected, previous, evidence, history>>

WriteChunk ==
    /\ pc = "chunk"
    /\ generations' = [generations EXCEPT ![generation].chunk[index] = staged[index]]
    /\ index' = index + 1
    /\ pc' = IF index = Len(staged) THEN "manifest" ELSE "chunk"
    /\ UNCHANGED <<staged, nextGeneration, nextEvidence, generation,
                   selected, previous, evidence, history>>

WriteManifest ==
    /\ pc = "manifest"
    /\ generations' = [generations EXCEPT ![generation].manifest = Len(staged)]
    /\ pc' = "commit"
    /\ UNCHANGED <<staged, nextGeneration, nextEvidence, generation, index,
                   selected, previous, evidence, history>>

\* Mutant: the selected pointer is not kept as previous.commit.
WriteCommitKeepsNothing ==
    /\ pc = "commit"
    /\ generations' = [generations EXCEPT ![generation].commit = generation]
    /\ pc' = "pointer"
    /\ UNCHANGED <<staged, nextGeneration, nextEvidence, generation, index,
                   selected, previous, evidence, history>>

WriteCommit ==
    /\ pc = "commit"
    /\ generations' = [generations EXCEPT ![generation].commit = generation]
    /\ pc' = IF selected # None THEN "keep" ELSE "pointer"
    /\ UNCHANGED <<staged, nextGeneration, nextEvidence, generation, index,
                   selected, previous, evidence, history>>

\* fs::copy of selected.commit over previous.commit, and the directory marker.
KeepPrevious ==
    /\ pc = "keep"
    /\ previous' = selected
    /\ pc' = "pointer"
    /\ UNCHANGED <<staged, nextGeneration, nextEvidence, generation, index,
                   generations, selected, evidence, history>>

\* Mutant: as long as selected.commit exists the copy is made again.
WritePointerRetries ==
    /\ pc = "pointer"
    /\ pc' = IF selected # None THEN "keep" ELSE "rename"
    /\ UNCHANGED <<staged, nextGeneration, nextEvidence, generation, index, disk, history>>

\* The temporary pointer file, which nothing else reads.
WritePointer ==
    /\ pc = "pointer"
    /\ pc' = IF selected # None THEN "remove" ELSE "rename"
    /\ UNCHANGED <<staged, nextGeneration, nextEvidence, generation, index, disk, history>>

RemoveSelected ==
    /\ pc = "remove"
    /\ selected' = None
    /\ pc' = "rename"
    /\ UNCHANGED <<staged, nextGeneration, nextEvidence, generation, index,
                   generations, previous, evidence, history>>

RenamePointer ==
    /\ pc = "rename"
    /\ selected' = generation
    /\ committed' = staged
    /\ pc' = "marker"
    /\ UNCHANGED <<staged, nextGeneration, nextEvidence, generation, index,
                   generations, previous, evidence, reply, exposed>>

\* The final directory marker; flush_file returns Ok.
FinishFlush ==
    /\ pc = "marker"
    /\ staged' = None
    /\ Return("flushed")
    /\ UNCHANGED <<nextGeneration, nextEvidence, disk,
                   committed, exposed>>

Flush ==
    \/ WriteChunk \/ WriteManifest \/ WriteCommit \/ KeepPrevious
    \/ WritePointer \/ RemoveSelected \/ RenamePointer \/ FinishFlush

-----------------------------------------------------------------------------
(* recover_store.                                                          *)

\* Mutant: previous.commit does not count as a reference.
UnreferencedBySelected == {g \in Generation : generations[g] # None} \ {selected}

\* The directories that cleanup_unreferenced_staging finds in no pointer.
Unreferenced == {g \in Generation : generations[g] # None} \ {selected, previous}

\* preserve_evidence_directory: creates e-N, which must not exist, and copies
\* the files into it; it may fail before or after the directory is there.
PreserveEvidence(Preserved, Failed) ==
    /\ nextEvidence' = nextEvidence + 1
    /\ \/ /\ nextEvidence \notin evidence
          /\ evidence' = evidence \cup {nextEvidence}
          /\ Preserved
       \/ /\ evidence' \in {evidence, evidence \cup {nextEvidence}}
          /\ Failed

\* recover_selected_from_prior and recover_from_prior_pointer up to their
\* first write, with recover_store's evidence for an integrity failure.
Recover ==
    LET status == ReadStatus(Current)
        denied == status = "integrity" \/ (status = "missing" /\ selected # None)
    IN  /\ pc = "idle"
        /\ nextEvidence + MaxGeneration <= MaxEvidence + 1
        /\ \/ /\ status = "ok"
              /\ pc' = IF selected = None THEN "restore" ELSE "cleanup"
              /\ reply' = "none"
              /\ UNCHANGED <<nextEvidence, evidence, generation, index>>
           \/ /\ status = "missing" /\ selected = None
              /\ Return("required")
              /\ UNCHANGED <<nextEvidence, evidence>>
           \/ /\ denied
              /\ PreserveEvidence(Return("integrity"), Return("io"))
        /\ UNCHANGED <<staged, nextGeneration,
                       generations, selected, previous, committed, exposed>>

\* fs::copy of previous.commit to selected.commit, and the directory marker.
RestorePrevious ==
    /\ pc = "restore"
    /\ selected' = previous
    /\ pc' = "cleanup"
    /\ UNCHANGED <<staged, nextGeneration, nextEvidence, generation, index,
                   generations, previous, evidence, history>>

\* One turn of cleanup_unreferenced_staging: an unreferenced directory is
\* copied to evidence before it is removed.
Quarantine(g) ==
    /\ pc = "cleanup"
    /\ g \in Unreferenced
    /\ nextEvidence <= MaxEvidence
    /\ PreserveEvidence(pc' = "removeDir" /\ generation' = g /\ UNCHANGED <<index, reply>>,
                        Return("io"))
    /\ UNCHANGED <<staged, nextGeneration, generations, selected, previous,
                   committed, exposed>>

RemoveDirectory ==
    /\ pc = "removeDir"
    /\ generations' = [generations EXCEPT ![generation] = None]
    /\ pc' = "cleanup"
    /\ generation' = 0
    /\ UNCHANGED <<staged, nextGeneration, nextEvidence, index,
                   selected, previous, evidence, history>>

FinishRecovery ==
    /\ pc = "cleanup"
    /\ Unreferenced = {}
    /\ Return("recovered")
    /\ UNCHANGED <<staged, nextGeneration, nextEvidence, disk,
                   committed, exposed>>

Recovery ==
    \/ RestorePrevious \/ RemoveDirectory \/ FinishRecovery
    \/ \E g \in Generation : Quarantine(g)

-----------------------------------------------------------------------------
(* Failures.                                                               *)

\* What an interrupted file operation may leave behind: nothing, or a file
\* of which only a part was written (a directory only partly removed).
Interrupted ==
    \/ UNCHANGED <<generations, selected, previous, exposed>>
    \/ /\ pc \in {"chunk", "manifest", "commit", "removeDir"}
       /\ generations' = CASE pc = "chunk" -> [generations EXCEPT ![generation].chunk[index] = Torn]
                           [] pc = "manifest" -> [generations EXCEPT ![generation].manifest = Torn]
                           [] pc = "commit" -> [generations EXCEPT ![generation].commit = Torn]
                           [] OTHER -> [generations EXCEPT ![generation] = EmptyDir]
       /\ UNCHANGED <<selected, previous, exposed>>
    \/ /\ pc = "keep"
       /\ previous' = Torn
       /\ UNCHANGED <<generations, selected, exposed>>
    \/ /\ pc = "restore"
       /\ selected' = Torn
       /\ exposed' = exposed \cup {"tornRestore"}
       /\ UNCHANGED <<generations, previous>>

\* A file operation fails and the call returns its error; what was staged
\* stays staged.
IoError ==
    /\ pc # "idle"
    /\ Interrupted
    /\ Return("io")
    /\ UNCHANGED <<staged, nextGeneration, nextEvidence, evidence,
                   committed>>

\* The process ends.  The next one opens the store without recovering it,
\* and its counters start again at 1.
Crash ==
    /\ Interrupted
    /\ staged' = None
    /\ nextGeneration' = 1
    /\ nextEvidence' = 1
    /\ Return("none")
    /\ UNCHANGED <<evidence, committed>>

\* reopen: a new store on the same directory in the same process.
Reopen ==
    /\ pc = "idle"
    /\ staged # None
    /\ staged' = None
    /\ reply' = "none"
    /\ UNCHANGED <<nextGeneration, nextEvidence, pc, generation, index, disk,
                   committed, exposed>>

-----------------------------------------------------------------------------
Next ==
    \/ \E c \in Content : Write(c)
    \/ \E i \in Position, c \in Chunk : WriteAt(i, c)
    \/ \E n \in 0 .. MaxChunks : Truncate(n)
    \/ BeginFlush \/ FlushNoDirectory \/ FlushOther \/ Flush
    \/ Recover \/ Recovery
    \/ IoError \/ Crash \/ Reopen

Spec == Init /\ [][Next]_vars

\* The behaviours up to the first event the format does not protect against:
\* a generation number handed out again while the current pointer names it,
\* or the copy of previous.commit to selected.commit cut short.
Protected == exposed' = {}
ProtectedSpec ==
    /\ Init
    /\ [][Next /\ Protected]_vars
    /\ WF_vars(Flush /\ Protected)
    /\ WF_vars(Recovery /\ Protected)

-----------------------------------------------------------------------------
(* Properties.                                                             *)

\* Every variable has its type.
TypeOK ==
    /\ staged \in Content \cup {None}
    /\ nextGeneration \in 1 .. MaxGeneration + 1
    /\ nextEvidence \in 1 .. MaxEvidence + 1
    /\ pc \in Step
    /\ generation \in 0 .. MaxGeneration
    /\ index \in 0 .. MaxChunks + 1
    /\ generations \in [Generation -> Directory \cup {None}]
    /\ selected \in Generation \cup {None, Torn}
    /\ previous \in Generation \cup {None, Torn}
    /\ evidence \subseteq Evidence
    /\ reply \in {"none", "io", "flushed", "recovered", "required", "integrity"}
    /\ committed \in Content \cup {None}
    /\ exposed \subseteq {"reuse", "tornRestore"}

\* flush_file and recover_store: whatever step a flush or a recovery was
\* interrupted at, the pointer recovery follows names a complete generation
\* that holds exactly the contents last renamed into place.
CurrentIsCommitted ==
    exposed = {} /\ committed # None =>
        Readable(Current) /\ ContentOf(Current) = committed

\* recover_store never refuses a file that was committed: it reports
\* RecoveryRequired only when nothing ever was, and IntegrityFailure never.
RecoveryIsNeverDenied ==
    exposed = {} => reply # "integrity" /\ (reply = "required" => committed = None)

\* flush_file returns Ok only when a read returns what was staged (D-12).
AcknowledgedIsReadable ==
    [][pc = "marker" /\ reply' = "flushed" =>
         Readable(selected)' /\ ContentOf(selected)' = staged]_vars

\* cleanup_unreferenced_staging never removes a generation directory that
\* selected.commit or previous.commit names.
ReferencedIsKept ==
    [][\A g \in Generation :
         generations[g] # None /\ generations'[g] = None => g \notin {selected, previous}]_vars

\* Every call of flush_file and recover_store returns: the cleanup loop
\* comes to an end.
CallsReturn == pc # "idle" ~> pc = "idle"

\* The file as its users see it: contents replaced in one step.
Atomic == INSTANCE AtomicFile WITH
    value <- IF Readable(Current) THEN ContentOf(Current) ELSE None,
    buffer <- staged,
    acknowledged <- (reply = "flushed")

\* flush_file and recover_store implement the atomic file, as long as no
\* unprotected event happens.
RefinesAtomicFile == Atomic!Spec

(* The inductive invariant behind CurrentIsCommitted.                      *)

\* What flush_file has written so far.
FlushProgress ==
    pc \in FlushStep =>
        /\ staged \in Content
        /\ generation \in Generation
        /\ generations[generation] # None
        /\ pc = "chunk" => index \in 1 .. Len(staged)
        /\ \A i \in 1 .. Len(staged) :
              pc # "chunk" \/ i < index => generations[generation].chunk[i] = staged[i]
        /\ pc \notin {"chunk", "manifest"} => generations[generation].manifest = Len(staged)
        /\ pc \notin {"chunk", "manifest", "commit"} => generations[generation].commit = generation

\* Where the pointers are while flush_file publishes.
PointerProgress ==
    /\ pc = "keep" => selected # None
    /\ pc \in {"pointer", "remove"} /\ selected # None => previous = selected
    /\ pc = "rename" => selected = None
    /\ pc = "marker" => selected = generation

\* Where recover_store is; a call that has not returned has no reply.
RecoveryProgress ==
    /\ pc # "idle" => reply = "none"
    /\ pc = "restore" => selected = None /\ previous \in Generation
    /\ pc = "removeDir" => generation \in Generation \ {selected, previous}

\* Nothing is published before the first commit, and a flush never writes
\* into the generation the current pointer names.
Separation ==
    /\ committed = None => selected = None /\ previous = None
    /\ exposed = {} /\ pc \in FlushStep \ {"marker"} => generation # Current

\* CurrentIsCommitted is inductive together with how far the running call
\* of flush_file or recover_store has got.
FlushInv ==
    /\ FlushProgress
    /\ PointerProgress
    /\ RecoveryProgress
    /\ Separation
    /\ CurrentIsCommitted

(* What the repository says and the code does not do.                      *)

\* D-13: "retain the last fully committed version and discard an incomplete
\* replacement; never expose a partial mixture of old and new data".
RetainsCommitted ==
    pc = "idle" /\ committed # None /\ Readable(selected) => ContentOf(selected) = committed

\* D-15: a failed write preserves the last committed version; the operations
\* test expects "prior generation stays readable".
PriorStaysReadable == pc = "idle" /\ committed # None => Readable(selected)

\* D-14: a failed verification is denied "with a stable integrity error".
IntegrityErrorIsStable ==
    [][pc = "idle" /\ Recover /\ selected # None /\ ~Readable(selected) => reply' = "integrity"]_vars

\* The recovery test "simulate torn selected pointer" recovers the prior commit.
TornPointerIsRecovered == "reuse" \notin exposed => reply # "integrity"

\* write_at changes only the chunk it writes and keeps the rest of what is
\* committed (D-13).
WriteAtKeepsCommitted ==
    [][\A i \in Position, c \in Chunk :
         staged = None /\ committed # None /\ WriteAt(i, c) =>
             \A j \in DOMAIN committed \ {i} : j \in DOMAIN staged' /\ staged'[j] = committed[j]]_vars
=============================================================================
