----------------------------- MODULE Namespace -----------------------------
(***************************************************************************)
(* The namespace of the encrypted store (crates/dlp-storage/src/store.rs): *)
(* directories, files and open handles in memory, and namespace.rec, the   *)
(* encrypted index that persist_namespace replaces atomically.  Every      *)
(* operation holds the store exclusively (&mut self), so one operation is  *)
(* one step; a crash inside one leaves the index as it was before or after *)
(* one of its persist_namespace calls, which are steps of smaller          *)
(* operations followed by Restart.                                         *)
(*                                                                         *)
(* A path is the sequence of its lower-cased components (VirtualPath's     *)
(* lookup key), so two spellings of a name are one path.  Display names    *)
(* and times are left out; the contents of a file are FileStore's matter.  *)
(***************************************************************************)
EXTENDS Naturals, Sequences, FiniteSets

CONSTANTS
    Name,       \* path components
    MaxDepth,   \* bound on the components of a path (MAX_COMPONENTS)
    MaxFile,    \* bound on NEXT_FILE
    MaxEntries, \* bound on the files and directories that exist at a time
    Handle,     \* slots for open handles: NEXT_HANDLE never repeats
    Faults,     \* where persist_namespace fails: "write" before, "marker" after the rename
    None        \* no entry

ASSUME BoundsAssumption ==
    /\ MaxDepth \in Nat \ {0}
    /\ MaxFile \in Nat
    /\ MaxEntries \in Nat
    /\ Faults \subseteq {"write", "marker"}

Root == << >>
Key == UNION {[1 .. n -> Name] : n \in 1 .. MaxDepth}
FileId == 1 .. MaxFile
Entry == [id : FileId, pending : BOOLEAN]
Open == [path : Key, allowDelete : BOOLEAN]

ASSUME NoneAssumption == None \notin Entry /\ None \notin Open /\ None \notin FileId

VARIABLES
    directories,  \* LocalEncryptedStore::directories
    files,        \* LocalEncryptedStore::files
    handles,      \* LocalEncryptedStore::handles
    nextFile,     \* NEXT_FILE
    record,       \* namespace.rec: the directories and files it lists
    reply,        \* what the last operation returned
    opened,       \* history: the file each handle was opened on
    diverged      \* history: the last persist_namespace failed after its rename

memory == <<directories, files, handles>>
vars == <<directories, files, handles, nextFile, record, reply, opened, diverged>>

-----------------------------------------------------------------------------
(* Paths.                                                                  *)

Under(k, d) == Len(k) > Len(d) /\ SubSeq(k, 1, Len(d)) = d

\* The key k has after the directory src was moved to dst.
Rebase(k, src, dst) == dst \o SubSeq(k, Len(src) + 1, Len(k))

Parent(k) == SubSeq(k, 1, Len(k) - 1)

\* require_parent
HasParent(k) == Len(k) = 1 \/ Parent(k) \in directories

IsDirectory(k) == k = Root \/ k \in directories

HandlesOf(k) == {h \in Handle : handles[h] # None /\ handles[h].path = k}

\* Mutant: files about to be deleted do not count.
ChildlessButPending(k) ==
    /\ \A d \in directories : ~Under(d, k)
    /\ \A f \in Key : files[f] # None /\ ~files[f].pending => ~Under(f, k)

\* No directory and no file, not even one about to be deleted, is below k.
Childless(k) ==
    /\ \A d \in directories : ~Under(d, k)
    /\ \A f \in Key : files[f] # None => ~Under(f, k)

Spare == Cardinality(directories) + Cardinality({k \in Key : files[k] # None}) < MaxEntries

-----------------------------------------------------------------------------
(* The index on disk.                                                      *)

\* What persist_namespace writes: files about to be deleted are left out.
Index(d, f) ==
    [directories |-> d,
     files |-> [k \in Key |-> IF f[k] # None /\ ~f[k].pending THEN f[k].id ELSE None]]

Init ==
    /\ directories = {}
    /\ files = [k \in Key |-> None]
    /\ handles = [h \in Handle |-> None]
    /\ nextFile = 1
    /\ record = Index({}, [k \in Key |-> None])
    /\ reply = "none"
    /\ opened = [h \in Handle |-> None]
    /\ diverged = FALSE

\* An operation that returns e and changes nothing.
Refuse(e) ==
    /\ reply' = e
    /\ UNCHANGED <<memory, record, opened, diverged>>

\* persist_namespace fails with (d, f) in memory and the index r on disk.
PersistFails(d, f, r) ==
    \/ "write" \in Faults /\ record' = r /\ UNCHANGED diverged
    \/ "marker" \in Faults /\ record' = Index(d, f) /\ diverged' = TRUE

\* Mutant: nothing is taken back.
CommitKeeps(d0, f0, r, d, f, h) ==
    /\ directories' = d /\ files' = f /\ handles' = h
    /\ \/ record' = Index(d, f) /\ diverged' = FALSE /\ reply' = "ok"
       \/ PersistFails(d, f, r) /\ reply' = "io"

\* The operation makes memory (d, f, h) and persists it.  When that fails it
\* goes back to the directories d0 and files f0; r is the index on disk.
CommitOver(d0, f0, r, d, f, h) ==
    \/ /\ directories' = d /\ files' = f /\ handles' = h
       /\ record' = Index(d, f)
       /\ diverged' = FALSE
       /\ reply' = "ok"
    \/ /\ directories' = d0 /\ files' = f0 /\ UNCHANGED handles
       /\ PersistFails(d, f, r)
       /\ reply' = "io"

Commit(d, f, h) == CommitOver(directories, files, record, d, f, h)

-----------------------------------------------------------------------------
(* Creating and opening.                                                   *)

CreateDirectory(k) ==
    /\ \/ /\ files[k] # None \/ k \in directories
          /\ Refuse("AlreadyExists")
       \/ /\ files[k] = None /\ k \notin directories /\ ~HasParent(k)
          /\ Refuse("NotFound")
       \/ /\ files[k] = None /\ k \notin directories /\ HasParent(k) /\ Spare
          /\ Commit(directories \cup {k}, files, handles)
          /\ UNCHANGED opened
    /\ UNCHANGED nextFile

\* create_or_open on slot h.  Whether k is a directory is not asked.
CreateOrOpen(h, k, create, allowDelete) ==
    LET state == [path |-> k, allowDelete |-> allowDelete]
        new == [id |-> nextFile, pending |-> FALSE]
    IN  /\ handles[h] = None
        /\ \/ /\ files[k] # None /\ files[k].pending
              /\ Refuse("DeletePending")
              /\ UNCHANGED nextFile
           \/ /\ files[k] # None /\ ~files[k].pending
              /\ handles' = [handles EXCEPT ![h] = state]
              /\ opened' = [opened EXCEPT ![h] = files[k].id]
              /\ reply' = "ok"
              /\ UNCHANGED <<directories, files, record, diverged, nextFile>>
           \/ /\ files[k] = None /\ (~create \/ ~HasParent(k))
              /\ Refuse("NotFound")
              /\ UNCHANGED nextFile
           \/ /\ files[k] = None /\ create /\ HasParent(k)
              /\ nextFile <= MaxFile /\ Spare
              /\ nextFile' = nextFile + 1
              /\ Commit(directories, [files EXCEPT ![k] = new], [handles EXCEPT ![h] = state])
              /\ opened' = IF reply' = "ok" THEN [opened EXCEPT ![h] = nextFile] ELSE opened

-----------------------------------------------------------------------------
(* Contents, through a handle.                                             *)

\* handle_file
HandleFile(h) == files[handles[h].path]

\* Mutant: the index is not persisted.
FlushHandleOnly(h, Unflushed, Flushed) ==
    /\ handles[h] # None /\ HandleFile(h) # None
    /\ (Refuse("io") /\ Unflushed) \/ (Refuse("ok") /\ Flushed)
    /\ UNCHANGED nextFile

\* flush_handle: flush_file when contents are staged, which may fail, and then
\* persist_namespace in every case.  Unflushed and Flushed say what the one
\* and the other outcome of flush_file mean for the contents.
FlushHandle(h, Unflushed, Flushed) ==
    /\ handles[h] # None
    /\ \/ HandleFile(h) = None /\ Refuse("NotFound")
       \/ HandleFile(h) # None /\ Refuse("io") /\ Unflushed
       \/ /\ HandleFile(h) # None
          /\ Commit(directories, files, handles)
          /\ UNCHANGED opened
          /\ Flushed
    /\ UNCHANGED nextFile

-----------------------------------------------------------------------------
(* Deleting and closing.                                                   *)

\* ensure_delete_allowed; delete and delete_directory ask the same.
DeleteAllowed(k) ==
    IF IsDirectory(k)
    THEN IF k # Root /\ Childless(k) THEN "ok" ELSE "SharingViolation"
    ELSE IF files[k] = None THEN "NotFound"
    ELSE IF \E h \in HandlesOf(k) : ~handles[h].allowDelete THEN "SharingViolation"
    ELSE "ok"

\* An open file stays until its last handle is closed.
MarksPending(k) == ~IsDirectory(k) /\ HandlesOf(k) # {}

\* The files after a successful delete of k.
FilesAfterDelete(k) ==
    IF IsDirectory(k) THEN files
    ELSE IF MarksPending(k) THEN [files EXCEPT ![k].pending = TRUE]
    ELSE [files EXCEPT ![k] = None]

DirectoriesAfterDelete(k) == IF IsDirectory(k) THEN directories \ {k} ELSE directories

Delete(k) ==
    /\ \/ /\ DeleteAllowed(k) # "ok"
          /\ Refuse(DeleteAllowed(k))
       \/ /\ DeleteAllowed(k) = "ok" /\ MarksPending(k)
          /\ files' = FilesAfterDelete(k)
          /\ reply' = "ok"
          /\ UNCHANGED <<directories, handles, record, diverged, opened>>
       \/ /\ DeleteAllowed(k) = "ok" /\ ~MarksPending(k)
          /\ Commit(DirectoriesAfterDelete(k), FilesAfterDelete(k), handles)
          /\ UNCHANGED opened
    /\ UNCHANGED nextFile

\* close_handle: the handle is gone even when the index cannot be persisted.
CloseHandle(h) ==
    LET k == handles[h].path
        last == files[k] # None /\ files[k].pending /\ HandlesOf(k) = {h}
        gone == [files EXCEPT ![k] = None]
    IN  /\ handles[h] # None
        /\ handles' = [handles EXCEPT ![h] = None]
        /\ opened' = [opened EXCEPT ![h] = None]
        /\ \/ /\ ~last
              /\ reply' = "ok"
              /\ UNCHANGED <<files, record, diverged>>
           \/ /\ last
              /\ files' = gone
              /\ record' = Index(directories, gone)
              /\ diverged' = FALSE
              /\ reply' = "ok"
           \/ /\ last
              /\ PersistFails(directories, gone, record)
              /\ reply' = "io"
              /\ UNCHANGED files
        /\ UNCHANGED <<directories, nextFile>>

-----------------------------------------------------------------------------
(* Renaming.                                                               *)

\* Mutant: the handles keep the old path.
HandlesStay(src, dst) == handles

\* The files f after the file src became dst, and the handles that follow it.
FileMoved(f, src, dst) == [f EXCEPT ![dst] = f[src], ![src] = None]
HandlesFollow(src, dst) ==
    [h \in Handle |-> IF h \in HandlesOf(src) THEN [handles[h] EXCEPT !.path = dst] ELSE handles[h]]

\* The same for everything below the directory src.
TreeMoved(f, src, dst) ==
    [k \in Key |->
        IF \E j \in Key : Under(j, src) /\ f[j] # None /\ Rebase(j, src, dst) = k
        THEN f[Rebase(k, dst, src)]
        ELSE IF Under(k, src) THEN None ELSE f[k]]
DirectoriesMoved(d, src, dst) ==
    {IF k = src \/ Under(k, src) THEN Rebase(k, src, dst) ELSE k : k \in d}
TreeHandlesFollow(src, dst) ==
    [h \in Handle |->
        IF handles[h] # None /\ Under(handles[h].path, src)
        THEN [handles[h] EXCEPT !.path = Rebase(handles[h].path, src, dst)]
        ELSE handles[h]]

\* What a rename with replace does first: delete(dst)?.  Either the error is
\* passed on, or Then continues from the directories d, the files f and the
\* index r that the delete left.
ReplaceThen(dst, Then(_, _, _)) ==
    LET d == DirectoriesAfterDelete(dst)
        f == FilesAfterDelete(dst)
    IN  \/ /\ DeleteAllowed(dst) # "ok"
           /\ Refuse(DeleteAllowed(dst))
        \/ /\ DeleteAllowed(dst) = "ok" /\ ~MarksPending(dst)
           /\ PersistFails(d, f, record)
           /\ reply' = "io"
           /\ UNCHANGED <<memory, opened>>
        \/ /\ DeleteAllowed(dst) = "ok"
           /\ Then(d, f, IF MarksPending(dst) THEN record ELSE Index(d, f))
           /\ UNCHANGED opened

\* rename of a file whose destination was deleted: fails when the
\* destination is still there, and when it was the source itself.
RenameOver(src, dst, d, f, r) ==
    LET stop(e) == /\ directories' = d /\ files' = f /\ record' = r
                   /\ reply' = e
                   /\ UNCHANGED <<handles, diverged>>
    IN  \/ f[dst] # None /\ stop("SharingViolation")
        \/ f[dst] = None /\ f[src] = None /\ stop("NotFound")
        \/ /\ f[dst] = None /\ f[src] # None
           /\ CommitOver(d, f, r, d, FileMoved(f, src, dst), HandlesFollow(src, dst))

RenameFile(src, dst, replace) ==
    \/ files[src] = None /\ Refuse("NotFound")
    \/ files[src] # None /\ files[src].pending /\ Refuse("DeletePending")
    \/ /\ files[src] # None /\ ~files[src].pending
       /\ \/ files[dst] # None /\ ~replace /\ Refuse("AlreadyExists")
          \/ /\ files[dst] # None /\ replace
             /\ ReplaceThen(dst, LAMBDA d, f, r : RenameOver(src, dst, d, f, r))
          \/ /\ files[dst] = None
             /\ Commit(directories, FileMoved(files, src, dst), HandlesFollow(src, dst))
             /\ UNCHANGED opened

\* rename_directory.  That a replaced destination is really gone is not asked.
RenameDirectory(src, dst, replace) ==
    LET move(d, f, r) == CommitOver(d, f, r, DirectoriesMoved(d, src, dst),
                                    TreeMoved(f, src, dst), TreeHandlesFollow(src, dst))
        occupied == files[dst] # None \/ dst \in directories
        refused == src = Root \/ Under(dst, src)
    IN  \/ (refused \/ (occupied /\ ~replace)) /\ Refuse("AlreadyExists")
        \/ ~refused /\ occupied /\ replace /\ ReplaceThen(dst, move)
        \/ ~refused /\ ~occupied /\ move(directories, files, record) /\ UNCHANGED opened

\* Every key that moves stays within MaxDepth.
Fits(src, dst) == \A k \in Key : Under(k, src) => Len(k) - Len(src) + Len(dst) <= MaxDepth
                                                  \/ (files[k] = None /\ k \notin directories)

Rename(src, dst, replace) ==
    /\ \/ ~HasParent(dst) /\ Refuse("NotFound")
       \/ HasParent(dst) /\ IsDirectory(src) /\ Fits(src, dst) /\ RenameDirectory(src, dst, replace)
       \/ HasParent(dst) /\ ~IsDirectory(src) /\ RenameFile(src, dst, replace)
    /\ UNCHANGED nextFile

-----------------------------------------------------------------------------
(* Starting again.                                                         *)

\* open: load_namespace replaces everything in memory by the index,
\* the one that was last renamed into place.  The returns for an index that
\* is damaged are not modelled: nothing here damages it.
Load ==
    /\ directories' = record.directories
    /\ files' = [k \in Key |-> IF record.files[k] = None THEN None
                               ELSE [id |-> record.files[k], pending |-> FALSE]]
    /\ handles' = [h \in Handle |-> None]
    /\ opened' = [h \in Handle |-> None]
    /\ reply' = "none"
    /\ diverged' = FALSE
    /\ UNCHANGED record

\* A new process: NEXT_FILE starts at 1 again.
Restart == Load /\ nextFile' = 1

\* reopen in the same process.
Reopen == Load /\ UNCHANGED nextFile

Next ==
    \/ \E k \in Key : CreateDirectory(k)
    \/ \E h \in Handle, k \in Key, create, allowDelete \in BOOLEAN :
          CreateOrOpen(h, k, create, allowDelete)
    \/ \E h \in Handle : FlushHandle(h, TRUE, TRUE) \/ CloseHandle(h)
    \/ \E k \in Key \cup {Root} : Delete(k)
    \/ \E src \in Key \cup {Root}, dst \in Key, replace \in BOOLEAN : Rename(src, dst, replace)
    \/ Restart
    \/ Reopen

Spec == Init /\ [][Next]_vars

-----------------------------------------------------------------------------
(* Properties.                                                             *)

\* Every variable has its type.
TypeOK ==
    /\ directories \subseteq Key
    /\ files \in [Key -> Entry \cup {None}]
    /\ handles \in [Handle -> Open \cup {None}]
    /\ nextFile \in 1 .. MaxFile + 1
    /\ record.directories \subseteq Key
    /\ record.files \in [Key -> FileId \cup {None}]
    /\ opened \in [Handle -> FileId \cup {None}]
    /\ diverged \in BOOLEAN

\* Every file and directory is in a directory that exists, in memory and in
\* the index a restart loads: no rename or delete cuts a subtree off.
TreeIsRooted ==
    /\ \A k \in directories : HasParent(k)
    /\ \A k \in Key : files[k] # None => HasParent(k)
    /\ \A k \in record.directories : Len(k) = 1 \/ Parent(k) \in record.directories
    /\ \A k \in Key : record.files[k] # None => Len(k) = 1 \/ Parent(k) \in record.directories

\* A handle names the file it was opened on, whatever was renamed, replaced,
\* deleted or rolled back since.
HandleKeepsFile ==
    \A h \in Handle : handles[h] # None =>
        HandleFile(h) # None /\ HandleFile(h).id = opened[h]

\* What persist_namespace may have written for the directories d and files f;
\* files about to be deleted may or may not be in it.
Lists(r, d, f) ==
    /\ r.directories = d
    /\ \A k \in Key :
          \/ f[k] = None /\ r.files[k] = None
          \/ f[k] # None /\ f[k].pending /\ r.files[k] \in {None, f[k].id}
          \/ f[k] # None /\ ~f[k].pending /\ r.files[k] = f[k].id

\* Unless the last persist_namespace failed after its rename, a restart
\* finds the directories and files that are in memory.
IndexAgrees == ~diverged => Lists(record, directories, files)

\* What the invariant of the proofs says of a tree: all that is above an entry
\* is there, which TreeIsRooted says of what is next to it only.
Above(k) == {SubSeq(k, 1, n) : n \in 1 .. Len(k) - 1}
Rooted(d, f) ==
    /\ d \subseteq Key /\ f \in [Key -> Entry \cup {None}]
    /\ \A k \in d : Above(k) \subseteq d
    /\ \A k \in Key : f[k] # None => Above(k) \subseteq d

\* The same of an index.
IndexRooted(r) ==
    /\ r.directories \subseteq Key /\ r.files \in [Key -> FileId \cup {None}]
    /\ \A k \in r.directories : Above(k) \subseteq r.directories
    /\ \A k \in Key : r.files[k] # None => Above(k) \subseteq r.directories

\* Handles that lead to the files f they were opened on.
Lead(hs, f) ==
    \A h \in Handle : hs[h] # None => f[hs[h].path] # None /\ f[hs[h].path].id = opened[h]

\* The invariant the proofs carry.
Inv ==
    /\ nextFile \in Nat \ {0}
    /\ handles \in [Handle -> Open \cup {None}] /\ DOMAIN opened = Handle
    /\ Rooted(directories, files)
    /\ IndexRooted(record)
    /\ Lead(handles, files)
    /\ IndexAgrees

(* What the repository says and the code does not do.                      *)

\* Two files of the store are two files: "retain the last fully committed
\* version" (D-13) of each needs a FileId of its own.
IdsAreDistinct ==
    \A j, k \in Key : j # k /\ files[j] # None /\ files[k] # None => files[j].id # files[k].id

\* The namespace index is "rollback-safe in memory on publication failure".
FailedPublicationLosesNothing ==
    [][reply' = "io" => \A k \in Key : files[k] # None => files'[k] # None]_vars

\* D-11, "normal Windows filesystem behavior": an operation that is refused
\* takes no file away.
RefusalLosesNothing ==
    [][reply' \in {"NotFound", "AlreadyExists", "SharingViolation", "DeletePending"} =>
         \A k \in Key : files[k] # None => files'[k] # None]_vars

\* D-11, "handle-close semantics": a file about to be deleted is still open,
\* and its deletion completes when its last handle is closed.
PendingIsOpen == \A k \in Key : files[k] # None /\ files[k].pending => HandlesOf(k) # {}
=============================================================================
