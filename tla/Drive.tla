------------------------------- MODULE Drive -------------------------------
(***************************************************************************)
(* The WinFsp callbacks (crates/dlp-windows-drive/src/filesystem.rs) over  *)
(* the namespace: what each callback does to the store, and the contexts   *)
(* it hands to WinFsp.  WinFsp calls cleanup once and then close once for  *)
(* every context it was given; its operation guard and the store's mutex   *)
(* make each callback one step.                                            *)
(***************************************************************************)
EXTENDS Namespace

CONSTANT Context   \* slots for the contexts WinFsp holds

\* DlpFileHandle; a context without a store handle is a directory's.
FileContext ==
    [path : Key \cup {Root}, handle : Handle \cup {None}, deleteRequested : BOOLEAN, cleaned : BOOLEAN]

ASSUME ContextAssumption == None \notin FileContext /\ None \notin Handle

VARIABLES
    contexts,  \* the contexts handed out
    staged,    \* the files with staged contents
    written    \* the files with committed contents

driveVars == <<vars, contexts, staged, written>>

DriveInit ==
    /\ Init
    /\ contexts = [c \in Context |-> None]
    /\ staged = {}
    /\ written = {}

\* A context that callbacks other than close may still get.
Usable(c) == contexts[c] # None /\ ~contexts[c].cleaned
IsFile(c) == Usable(c) /\ contexts[c].handle # None
FileOf(c) == HandleFile(contexts[c].handle).id

\* WinFsp refuses to open a file whose deletion an open context has asked for.
Openable(k) ==
    \A c \in Context : Usable(c) /\ contexts[c].deleteRequested =>
        k # (IF contexts[c].handle = None THEN contexts[c].path ELSE handles[contexts[c].handle].path)

\* file_info_for: reads the contents to learn the size, so it fails for a
\* file that has none.
FileInfo(k) ==
    IF IsDirectory(k) THEN "ok"
    ELSE IF files[k] = None THEN "NotFound"
    ELSE IF files[k].pending \/ files[k].id \notin written THEN "NotFound"
    ELSE "ok"

\* The callback returns a context for k, or none when it fails.
Hand(c, k, h, status) ==
    contexts' = IF status = "ok"
                THEN [contexts EXCEPT ![c] = [path |-> k, handle |-> h,
                                              deleteRequested |-> FALSE, cleaned |-> FALSE]]
                ELSE contexts

-----------------------------------------------------------------------------
(* Callbacks.                                                              *)

\* open: the store handle is not given back when file_info_for fails.
OpenFile(c, k) ==
    /\ contexts[c] = None /\ Openable(k)
    /\ \/ /\ IsDirectory(k)
          /\ Hand(c, k, None, "ok")
          /\ UNCHANGED vars
       \/ /\ ~IsDirectory(k)
          /\ \E h \in Handle : /\ CreateOrOpen(h, k, FALSE, TRUE)
                               /\ Hand(c, k, h, IF reply' = "ok" THEN FileInfo(k) ELSE reply')
    /\ UNCHANGED <<staged, written>>

\* create: a file that exists is opened.
CreateFile(c, k, directory) ==
    /\ contexts[c] = None /\ Openable(k)
    /\ \/ directory /\ CreateDirectory(k) /\ Hand(c, k, None, reply')
       \/ ~directory /\ \E h \in Handle : CreateOrOpen(h, k, TRUE, TRUE) /\ Hand(c, k, h, reply')
    /\ UNCHANGED <<staged, written>>

\* Contents are staged and flushed at once.
Publishes(c) ==
    FlushHandle(contexts[c].handle,
        /\ staged' = staged \cup {FileOf(c)}
        /\ written' \in {written, written \cup {FileOf(c)}},
        /\ staged' = staged \ {FileOf(c)}
        /\ written' = written \cup {FileOf(c)})

\* write: an append first reads the contents for their length.
WriteFile(c, append) ==
    /\ IsFile(c)
    /\ \/ /\ append /\ FileOf(c) \notin written
          /\ Refuse("NotFound")
          /\ UNCHANGED <<nextFile, staged, written>>
       \/ /\ append => FileOf(c) \in written
          /\ Publishes(c)
    /\ UNCHANGED contexts

\* overwrite and set_file_size.
ResizeFile(c) ==
    /\ IsFile(c)
    /\ Publishes(c)
    /\ UNCHANGED contexts

\* flush: publishes what an earlier write has left staged.
FlushContext(c) ==
    /\ IsFile(c)
    /\ FlushHandle(contexts[c].handle,
          /\ FileOf(c) \in staged
          /\ UNCHANGED staged
          /\ written' \in {written, written \cup {FileOf(c)}},
          /\ staged' = staged \ {FileOf(c)}
          /\ written' = written \cup (staged \cap {FileOf(c)}))
    /\ UNCHANGED contexts

\* rename: the store's handles follow, and of the contexts this one.
RenameContext(c, dst, replace) ==
    /\ Usable(c)
    /\ Rename(contexts[c].path, dst, replace)
    /\ contexts' = IF reply' = "ok" THEN [contexts EXCEPT ![c].path = dst] ELSE contexts
    /\ UNCHANGED <<staged, written>>

SetDelete(c, delete) ==
    /\ Usable(c)
    /\ Refuse(IF delete THEN DeleteAllowed(contexts[c].path) ELSE "ok")
    /\ contexts' = IF reply' = "ok" THEN [contexts EXCEPT ![c].deleteRequested = delete] ELSE contexts
    /\ UNCHANGED <<nextFile, staged, written>>

\* Mutant: cleanup gives the store handle back already.
CleanupCloses(c) ==
    /\ Usable(c)
    /\ contexts' = [contexts EXCEPT ![c].cleaned = TRUE]
    /\ \/ contexts[c].handle = None /\ UNCHANGED vars
       \/ contexts[c].handle # None /\ CloseHandle(contexts[c].handle)
    /\ UNCHANGED <<staged, written>>

\* cleanup: performs the deletion set_delete asked for, at the context's path.
Cleanup(c) ==
    /\ Usable(c)
    /\ contexts' = [contexts EXCEPT ![c].cleaned = TRUE]
    /\ \/ contexts[c].deleteRequested /\ Delete(contexts[c].path)
       \/ ~contexts[c].deleteRequested /\ UNCHANGED vars
    /\ UNCHANGED <<staged, written>>

Close(c) ==
    /\ contexts[c] # None /\ contexts[c].cleaned
    /\ contexts' = [contexts EXCEPT ![c] = None]
    /\ \/ contexts[c].handle # None /\ CloseHandle(contexts[c].handle)
       \/ contexts[c].handle = None /\ UNCHANGED vars
    /\ UNCHANGED <<staged, written>>

\* The drive host ends; the next one opens the store again.
HostRestart ==
    /\ Restart
    /\ contexts' = [c \in Context |-> None]
    /\ staged' = {}
    /\ UNCHANGED written

DriveNext ==
    \/ \E c \in Context :
          \/ \E k \in Key \cup {Root} : OpenFile(c, k)
          \/ \E k \in Key, directory \in BOOLEAN : CreateFile(c, k, directory)
          \/ \E append \in BOOLEAN : WriteFile(c, append)
          \/ ResizeFile(c)
          \/ FlushContext(c)
          \/ \E dst \in Key, replace \in BOOLEAN : RenameContext(c, dst, replace)
          \/ \E delete \in BOOLEAN : SetDelete(c, delete)
          \/ Cleanup(c)
          \/ Close(c)
    \/ HostRestart

DriveSpec == DriveInit /\ [][DriveNext]_driveVars

-----------------------------------------------------------------------------
(* Properties.                                                             *)

\* Every context names a store handle of its own that is still open and
\* still leads to a file, until close gives it back.
ContextsHoldHandles ==
    \A c \in Context : contexts[c] # None /\ contexts[c].handle # None =>
        /\ handles[contexts[c].handle] # None
        /\ HandleFile(contexts[c].handle) # None
        /\ \A e \in Context \ {c} : contexts[e] # None => contexts[e].handle # contexts[c].handle

\* write: "publish here so every successful write and any subsequent close
\* are already durable" - after it, a restart finds the file under the name
\* the handle has, with contents, unless it is about to be deleted.
WriteIsDurable ==
    [][\A c \in Context : (\E append \in BOOLEAN : WriteFile(c, append)) /\ reply' = "ok" =>
         LET k == handles[contexts[c].handle].path
         IN  /\ files[k].pending \/ record'.files[k] = files[k].id
             /\ files[k].id \in written']_driveVars

\* The invariant the proofs carry.
DriveInv ==
    /\ Inv
    /\ contexts \in [Context -> FileContext \cup {None}]
    /\ ContextsHoldHandles

(* What the repository says and the code does not do.                      *)

\* The callback contract test: "renamed open handles keep file identity", so
\* a cleanup deletes the file its own handle has open and no other.
CleanupDeletesItsFile ==
    [][\A c \in Context : Cleanup(c) /\ contexts[c].handle # None =>
         \A k \in Key : files'[k] # files[k] => k = handles[contexts[c].handle].path]_driveVars

\* D-18 validates "file sizes from empty": every file can be opened and its
\* directory listed.
FilesAreListable == \A k \in Key : files[k] # None /\ ~files[k].pending => FileInfo(k) = "ok"

\* The research names "open handles block cleanup forever" as a warning sign:
\* a store handle belongs to a context that will close it.
HandlesAreOwned ==
    \A h \in Handle : handles[h] # None =>
        \E c \in Context : contexts[c] # None /\ contexts[c].handle = h
=============================================================================
