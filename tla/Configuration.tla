--------------------------- MODULE Configuration ---------------------------
(***************************************************************************)
(* How a signed configuration reaches a device and how the device reports  *)
(* its health: signed_configuration_for and persist_configuration          *)
(* (crates/dlp-server/src/routes.rs, repository.rs), whose queries         *)
(* interleave, the agent's ConfigurationCache                              *)
(* (crates/dlp-agent-core/src/config_cache.rs), which may be interrupted   *)
(* between two file operations, and the service loop that polls            *)
(* (crates/dlp-windows-service/src/service.rs).                            *)
(*                                                                         *)
(* One device, whose credential is active.  The server makes the same      *)
(* bundle for the same version and signatures are deterministic, so a      *)
(* bundle and its digest are its version; whatever the checks of format,   *)
(* hash, signature, schema, key and audience refuse is Bad.                *)
(***************************************************************************)
EXTENDS Naturals

CONSTANTS
    MaxVersion,  \* bound on bundle_version
    Call,        \* the server's calls: one for each fetch and publication
    MaxMounts,   \* bound on the actors of the session monitor
    None,        \* no version, call or report
    Bad          \* bytes that are not a valid bundle for this device

Version == 1 .. MaxVersion

ASSUME ConfigurationAssumption ==
    /\ MaxVersion \in Nat \ {0} /\ MaxMounts \in Nat
    /\ None \notin Nat /\ Bad \notin Nat /\ None # Bad /\ None \notin Call

VARIABLES
    \* the server
    allowed,    \* device_allowlist has the row the other tables refer to
    published,  \* the versions in signed_configurations
    calls,      \* what each call does next, for which version
    \* the agent's disk
    staging,    \* the bundles in staging/
    pointers,   \* the pointers file
    \* the service loop
    pc,         \* "idle", "waiting", "stage", "point" or "clean"
    waiting,    \* the call whose answer it waits for
    bundle,     \* the version stage_verify_activate works on
    \* the session monitor and the health reports
    mounts,     \* the actors in the monitor's snapshot
    report      \* history: the last report the server got, and what was so

agent == <<staging, pointers, pc, waiting, bundle>>
vars == <<allowed, published, calls, staging, pointers, pc, waiting, bundle, mounts, report>>

CallState == [step : {"free", "select", "check", "insert", "done"}, version : Version \cup {None}]
Pointers == [current : Version \cup {None}, lkg : Version \cup {None}]

Init ==
    /\ allowed \in BOOLEAN
    /\ published = {}
    /\ calls = [c \in Call |-> [step |-> "free", version |-> None]]
    /\ staging = {}
    /\ pointers = [current |-> None, lkg |-> None]
    /\ pc = "idle"
    /\ waiting = None
    /\ bundle = None
    /\ mounts = 0
    /\ report = None

-----------------------------------------------------------------------------
(* The server.  Every query is a step; a call may end after any of them.   *)

Goes(c, step, version) == calls' = [calls EXCEPT ![c] = [step |-> step, version |-> version]]

\* selected_configuration; without one, version 1 is made and persisted.
Select(c) ==
    /\ calls[c].step = "select"
    /\ \/ \E v \in published : (\A w \in published : w <= v) /\ Goes(c, "done", v)
       \/ published = {} /\ Goes(c, "check", 1)
    /\ UNCHANGED <<allowed, published, agent, mounts, report>>

\* A version is staged on the server.  In the repository only
\* stage_configuration_for_test does so.
Publish(c, v) ==
    /\ calls[c].step = "free"
    /\ Goes(c, "check", v)
    /\ UNCHANGED <<allowed, published, agent, mounts, report>>

\* persist_configuration up to its insert: a version that is not newer than
\* the newest is a replay.
Check(c) ==
    /\ calls[c].step = "check"
    /\ \/ (\E v \in published : calls[c].version <= v) /\ Goes(c, "done", None)
       \/ (\A v \in published : calls[c].version > v) /\ Goes(c, "insert", calls[c].version)
    /\ UNCHANGED <<allowed, published, agent, mounts, report>>

\* Its insert, which the unique and the foreign key may refuse.
Insert(c) ==
    /\ calls[c].step = "insert"
    /\ \/ /\ allowed /\ calls[c].version \notin published
          /\ published' = published \cup {calls[c].version}
          /\ Goes(c, "done", calls[c].version)
       \/ /\ ~allowed \/ calls[c].version \in published
          /\ Goes(c, "done", None)
          /\ UNCHANGED published
    /\ UNCHANGED <<allowed, agent, mounts, report>>

\* The database is restored from an older copy.
Restored ==
    /\ published' \in SUBSET published
    /\ UNCHANGED <<allowed, calls, agent, mounts, report>>

-----------------------------------------------------------------------------
(* Health.                                                                 *)

\* The length of the text drive_state makes of n mounted actors: entries like
\* "P:mounted" with commas between, or "not_mounted".
TextLength(n) == IF n = 0 THEN 11 ELSE 10 * n - 1

\* record_health_for accepts a text about n actors, and its row is inserted.
Recordable(n) == TextLength(n) <= 64 /\ allowed

\* post_health reaches the server.
Post(n) == report' = [said |-> n, mounts |-> mounts, recorded |-> Recordable(n)]

\* The health interval has passed.
ReportHealth ==
    /\ pc = "idle"
    /\ Post(mounts)
    /\ UNCHANGED <<allowed, published, calls, agent, mounts>>

\* poll_and_activate returns an error, which is reported with "not_mounted",
\* if the report gets through.
Rejected ==
    /\ pc' = "idle"
    /\ waiting' = None
    /\ bundle' = None
    /\ Post(0) \/ UNCHANGED report

-----------------------------------------------------------------------------
(* The service loop.                                                       *)

Poll(c) ==
    /\ pc = "idle"
    /\ calls[c].step = "free"
    /\ Goes(c, "select", None)
    /\ pc' = "waiting"
    /\ waiting' = c
    /\ UNCHANGED <<allowed, published, staging, pointers, bundle, mounts, report>>

\* 30 seconds pass, or the server denies or fails.
PollFails ==
    /\ pc = "waiting"
    /\ Rejected
    /\ UNCHANGED <<allowed, published, calls, staging, pointers, mounts>>

\* Mutant: the active version is activated once more.
FreshOrEqual(v) == pointers.current # None => v >= pointers.current

\* Mutant: versions are not compared.
FreshAlways(v) == TRUE

\* The version check of stage_verify_activate.
Fresh(v) == pointers.current # None => v > pointers.current

\* What deserialize_signed_configuration and the checks of hash, signature,
\* schema, key and audience may make of the bytes that were sent for v.
Received(v) == {v, Bad}

\* The answer, whole or not, and the checks of stage_verify_activate.
Verify(received) ==
    /\ pc = "waiting" /\ calls[waiting].step = "done" /\ calls[waiting].version # None
    /\ received \in Received(calls[waiting].version)
    /\ \/ /\ received # Bad => ~Fresh(received)
          /\ Rejected
       \/ /\ received # Bad /\ Fresh(received)
          /\ pc' = "stage"
          /\ waiting' = None
          /\ bundle' = received
          /\ UNCHANGED report
    /\ UNCHANGED <<allowed, published, calls, staging, pointers, mounts>>

\* Mutant: the pointers are written first.
StageLate ==
    /\ pc = "stage"
    /\ pc' = "point"
    /\ UNCHANGED <<allowed, published, calls, staging, pointers, waiting, bundle, mounts, report>>

\* write_staged_bundle: a temporary file is renamed into place.
Stage ==
    /\ pc = "stage"
    /\ staging' = staging \cup {bundle}
    /\ pc' = "point"
    /\ UNCHANGED <<allowed, published, calls, pointers, waiting, bundle, mounts, report>>

\* write_pointers, likewise.
Point ==
    /\ pc = "point"
    /\ pointers' = [current |-> bundle, lkg |-> pointers.current]
    /\ pc' = "clean"
    /\ UNCHANGED <<allowed, published, calls, staging, waiting, bundle, mounts, report>>

\* Mutant: only the current bundle counts.
ReferencedCurrent == {pointers.current}

Referenced == {pointers.current, pointers.lkg}

\* clean_staging removes what the pointers do not name; a removal may fail.
Clean ==
    /\ pc = "clean"
    /\ staging' \in {kept \in SUBSET staging : staging \cap Referenced \subseteq kept}
    /\ pc' = "idle"
    /\ bundle' = None
    /\ UNCHANGED <<allowed, published, calls, pointers, waiting, mounts, report>>

\* A file operation fails; what it would have renamed into place is not there.
IoError ==
    /\ pc \in {"stage", "point"}
    /\ Rejected
    /\ UNCHANGED <<allowed, published, calls, staging, pointers, mounts>>

\* The service ends and starts again; clean_staging may be under way.
Restart ==
    /\ pc' = "idle"
    /\ waiting' = None
    /\ bundle' = None
    /\ mounts' = 0
    /\ UNCHANGED <<allowed, published, calls, staging, pointers, report>>

\* The session monitor has one more actor; it keeps those it has.
Mount ==
    /\ mounts < MaxMounts
    /\ mounts' = mounts + 1
    /\ UNCHANGED <<allowed, published, calls, agent, report>>

Next ==
    \/ \E c \in Call :
          \/ Select(c) \/ Check(c) \/ Insert(c) \/ Poll(c)
          \/ \E v \in Version : Publish(c, v)
    \/ Restored
    \/ ReportHealth \/ PollFails \/ Stage \/ Point \/ Clean \/ IoError \/ Restart \/ Mount
    \/ \E received \in Version \cup {Bad} : Verify(received)

Spec == Init /\ [][Next]_vars

-----------------------------------------------------------------------------
(* Properties.                                                             *)

\* Every variable has its type.
TypeOK ==
    /\ allowed \in BOOLEAN
    /\ published \subseteq Version
    /\ calls \in [Call -> CallState]
    /\ staging \subseteq Version
    /\ pointers \in Pointers
    /\ pc \in {"idle", "waiting", "stage", "point", "clean"}
    /\ waiting \in Call \cup {None}
    /\ bundle \in Version \cup {None}
    /\ mounts \in 0 .. MaxMounts
    /\ report \in [said : 0 .. MaxMounts, mounts : 0 .. MaxMounts, recorded : BOOLEAN] \cup {None}

\* "Retain the current and last-known-good configurations": wherever an
\* activation, a clean-up or a poll is interrupted, the bundles the pointers
\* name are staged.
SelectedIsStaged ==
    /\ pointers.current # None => pointers.current \in staging
    /\ pointers.lkg # None => pointers.lkg \in staging

\* "current and LKG must not cross-link to the same bundle": the last known
\* good bundle is an older one than the current.
LkgIsOlder ==
    pointers.lkg # None => pointers.current # None /\ pointers.lkg < pointers.current

\* "Strictly increasing numeric bundle version versus current": whatever the
\* server answers, the pointers never go back to an older bundle.
VersionNeverGoesBack ==
    [][pointers.current # None =>
         pointers'.current # None /\ pointers'.current >= pointers.current]_vars

\* The invariant the proofs carry: the bundle under way is newer than the
\* current one and staged before it is pointed to, and a call that is about
\* to write has a version.
Inv ==
    /\ TypeOK
    /\ SelectedIsStaged
    /\ LkgIsOlder
    /\ pc \in {"stage", "point"} => bundle # None /\ Fresh(bundle)
    /\ pc = "point" => bundle \in staging
    /\ pc = "waiting" => waiting # None
    /\ \A c \in Call : calls[c].step \in {"check", "insert"} => calls[c].version # None

(* What the repository says and the code does not do.                      *)

\* AGT-07: "Report version, health, drive state, active policy version, and
\* errors": the drive state reported is the one drive_state computes.
ReportIsDriveState == report # None => report.said = report.mounts

\* AGT-07: the report of a device that the server knows is recorded.
ReportIsRecorded == report # None /\ allowed => report.recorded
=============================================================================
