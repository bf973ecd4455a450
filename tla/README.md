# A TLA+ verification of the encrypted drive and its management plane

The repository implements an endpoint agent that mounts an encrypted drive for
each signed-in user, and the server that enrolls devices and sends them signed
configurations. This directory holds TLA+ models of its stateful parts and of its
pure algorithms, the TLC configurations that check them on small instances, and
TLAPS proofs of their main properties for every value of the constants.

Paths below are relative to `src/`. `D-nn` and `AGT-nn` are the decisions and
requirements in `.planning/phases/01-first-encrypted-drive-vertical-slice/01-CONTEXT.md`
and `.planning/REQUIREMENTS.md`.

## The system

| Part | State | Operations | What is hard |
|---|---|---|---|
| Encrypted file store, `crates/dlp-storage/src/store.rs`, `recovery.rs` | staged contents, generation directories, `selected.commit`, `previous.commit`, evidence | write, write_at, truncate, flush, read, recover | a crash or I/O error between any two file operations; counters that restart with the process |
| Store namespace, `store.rs`, `path.rs` | directories, files, handles, `namespace.rec` | create, open, close, rename, delete, reload | deletions pending on handles, publication that fails half-way |
| Drive callbacks, `crates/dlp-windows-drive/src/filesystem.rs` | WinFsp contexts | open, create, write, overwrite, set size, flush, rename, set_delete, cleanup, close | contexts of one file interleave; close cannot report errors |
| Session monitor, `crates/dlp-windows-service/src/session.rs`, `service.rs` | actors, runtimes, hosts, the host log, the event queue | sign-in, sign-out, stop, health check, relaunch, handshake | four kinds of threads and processes; late handshakes; a service that dies |
| Bootstrap of a host, `session.rs`, `pipe.rs`, `crates/dlp-windows-drive/src/bin/dlp-drive-host.rs` | key file, pipe, frames, drive letters, volumes | load_store_key, launch, accept_and_authenticate, open the store, choose a letter, mount, acknowledge | three parties that wait for each other, each of which may end; other processes on the pipe and on the letter |
| Enrollment, `crates/dlp-server/src/{repository,enrollment,routes,pki}.rs`, `crates/dlp-agent-core/src/enrollment.rs`, `crates/dlp-windows-service/src/{service,credential}.rs` | authority row, credential tables, `device.dpapi` | provision, recover, enroll, start, save | lost answers, late requests, damaged files |
| Configuration and health, `crates/dlp-server/src/{routes,repository}.rs`, `crates/dlp-agent-core/src/config_cache.rs`, `service.rs` | signed configurations, staged bundles, pointers | fetch, publish, verify, activate, clean, report | check-then-insert on the server, interruption on the agent, a restored server |
| Server, `crates/dlp-server/src/{lib,main,tls,routes,ad}.rs` | settings, ledger, connections, requests, directory records | start, accept, identify the peer, authorize, ask two controllers | revocations and directory changes between two queries; a start that fails half-way |
| Log debug service, `crates/dlp-log-debug-service/src` | service status, requests, the log it reads | start, tail, stop | the log grows, moves or is replaced between the steps of a read |
| Formats and algorithms: `format.rs`, `path.rs`, `wildmatch.rs`, `dlp-policy`, `dlp-protocol`, `config_cache.rs`, `fingerprint.rs` | none | encode, decode, match, evaluate, normalise | lengths taken from bytes, backtracking, ties |

A drive host opens a store (`FileStore`, `Namespace`), mounts it through the callbacks
(`Drive`) and answers to the session monitor (`SessionMonitor`) over a pipe (`HostPipe`).
The service runs the session monitor and the poll loop (`Configuration`), and
identifies itself to the server (`Server`) with the credential that `Enrollment`
gave it.

`PROJECT.json` lists the components, the source lines of every definition, and
the hazards with the properties that would catch them.

## Modules

- `AtomicFile`: what a file promises: contents replaced in one step.
- `FileStore`: one file of the store. `pc` names the next file operation of the
  running `flush_file` or `recover_store`; each file operation is an action, and
  `Crash` and `IoError` may come before any of them and leave the record being
  written torn. Contents are sequences of chunks; a record is its payload, `Torn`
  or `None`. `committed`, `reply` and `exposed` are history.
- `Namespace`: one operation is one action, because the store is held exclusively;
  `persist_namespace` may fail before or after its rename.
- `Drive` extends `Namespace` with the contexts WinFsp holds. A callback is one
  step under WinFsp's guard and the store's mutex.
- `SessionMonitor`: the session thread, the authentication threads, the hosts and
  Windows. A generation stands for an actor, its pipe and its host. `logged` is
  the set of hosts that inherited the host log of the running service process.
- `HostPipe`: one logon step by step: the key file, the launch, every frame of the
  handshake, the choice and the mount of a letter. `auth[g]` and `host[g]` say
  where the thread and the host of generation `g` are; `toHost` and `toService`
  are the two directions of its pipe. `cached` has the key files that are not on
  the disk yet; `used` and `lost` are history.
- `HostPipeMonitor`: the mapping by which `HostPipe` is seen as `SessionMonitor`. The
  instance, and what counts as a step in it (`MonitorStep`), are in `HostPipeProofs`.
- `Enrollment`: the server's transactions, each one step because the authority row
  is locked, the network, and the agent's start step by step.
- `Configuration`: the server's queries, each one step because they share no
  transaction; the activation, one step per file operation; the poll loop and
  the health reports.
- `Server`: the start, the accept loop, the peer identity, and each request query by
  query. `request[c].held` is history: the records the controllers had while
  the request was there.
- `LogDebug`: the service thread, the connections, the handler of `/logs` and the tail
  reader, which looks at the log three times. `request[r]` is a connection with the
  request it carries: idle, half sent, at one of the handler's steps, or answered and not
  yet read.
- `Selection`: `wildmatch::matches`, one action per branch of its loop, and
  `PolicyEvaluator::evaluate`, one call a step, next to what they are meant to compute.
- `Formats`: the eight stored or sent formats. A layout is a sequence of fields; a step
  writes or reads one field, and between them the bytes may be cut short, altered
  or added to. `marks` and `stops` are history: where the writer and the reader were
  after each field.
- `Firmware`: the table that the firmware builds, structure by structure and string by
  string, and the reader of the serial number, one action per branch of its three loops.
  `structures` is history: what was put into the table, and where.
- `Paths`: `VirtualPath`. A split takes off one piece a step and a join adds one; a behaviour
  parses an input and then its key, its display path or its parent's key. `places`,
  `ends`, `path` and `last` are history: where the pieces end, and what was parsed and
  joined before. `Characters`, which it shares with `Selection`, has the lower case.
- `Algorithms` puts these four side by side.
- `MC*`: the modules TLC runs. They add a symmetry or a view and replace no
  definition.
- `*Proofs`: the theorems about the module of that name. `DriveProofs` has those of
  `Namespace` too, on which the ones of `Drive` rest, `FileStoreProofs` those of
  `Selection`, `ConfigurationProofs` those of `Paths`, `EnrollmentProofs` those of `Formats`
  and `SessionMonitorProofs` those of `Firmware`.

A definition whose comment begins with "Mutant" is a plausible wrong version of the
definition that follows it. No specification uses it: with it in place of the
right one TLC must find the property violated.

## Runs that pass

| Run | Shows | Bounds |
|---|---|---|
| `MCFileStore` | the pointer recovery follows always leads to exactly the committed contents; recovery is never denied; an acknowledged flush is readable; clean-up removes only garbage; `FileStore` implements `AtomicFile`; flush and recovery return | 2 chunks of 2 values, 2 generations, 2 evidence directories |
| `MCNamespace` | the tree stays connected; a handle keeps leading to the file it was opened on; memory and index agree | 2 names, depth 2, 2 file numbers, 3 entries, 2 handles |
| `MCDrive` | contexts never hold a dead or shared store handle; an acknowledged write survives a restart | 2 names, 1 file number, 2 contexts, 2 handles |
| `MCSessionMonitor` | one controlled host per store; runtimes and actors match; hosts exit when their service is gone; the loss of a host is noticed | 2 sessions, 2 users, 3 hosts, 5 events |
| `MCHostPipe` | the key reaches only the launched host; a store keeps one key; the reported letter is the real one; a logon returns; an abandoned host leaves; every step is a step of `SessionMonitor` | 1 user, 2 logons, 2 letters |
| `MCEnrollment` | a token buys one credential; the tables agree; revocation is named or recovered, and final | 3 tokens, 3 serials, 4 requests |
| `MCConfiguration` | the pointers name staged bundles; last known good is older; the version never goes back | 3 versions, 4 calls, 1 mount |
| `MCServer` | the start fails closed; effects are authorized; credentials are issued on the word of both controllers; clients are taken in turn | 2 connections, 2 serials, 2 schema versions, 1 directory change |
| `MCLogDebug` | the tail is the newest run of whole lines; a stop is honoured unless a client is waited for; requests received are answered | a log of 4 bytes, windows of 2 bytes, 2 lines, 1 connection |
| `MCAlgorithms` | wildcard matching, policy decisions, path keys, eight encodings and the firmware table against a reference | patterns and names of 4 characters, 3 rules, inputs of 6 characters and paths of 5 with 2 names, fields of 2 bytes, one byte altered or 2 added, 2 structures with 2 strings of 3, one of them no UTF-8, every cut |

The bounds are the smallest at which the hard cases happen: two generations are a
published one and the one being written, and the number handed out again; two
chunks are one old and one new; two contexts, sessions or connections interleave;
two logons are an abandoned one and its successor, and two letters a taken one
and a free one; three tokens are a used one, a superseded one and a current one;
three versions make a last known good bundle that is itself replaced; a log twice
as long as the window has bytes before it; two stars and a character
between them make `matches` go back; two structures are one to skip and one to read,
and two strings one that is read and the last, which is not. A mutant of the code breaks every property
within them.

`TypeOK` of each module is proved with the invariant of the `*Proofs` modules where
there is one (`HostPipe` proves the part of it called `Typed`, `Namespace` and `Drive` the
types of the tree, the index, the handles and the contexts). The whole of it holds on
the instances above in `Namespace` and `HostPipe`, where it can be
added to the configuration; so do the inductive invariants named below.

`MCFileStore` uses a view: the records of a directory that no pointer and no
running call refers to are never read again, so only its existence counts; the
states it identifies have the same successors, so it is sound for the temporal
properties too. Its specification, `ProtectedSpec`, stops short of the first
`exposed` event (below), after which the invariants promise nothing. The views of
`MCNamespace` and `MCDrive` drop the reply, which no guard reads. Symmetry is used
for safety only.

`CHECK_DEADLOCK FALSE` is set where the model comes to rest when its bound is used up:
`SessionMonitor` and `HostPipe` (events, hosts), `Enrollment` (tokens, requests) and
`Algorithms` (one call).

**Fairness.**

- `FileStore`: weakly fair to the next step of the running call: a call that was
  entered goes on unless the process ends.
- `SessionMonitor`: weakly fair to the session thread, which polls in a loop, to
  each authentication thread, whose waits end with the pipe, and to each host's own
  steps. Nothing obliges users to sign in, or Windows to start the service.
- `HostPipe`: the same at the level of frames. The session thread waits for 30
  seconds at most; a thread or host blocked on the pipe is woken by a frame or
  by the end of the other side. `Die`, `OtherOpens` and `OtherVolume` are not fair.
- `Server`: weakly fair to the start, to `Accept` and to the steps of a request that
  have a time limit. A handshake and `simple_bind` have none and get no
  fairness; `ClientsAreTaken` therefore says what holds if handshakes end.
- `LogDebug`: weakly fair to the service thread and to each handler, which awaits
  nothing. Clients are not fair. The graceful shutdown of `serve_http` waits for every
  connection that is not idle and has no time limit, so `StopIsHonoured` says what holds if
  no client leaves its request half sent, or its answer unread, for ever. A client that
  does so holds up the stop; one that keeps an idle connection open does not.

The other modules have safety properties only.

## What is proved

Each theorem holds for every value of the constants that satisfies the `ASSUME` of its
module: the bounds are natural numbers, and `None`, `Torn` and `Bad` are none of the
values they stand next to. `Formats` also assumes that the values written have the fields
of their layout, and bytes of which there are four at least, as the tags go to 3;
`Firmware`, that a string of the table is not empty and has no zero; which strings are
UTF-8 (`Utf8`) is left open. `Session` is finite
in `SessionMonitor`, as the queue lists its members at the start of the service; the
proofs do not use that.

| Module | Theorems | Inductive invariant |
|---|---|---|
| `FileStoreProofs` | `TypeCorrect`, `FlushInvariant`, `CommittedSurvives`, `RecoverySucceeds`, `AcknowledgedReadable`, `ReferencedKept`, `ImplementsAtomicFile` | `TypeOK /\ FlushInv` |
| | of `Selection`: `MatchesAreMeant`, `DecisionsAreOrderFree` | `SelectionInv` |
| `DriveProofs` | of `Namespace`: `TreeStaysRooted`, `HandlesKeepFiles`, `IndexKeepsAgreeing` | `Inv` |
| | `ContextsKeepHandles`, `WritesAreDurable` | `DriveInv` |
| `EnrollmentProofs` | `TablesAlwaysAgree`, `TokensIssueOnce`, `RevokedWereNamed`, `RevocationIsFinal` | `Inv` |
| | of `Formats`: `DecodedAreEncoded` | `FormatsInv` |
| `ConfigurationProofs` | `PointedIsStaged`, `LkgStaysOlder`, `VersionsIncrease` | `Inv` |
| | of `Paths`: `KeysAreCanonical` | `PathsInv` |
| `SessionMonitorProofs` | `RuntimesAlwaysMatch`, `StoreHasOneHost` | `Inv` |
| | of `Firmware`: `SerialsAreReferred` | `FirmwareInv` |
| `HostPipeProofs` | `StoreKeepsItsKey`, `KeyReachesHostOnly`, `LetterIsReal`, `PipeIsMonitored` | `Inv`, and `LaunchIsNext` for the last |
| `ServerProofs` | `StartIsClosed`, `EffectsAreAuthorized`, `IssuedWereCorroborated` | `Inv` |
| `LogDebugProofs` | `LooksStayTrue`, `TailStaysNewest` | `Inv` |

**FileStore.** `CurrentIsCommitted` is not inductive: a rename publishes what was written
several steps before. `FlushInv` adds what the running call has done so far: which
records of its directory are complete (`FlushProgress`), where the two pointers are
(`PointerProgress`, `RecoveryProgress`), and that a flush does not write into the
directory the current pointer names (`Separation`). The refinement maps a rename of
the pointer to the replacement of the contents and every other step to a step on
the buffer or a stutter.

Two events break `Separation`, and the code does not exclude them: a generation
number handed out again while the current pointer names it, and the copy of
`previous.commit` cut short. `exposed` records them. `CurrentIsCommitted` and
`RecoveryIsNeverDenied` are claimed while it is empty, and the refinement for
behaviours in which it stays empty (`ProtectedSpec`); `AcknowledgedIsReadable`
and `ReferencedIsKept` are claimed always. `MCRetainsCommitted` shows
that the first condition is needed, `TornPointerIsRecovered` the second.

**Namespace.** `TreeIsRooted` speaks of parents, and a rename of a directory moves entries
at any depth below it, so the invariant says that all of `Above(k)` exists for every
entry `k` (`Rooted`, and `IndexRooted` for the index). Two entries never move to one
path, because nothing is below the destination when the move is made (`Movable`,
`DestinationIsBare`): it did not exist, it was only a file, or the delete found it
childless. From the same lemmas the moved handles still lead to their files. A
failed publication goes back to the tree before it, which is rooted too
(`CommitIsSound`).

**Drive.** A callback is a step of the store and a change of one context, so
the lemmas of `Namespace` give `Inv`; what is left is which handles a step opens and closes: none
but `close_handle` closes one (`StaysOpen`), and `create_or_open` takes one that was
not open.

**Enrollment.** That a token buys one credential needs that a valid token has bought
nothing yet and that tokens are handed out in order; that the tables agree, that a
serial without a credential has no row; and that only named credentials are
revoked, that a request on the way names one the agent presented.

**Configuration.** `Stage`, `Point` and `Clean` act on a comparison of versions that
`Verify` made; the invariant says that the bundle under way is still newer than
the current one, and is staged before it is pointed to.

**SessionMonitor.** That one user has one controlled host does not follow from the
actors, which are compared by session and user. It follows from the host log: every
pipe end that is held belongs to a host in `logged`, of which one at most is alive.

**HostPipe.** Three facts need an invariant. A used key is in the file, because the file is
written before the launch (`KeyIsInFile`, with what a logon has done so far in
`LogonIsUnderWay`). The bootstrap goes to the host, because the thread and the host
take turns and the client cannot change once it has been identified (`Turns`). The
reported letter is real, because a mounted host holds its letter until it exits
(`LetterIsHeld`). The proof has one lemma per action of `session_logon`, one each for
the steps of the thread, of the host and of a stop or a loss of power.

`PipeIsMonitored`: a step of `HostPipe` is, under the mapping of `HostPipeMonitor`, a step
of `SessionMonitor` or changes nothing `SessionMonitor` knows of. A host's state there
is a function of its state here and of the frames in its pipe, so one lemma says on
which variables each mapped component depends (`MapsDepend`) and one per kind of
step which of them it writes. That leaves the steps that are seen: a launch, the
outcome of a handshake, the end of a thread, of a host or of the service, and one
frame each way (`SeenStep`). A launch needs that the generation is the next one and
its user has no actor yet, which `Inv` does not say: `LaunchIsNext`. It also needs
`ActorAssumption`: `None` is no actor.

**Server.** What a request has passed stays true of the certificate its connection
showed (`PeerWasShown`, `RequestHasPassed`), and both answers of a directory
query were records there were during the request (`AnswersWereHeld`).

**LogDebug.** Between the looks at the log only appends happen, or it is created anew, which
`recreated` records; so `Inv` says that what a look saw is still so (`LookHolds`). What
the reader computes from the window is then compared with the definition of the
newest lines over the whole log. Both are the least or the greatest index with some
property; `LeastExists` and `GreatestExists` give them from the well-foundedness of `<`,
and `NewestOfWindow` that the window and the whole log agree on it.

**Selection.** The invariant of the loop of `matches` (`LoopInv`) has two halves. `Sound`: if
the rest of the pattern fits the rest of the name, the whole does; so does the
pattern behind the last star from any later place. `Complete`: if the whole fits at
all, it does so from a place that has not been tried, because what lies between the
last star and the present index takes as many characters wherever it begins.
Dropping the earlier stars is safe because the earliest fit leaves the most of the
name to the rest. No name has a star (`SelectionAssumption`; `path.rs:94` refuses
it). `evaluate` takes a candidate that none is before; that determines its action because
no two actions are equally restrictive (`Restrictive`).

**Formats.** That a reader accepts only encodings says nothing yet of bytes that were
cut short: their beginning might be an encoding too. `FormatsInv` therefore relates two
positions. The fields written so far lie one behind the other between the `marks`
(`WriterInv`), the fields read so far between the `stops` (`ReadSoFar`), and as long as the
input agrees with what was written, the reader stops where the writer did and has read
the same (`InStep`). So the end of the input before the last mark stops the reader
inside a field. The exception is the version of a pointers file, which is read as 0 when
fewer bytes than it needs are left; then at most one byte is left and the input was cut
(`Lacks`, `lost`). Two lemmas carry the
proof: what a reader takes is there, encoded (`ReadIsTaken`), and where a field was
written the reader takes that field or runs into the end (`ReadBack`).

**Firmware.** The reader knows offsets, the property structures. `TableInv` says where each
structure and each of its strings is (`Described`), that the first two zeros in a row from
the formatted area on are those behind its last string (`SoleEnd`), and that the next
structure begins there (`Place`). The search is then always at the place of a structure
with no system structure before it (`FinderInv`), the scan inside its strings
(`ScannerInv`), and the string looked at is one of the structure's, up to the one it
refers to (`PickerInv`). `SoleEnd` rests on the assumption that no string is empty: an
empty one would end the area.

**Paths.** The property is about two calls, a join and the parse of what it gave, so
`PathsInv` carries the first into the second. The pieces joined so far lie one behind
the other up to their `ends` (`JoinInv`), and none has a separator in it; so when what
was joined is split, the pieces come off one by one as they were put in (`Following`).
It is not refused: it has no colon, its names are valid in lower case too, and it is no
longer than the limit. The last is the point where the input matters. `parse` measures
the input, which may have more separators than the key, and never the key; each piece
joined ends no later than it did in the input (`ends[k] <= places[k]`, from `Fit`). Two
texts that are joined of the same names end their pieces at the same places and are
equal up to case and separators (`Alike`), which makes the second key the first.

Only model-checked: liveness (`CallsReturn`, `HostsFollowService`, `LossIsNoticed`,
`LogonReturns`, `AbandonedHostLeaves`, `ClientsAreTaken`, `StopIsHonoured`,
`AcceptedIsAnswered`), which is outside of the prover's reach. Every other property that
a passing run checks is stated by a theorem.

## Where the code and its documents disagree

Two runs check one sentence each of a document, and TLC refutes it; `findings` in
`PROJECT.json` quotes the line.

| Run | What happens |
|---|---|
| `MCRetainsCommitted` | generation numbers restart with the process; an interrupted flush then mixes new chunks into the committed generation (D-13) |
| `MCSessionsAreIsolated` | all hosts of a service process share one log that only one can open, so while one session has its drive the sign-in of another is handled without a host (`01-15-PLAN.md:58`) |

The modules state further properties under the heading "What the repository says
and the code does not do". TLC finds each violated on the instance of its module
(with `Spec` for `FileStore`, and with `MaxMounts = 7` for `ReportIsRecorded`);
adding one to the configuration shows the trace.

| Module | Property | What happens |
|---|---|---|
| `FileStore` | `PriorStaysReadable` | between the removal of `selected.commit` and the rename of the new one, a failed flush leaves nothing readable until `recover_store`, which the drive host does not call |
| | `TornPointerIsRecovered` | a torn `selected.commit` is denied though `previous.commit` is good (`store.rs:382`) |
| | `IntegrityErrorIsStable` | an evidence number used before turns the integrity error into an I/O error |
| | `WriteAtKeepsCommitted` | `write_at` takes a failed read for an empty file (`store.rs:217`) |
| `Namespace` | `IdsAreDistinct` | file numbers restart with the process and two paths share a file (`store.rs:618`) |
| | `FailedPublicationLosesNothing` | a rename with replace whose second publication fails has already deleted the destination (`store.rs:802`); `01-10-SUMMARY.md:120` says "rollback-safe in memory on publication failure" |
| | `RefusalLosesNothing` | a file renamed onto itself with replace is deleted (`store.rs:783`) |
| | `PendingIsOpen` | a failed publication at the last close leaves a pending file without a handle (`store.rs:734`) |
| `Drive` | `CleanupDeletesItsFile` | `cleanup` deletes by a path another context's rename has made stale (`filesystem.rs:427`) |
| | `FilesAreListable` | a file that was never written cannot be opened or listed (`filesystem.rs:125`) |
| | `HandlesAreOwned` | `open` keeps its store handle when `file_info_for` fails (`filesystem.rs:234`) |
| `SessionMonitor` | `FailedIsRetried` | an actor whose mount failed stays `Failed` while its user is signed in, in a fair behaviour (`session.rs:996`); D-10 says "If automatic mounting fails, leave the drive absent, retry automatically" |
| | `DrainEnds` | nothing ends a drain (D-09, `session.rs:1085`) |
| | `ReportedIsMounted` | a draining drive is reported as mounted (`service.rs:229`) |
| `Enrollment` | `ReplacementIsAuthorized` | an agent with a damaged credential file asks for a replacement without naming the serial it replaces (`service.rs:184`); the comment at `service.rs:180` says "A damaged credential can still retain the serial that authorizes its replacement." |
| | `IdentityIsAuthorized` | a serial whose first bit is set is longer in the certificate, and its lookup fails (`pki.rs:94`) |
| `Configuration` | `ReportIsDriveState` | a failed poll, and so every poll of the unchanged configuration, is reported as `not_mounted` (`service.rs:329`) |
| | `ReportIsRecorded` | the drive state of seven actors exceeds the 64 bytes the server accepts (`routes.rs:136`) |
| `Server` | `EnrollmentIsAnswered` | `simple_bind` has no time limit (`ad.rs:221`), although `ad.rs:116` speaks of "bounded timeouts" |

Observations that are no properties of a model:

- `fingerprint.rs:1` says "Exact hardware fingerprint normalization shared with the
  trusted-station contract", and `dlpctl` has a normalisation of its own (`main.rs:30`
  and `main.rs:82`).
- `read_smbios_string` cannot read the last string of a structure; `SerialIsReferred`
  claims that an answer is the string the structure refers to, and that every
  string but the last is found if it is UTF-8.
- A pointers file without its last eight bytes decodes, with version 0: the error of
  `read_u64` is turned into 0 (`config_cache.rs:391`). So does one that has only the first
  byte of that version and that byte is 0, since the next field, which is read from the
  same place, is then an absent digest. `DecodedIsEncoded` makes the exception explicit.
- `TailIsNewest` claims nothing for a log that is made anew between the looks at it.

## What is not modelled

- Cryptography, certificates, TLS and LDAP as such: a record or a peer authenticates
  or it does not.
- Timestamps, security descriptors, volume information, directory paging,
  notifications, HTML.
- A user with several sessions and a sign-out during a logon are in `SessionMonitor`
  and not in `HostPipe`; the CSR checks are one refusal (`Deny`) in `Enrollment`.
- Who fills `device_allowlist`: an initial choice of `Configuration`.
- The composition of `Drive` with `FileStore`: `Drive` takes a flush as the one step
  that `AtomicFile` makes of it, for behaviours in `ProtectedSpec`.
- A namespace index that is damaged on disk: `Load` of `Namespace` finds the one that was
  last renamed into place.
- Widths in `Formats`: offsets do not overflow, and the total limit of a credential
  (`credential.rs:95`) is left out. The values written are within the limits of the readers.
- Letters whose lower case is longer than they are, which `to_lowercase` has.
- The Windows calls that fetch the firmware table, and the hash over it.
- The value types of `dlp-protocol` and `dlp-domain` beyond the envelope's bytes and
  the order of actions: they are checked once, when they are made.
- `dlpctl`, whose commands run once and whose SQLite skeleton the deployed parts do
  not use; lab scripts and test harnesses.
