------------------------------ MODULE HostPipe ------------------------------
(***************************************************************************)
(* How a drive host gets its key and reports its drive                     *)
(* (crates/dlp-windows-service/src/session.rs and pipe.rs,                 *)
(* crates/dlp-windows-drive/src/bin/dlp-drive-host.rs): session_logon with *)
(* the key file it creates, the thread in accept_and_authenticate, the     *)
(* host, the frames between them, drive letters, and what interferes:      *)
(* another process on the pipe or on a letter, the end of the service or   *)
(* of the host at any step, a loss of power.                               *)
(*                                                                         *)
(* SessionMonitor has these steps in coarser form; HostPipeMonitor says    *)
(* which.  Every user has one session, and stays signed in.                *)
(***************************************************************************)
EXTENDS Naturals, Sequences, FiniteSets

CONSTANTS
    User,           \* the SIDs, each with its session and its store
    MaxGeneration,  \* bound on the logons that get as far as a pipe
    Letters,        \* drive_letter_candidates has this many letters
    Preferred,      \* preferred_drive_letter, as an index
    None,           \* no user, file, client, letter or logon
    Torn            \* a key file whose blob is incomplete

Generation == 1 .. MaxGeneration
Letter == 0 .. Letters - 1

\* A volume that is no host's.
Other == 0

ASSUME HostPipeAssumption ==
    /\ MaxGeneration \in Nat /\ Letters \in Nat \ {0} /\ Preferred \in Letter
    /\ None \notin User /\ None \notin Nat /\ None \notin {"host", "other"}
    /\ Torn \notin Nat /\ Torn # None

MountActor == [generation : Generation, state : {"Mounted", "Failed"}, letter : Letter \cup {None}]

ASSUME ActorAssumption == None \notin MountActor

VARIABLES
    service,    \* the service process: "up" or "down"
    keyFile,    \* keys/<store id>.dpapi of each user
    cached,     \* the users whose key file may not have reached the disk
    logon,      \* the generation session_logon works on
    step,       \* where it is: "idle", "key", "launch" or "wait"
    actors,     \* SessionMonitor::actors
    runtimes,   \* the generations in SessionMonitor::runtimes
    logged,     \* the generations started with this process's host log
    owner,      \* the user of each generation
    key,        \* the store key in its bootstrap
    client,     \* who has opened its pipe: the host, another process or nobody
    version,    \* BOOTSTRAP_PROTOCOL_VERSION of the host binary it was started from
    auth,       \* its thread in accept_and_authenticate
    toHost,     \* frames written by the service and not yet read
    toService,  \* frames written by the host and not yet read
    host,       \* its host process
    letter,     \* the letter the host has chosen
    volumes,    \* the host mounted on each letter, or Other
    used,       \* history: the keys each user's store was opened with
    lost        \* history: the users whose key file a loss of power took

monitor == <<logon, step, actors, runtimes, logged>>
files == <<keyFile, cached>>
pipes == <<client, toHost, toService>>
vars == <<service, keyFile, cached, logon, step, actors, runtimes, logged, owner, key, client, version,
          auth, toHost, toService, host, letter, volumes, used, lost>>

AuthStep == {"connect", "identify", "request", "respond", "bootstrap", "ack"}
HostStep == {"started", "opened", "requested", "accepted", "bootstrapped", "stored", "chosen",
             "mounted", "serving"}

\* The two sides have the same protocol version in a consistent installation.
Version == {1, 2}
ServiceVersion == 1

Init ==
    /\ service = "up"
    /\ keyFile = [u \in User |-> None]
    /\ cached = {}
    /\ logon = None /\ step = "idle"
    /\ actors = [u \in User |-> None]
    /\ runtimes = {}
    /\ logged = {}
    /\ owner = [g \in Generation |-> None]
    /\ key = [g \in Generation |-> None]
    /\ client = [g \in Generation |-> None]
    /\ version = [g \in Generation |-> None]
    /\ auth = [g \in Generation |-> "none"]
    /\ toHost = [g \in Generation |-> << >>]
    /\ toService = [g \in Generation |-> << >>]
    /\ host = [g \in Generation |-> "none"]
    /\ letter = [g \in Generation |-> None]
    /\ volumes = [l \in Letter |-> None]
    /\ used = [u \in User |-> {}]
    /\ lost = {}

Alive(g) == host[g] \in HostStep

\* The service's end of the pipe is open: session_logon has it, then the
\* thread, then the channel to session_logon, then runtimes.
ServerOpen(g) ==
    \/ logon = g /\ step \in {"key", "launch"}
    \/ auth[g] \in AuthStep \cup {"done"}
    \/ g \in runtimes

\* The host's end is open.
ClientOpen(g) == Alive(g) /\ host[g] # "started"

-----------------------------------------------------------------------------
(* session_logon, on the session thread.                                   *)

\* session_logon returns before there is a host; generation numbers count
\* the hosts here, so this one is free again.
LogonEnds(g) ==
    /\ logon' = None /\ step' = "idle"
    /\ owner' = [owner EXCEPT ![g] = None]
    /\ key' = [key EXCEPT ![g] = None]
    /\ client' = [client EXCEPT ![g] = None]
    /\ toService' = [toService EXCEPT ![g] = << >>]
    /\ UNCHANGED <<actors, runtimes, logged, toHost>>

\* The pipe is created and load_store_key finds a key, or creates the file.
\* A torn file cannot be unprotected, and the logon ends.
BeginLogon(u, g) ==
    /\ service = "up" /\ logon = None /\ actors[u] = None /\ keyFile[u] # Torn
    /\ owner[g] = None /\ \A e \in Generation : e < g => owner[e] # None
    /\ owner' = [owner EXCEPT ![g] = u]
    /\ logon' = g
    /\ \/ /\ keyFile[u] = None
          /\ step' = "key"
          /\ keyFile' = [keyFile EXCEPT ![u] = Torn]
          /\ cached' = cached \cup {u}
          /\ UNCHANGED key
       \/ /\ keyFile[u] # None
          /\ step' = "launch"
          /\ key' = [key EXCEPT ![g] = keyFile[u]]
          /\ UNCHANGED files
    /\ UNCHANGED <<service, actors, runtimes, logged, pipes, version, auth, host, letter, volumes, used, lost>>

\* Mutant: the host is launched before the key has been written.
WriteKeyLater ==
    /\ service = "up" /\ step = "key"
    /\ step' = "launch"
    /\ key' = [key EXCEPT ![logon] = logon]
    /\ keyFile' \in {[keyFile EXCEPT ![owner[logon]] = k] : k \in {None, logon}}
    /\ cached' = cached \cup {owner[logon]}
    /\ UNCHANGED <<service, logon, actors, runtimes, logged, owner, pipes, version, auth, host, letter,
                   volumes, used, lost>>

\* The protected key is in the file; key numbers stand for random keys.
WriteKey ==
    /\ service = "up" /\ step = "key"
    /\ step' = "launch"
    /\ key' = [key EXCEPT ![logon] = logon]
    /\ keyFile' = [keyFile EXCEPT ![owner[logon]] = logon]
    /\ cached' = cached \cup {owner[logon]}
    /\ UNCHANGED <<service, logon, actors, runtimes, logged, owner, pipes, version, auth, host, letter,
                   volumes, used, lost>>

\* The file cannot be written, or the host cannot be launched.
LogonFails ==
    /\ service = "up" /\ step \in {"key", "launch"}
    /\ LogonEnds(logon)
    /\ UNCHANGED <<service, files, version, auth, host, letter, volumes, used, lost>>

\* The host log, which all hosts of a service process share, can be opened.
LogIsFree == \A g \in logged : ~Alive(g)

Launch ==
    /\ service = "up" /\ step = "launch" /\ LogIsFree
    /\ step' = "wait"
    /\ logged' = logged \cup {logon}
    /\ host' = [host EXCEPT ![logon] = "started"]
    /\ auth' = [auth EXCEPT ![logon] = "connect"]
    /\ \E v \in Version : version' = [version EXCEPT ![logon] = v]
    /\ UNCHANGED <<service, files, logon, actors, runtimes, owner, key, pipes, letter, volumes, used, lost>>

Actor(state, l) == [generation |-> logon, state |-> state, letter |-> l]

\* The result is received: what the thread read from the acknowledgement.
HandshakeSucceeds ==
    /\ service = "up" /\ step = "wait" /\ auth[logon] = "done"
    /\ logon' = None /\ step' = "idle"
    /\ actors' = [actors EXCEPT ![owner[logon]] = Actor("Mounted", Head(toService[logon]))]
    /\ runtimes' = runtimes \cup {logon}
    /\ auth' = [auth EXCEPT ![logon] = "ended"]
    /\ UNCHANGED <<service, files, logged, owner, key, pipes, version, host, letter, volumes, used, lost>>

Unmounted(g) == [l \in Letter |-> IF volumes[l] = g THEN None ELSE volumes[l]]

\* Mutant: the wait for the result has no end.
HandshakeFailsNever ==
    /\ service = "up" /\ step = "wait" /\ auth[logon] = "ended"
    /\ logon' = None /\ step' = "idle"
    /\ actors' = [actors EXCEPT ![owner[logon]] = Actor("Failed", None)]
    /\ host' = [host EXCEPT ![logon] = "exited"]
    /\ volumes' = Unmounted(logon)
    /\ UNCHANGED <<service, files, runtimes, logged, owner, key, pipes, version, auth, letter, used, lost>>

\* The thread has failed, or 30 seconds are over.  terminate may fail.
HandshakeFails ==
    /\ service = "up" /\ step = "wait" /\ auth[logon] # "done"
    /\ logon' = None /\ step' = "idle"
    /\ actors' = [actors EXCEPT ![owner[logon]] = Actor("Failed", None)]
    /\ \/ /\ host' = [host EXCEPT ![logon] = "exited"]
          /\ volumes' = Unmounted(logon)
       \/ UNCHANGED <<host, volumes>>
    /\ UNCHANGED <<service, files, runtimes, logged, owner, key, pipes, version, auth, letter, used, lost>>

Monitor == (\E u \in User, g \in Generation : BeginLogon(u, g)) \/ WriteKey \/ LogonFails \/ Launch
           \/ HandshakeSucceeds \/ HandshakeFails

-----------------------------------------------------------------------------
(* accept_and_authenticate, one thread for each generation.                *)

AuthGoes(g, from, to) ==
    /\ auth[g] = from
    /\ auth' = [auth EXCEPT ![g] = to]

\* What no step of such a thread changes.
AuthFrame == <<service, files, monitor, owner, key, client, version, host, letter, volumes, used, lost>>

\* ConnectNamedPipe returns when somebody has opened the pipe.
Connected(g) ==
    /\ client[g] # None
    /\ AuthGoes(g, "connect", "identify")
    /\ UNCHANGED <<toHost, toService, AuthFrame>>

\* Mutant: the process identifier is not compared.
IdentifyUser(g) ==
    /\ client[g] # None
    /\ AuthGoes(g, "identify", "request")
    /\ UNCHANGED <<toHost, toService, AuthFrame>>

\* GetNamedPipeClientProcessId gives the launched process; its token then
\* has the user and the session it was launched with.
Identify(g) ==
    /\ client[g] = "host"
    /\ AuthGoes(g, "identify", "request")
    /\ UNCHANGED <<toHost, toService, AuthFrame>>

\* validate_request; session and generation are the host's arguments.
ValidRequest(frame) == frame = ServiceVersion

ReadRequest(g) ==
    /\ toService[g] # << >> /\ ValidRequest(Head(toService[g]))
    /\ AuthGoes(g, "request", "respond")
    /\ toService' = [toService EXCEPT ![g] = Tail(@)]
    /\ UNCHANGED <<toHost, AuthFrame>>

\* Somebody has the other end, and the write does not fail.
Write(g, from, to, frame) ==
    /\ client[g] = "host" => ClientOpen(g)
    /\ AuthGoes(g, from, to)
    /\ toHost' = [toHost EXCEPT ![g] = Append(@, frame)]
    /\ UNCHANGED <<toService, AuthFrame>>

SendAcceptance(g) == Write(g, "respond", "bootstrap", "accepted")

SendBootstrap(g) == Write(g, "bootstrap", "ack", "bootstrap")

\* The acknowledgement is read; the letter stays in toService for session_logon.
ReadAck(g) ==
    /\ toService[g] # << >>
    /\ AuthGoes(g, "ack", "done")
    /\ UNCHANGED <<toHost, toService, AuthFrame>>

\* The other end is closed and everything it sent has been read.
EndOfRequests(g) == toService[g] = << >> /\ (client[g] = "host" => ~ClientOpen(g))

\* A call to Windows fails, the client is not the host, a frame is missing or
\* refused, or a write fails.  The thread returns and the pipe is closed.
Refuse(g) ==
    /\ \/ auth[g] \in {"connect", "identify"} /\ client[g] # None
       \/ auth[g] = "request" /\ (toService[g] # << >> => ~ValidRequest(Head(toService[g])))
          /\ (toService[g] = << >> => EndOfRequests(g))
       \/ auth[g] \in {"respond", "bootstrap"} /\ ~ClientOpen(g)
       \/ auth[g] = "ack" /\ EndOfRequests(g)
    /\ auth' = [auth EXCEPT ![g] = "ended"]
    /\ UNCHANGED <<toHost, toService, AuthFrame>>

\* Mutant: a late result is kept.
ResultKept(g) ==
    /\ logon # g
    /\ AuthGoes(g, "done", "ended")
    /\ runtimes' = runtimes \cup {g}
    /\ UNCHANGED <<service, files, logon, step, actors, logged, owner, key, client, version, toHost, toService,
                   host, letter, volumes, used, lost>>

\* session_logon has stopped waiting: the result is dropped and closes the pipe.
ResultDropped(g) ==
    /\ logon # g
    /\ AuthGoes(g, "done", "ended")
    /\ UNCHANGED <<toHost, toService, AuthFrame>>

AuthThread(g) ==
    \/ Connected(g) \/ Identify(g) \/ ReadRequest(g) \/ SendAcceptance(g) \/ SendBootstrap(g)
    \/ ReadAck(g) \/ Refuse(g) \/ ResultDropped(g)

-----------------------------------------------------------------------------
(* dlp-drive-host.                                                         *)

HostGoes(g, from, to) ==
    /\ host[g] = from
    /\ host' = [host EXCEPT ![g] = to]

\* What no step of a host changes.
HostFrame == <<service, files, monitor, owner, key, version, auth, lost>>

\* WaitNamedPipeW and CreateFileW.
Open(g) ==
    /\ ServerOpen(g) /\ client[g] = None
    /\ HostGoes(g, "started", "opened")
    /\ client' = [client EXCEPT ![g] = "host"]
    /\ UNCHANGED <<toHost, toService, letter, volumes, used, HostFrame>>

SendRequest(g) ==
    /\ ServerOpen(g)
    /\ HostGoes(g, "opened", "requested")
    /\ toService' = [toService EXCEPT ![g] = Append(@, version[g])]
    /\ UNCHANGED <<client, toHost, letter, volumes, used, HostFrame>>

\* What was written before the service closed its end may still be read.
Read(g, from, to, frame) ==
    /\ toHost[g] # << >> /\ Head(toHost[g]) = frame
    /\ HostGoes(g, from, to)
    /\ toHost' = [toHost EXCEPT ![g] = Tail(@)]
    /\ UNCHANGED <<client, toService, letter, volumes, used, HostFrame>>

ReadAcceptance(g) == Read(g, "requested", "accepted", "accepted")

ReadBootstrap(g) == Read(g, "accepted", "bootstrapped", "bootstrap")

\* LocalEncryptedStore::open with the key of the bootstrap.
OpenStore(g) ==
    /\ HostGoes(g, "bootstrapped", "stored")
    /\ used' = [used EXCEPT ![owner[g]] = @ \cup {key[g]}]
    /\ UNCHANGED <<client, toHost, toService, letter, volumes, HostFrame>>

\* drive_letter_candidates: the preferred letter, the letters after it, and
\* then those from the beginning.
Candidate(i) == (Preferred + i) % Letters

\* select_drive_letter: the first candidate on which there is no volume.
Free(l) == volumes[l] = None
SelectLetter(g) ==
    /\ HostGoes(g, "stored", "chosen")
    /\ \E i \in Letter :
          /\ Free(Candidate(i)) /\ \A j \in Letter : j < i => ~Free(Candidate(j))
          /\ letter' = [letter EXCEPT ![g] = Candidate(i)]
    /\ UNCHANGED <<client, toHost, toService, volumes, used, HostFrame>>

\* WinFsp mounts the volume where there is still none.
Mount(g) ==
    /\ letter[g] # None /\ Free(letter[g])
    /\ HostGoes(g, "chosen", "mounted")
    /\ volumes' = [volumes EXCEPT ![letter[g]] = g]
    /\ UNCHANGED <<client, toHost, toService, letter, used, HostFrame>>

\* Mutant: the preferred letter is acknowledged.
SendAckPreferred(g) ==
    /\ ServerOpen(g)
    /\ HostGoes(g, "mounted", "serving")
    /\ toService' = [toService EXCEPT ![g] = Append(@, Preferred)]
    /\ UNCHANGED <<client, toHost, letter, volumes, used, HostFrame>>

SendAck(g) ==
    /\ ServerOpen(g)
    /\ HostGoes(g, "mounted", "serving")
    /\ toService' = [toService EXCEPT ![g] = Append(@, letter[g])]
    /\ UNCHANGED <<client, toHost, letter, volumes, used, HostFrame>>

\* The process ends, and its volume and its end of the pipe with it.
Exit(g) ==
    /\ host' = [host EXCEPT ![g] = "exited"]
    /\ volumes' = Unmounted(g)
    /\ UNCHANGED <<client, toHost, toService, letter, used, HostFrame>>

\* Mutant: a host that has mounted its volume does not look at the pipe.
LeaveUnmounted(g) ==
    /\ host[g] \in HostStep \ {"mounted", "serving"}
    /\ ~ServerOpen(g)
    /\ Exit(g)

\* The pipe cannot be opened, written or read; a serving host reads it all
\* the time.  No letter is free, or the chosen one is taken.
Leave(g) ==
    /\ \/ host[g] \in {"started", "opened", "requested", "accepted", "mounted", "serving"} /\ ~ServerOpen(g)
       \/ host[g] = "started" /\ client[g] # None
       \/ host[g] = "stored" /\ \A l \in Letter : ~Free(l)
       \/ host[g] = "chosen" /\ ~Free(letter[g])
    /\ Exit(g)

\* The host fails for a reason of its own or is killed.
Die(g) == Alive(g) /\ Exit(g)

HostThread(g) ==
    \/ Open(g) \/ SendRequest(g) \/ ReadAcceptance(g) \/ ReadBootstrap(g) \/ OpenStore(g)
    \/ SelectLetter(g) \/ Mount(g) \/ SendAck(g) \/ Leave(g)

-----------------------------------------------------------------------------
(* What interferes.                                                        *)

\* Another process of the user, which the pipe's DACL admits, opens the pipe,
\* and may send what a host would send.
OtherOpens(g) ==
    /\ ServerOpen(g) /\ client[g] = None
    /\ client' = [client EXCEPT ![g] = "other"]
    /\ toService' \in {toService, [toService EXCEPT ![g] = <<ServiceVersion>>]}
    /\ UNCHANGED <<service, files, monitor, owner, key, version, auth, toHost, host, letter, volumes, used, lost>>

\* Volumes that are no hosts' come and go.
OtherVolume(l) ==
    /\ volumes[l] \in {None, Other}
    /\ volumes' = [volumes EXCEPT ![l] = IF @ = None THEN Other ELSE None]
    /\ UNCHANGED <<service, files, monitor, owner, key, pipes, version, auth, host, letter, used, lost>>

\* What is left of the service when its process ends.
Down ==
    /\ service' = "down"
    /\ logon' = None /\ step' = "idle"
    /\ actors' = [u \in User |-> None]
    /\ runtimes' = {} /\ logged' = {}
    /\ auth' = [g \in Generation |-> IF auth[g] = "none" THEN "none" ELSE "ended"]
    /\ \/ /\ step \in {"key", "launch"}
          /\ owner' = [owner EXCEPT ![logon] = None]
          /\ key' = [key EXCEPT ![logon] = None]
          /\ client' = [client EXCEPT ![logon] = None]
          /\ toService' = [toService EXCEPT ![logon] = << >>]
       \/ /\ step \in {"idle", "wait"}
          /\ UNCHANGED <<owner, key, client, toService>>
    /\ UNCHANGED <<version, toHost, letter, used>>

\* The service is stopped or fails; a key file may be half written.
ServiceEnds ==
    /\ service = "up"
    /\ Down
    /\ UNCHANGED <<files, host, volumes, lost>>

ServiceStarts ==
    /\ service = "down"
    /\ service' = "up"
    /\ UNCHANGED <<files, monitor, owner, key, pipes, version, auth, host, letter, volumes, used, lost>>

\* The operating system writes the key file out some time after fs::write.
ReachesDisk(u) ==
    /\ u \in cached
    /\ cached' = cached \ {u}
    /\ UNCHANGED <<service, keyFile, monitor, owner, key, pipes, version, auth, host, letter, volumes, used, lost>>

\* Everything stops, and a file that has not reached the disk may be gone.
PowerLoss ==
    /\ Down
    /\ host' = [g \in Generation |-> IF host[g] = "none" THEN "none" ELSE "exited"]
    /\ volumes' = [l \in Letter |-> None]
    /\ \E left \in [cached -> {None, Torn}], gone \in SUBSET cached :
          /\ keyFile' = [u \in User |-> IF u \in gone THEN left[u] ELSE keyFile[u]]
          /\ lost' = lost \cup gone
    /\ cached' = {}

Next ==
    \/ Monitor
    \/ \E g \in Generation : AuthThread(g) \/ HostThread(g) \/ Die(g) \/ OtherOpens(g)
    \/ \E l \in Letter : OtherVolume(l)
    \/ \E u \in User : ReachesDisk(u)
    \/ ServiceEnds \/ ServiceStarts \/ PowerLoss

\* The session thread waits for 30 seconds at most, a thread or a host is
\* woken when its frame comes or the other end closes, and each goes on.
\* Nobody has to sign in, and nothing that interferes has to happen.
Spec ==
    /\ Init
    /\ [][Next]_vars
    /\ WF_vars(WriteKey \/ LogonFails \/ Launch \/ HandshakeSucceeds \/ HandshakeFails)
    /\ \A g \in Generation : WF_vars(AuthThread(g)) /\ WF_vars(HostThread(g))

-----------------------------------------------------------------------------
(* Properties.                                                             *)

\* Every variable has its type, and the two ends take turns: no more than one
\* frame waits for the service, and the two parts of its answer for the host.
TypeOK ==
    /\ service \in {"up", "down"}
    /\ keyFile \in [User -> Generation \cup {None, Torn}]
    /\ cached \subseteq User
    /\ logon \in Generation \cup {None}
    /\ step \in {"idle", "key", "launch", "wait"}
    /\ actors \in [User -> MountActor \cup {None}]
    /\ runtimes \subseteq Generation /\ logged \subseteq Generation
    /\ owner \in [Generation -> User \cup {None}]
    /\ key \in [Generation -> Generation \cup {None}]
    /\ client \in [Generation -> {None, "host", "other"}]
    /\ version \in [Generation -> Version \cup {None}]
    /\ auth \in [Generation -> AuthStep \cup {"none", "done", "ended"}]
    /\ toHost \in [Generation -> Seq({"accepted", "bootstrap"})]
    /\ toService \in [Generation -> Seq(Nat)]
    /\ \A g \in Generation : Len(toHost[g]) <= 2 /\ Len(toService[g]) <= 1
    /\ host \in [Generation -> HostStep \cup {"none", "exited"}]
    /\ letter \in [Generation -> Letter \cup {None}]
    /\ volumes \in [Letter -> Generation \cup {Other, None}]
    /\ used \in [User -> SUBSET Generation]
    /\ lost \subseteq User

\* "Malformed, oversized, or unauthenticated messages are rejected before any
\* storage access": the bootstrap with the store key is written only into a
\* pipe that the launched host itself has opened, of the same version.
KeyGoesToHost ==
    \A g \in Generation :
        auth[g] \in {"ack", "done"} \/ toHost[g] # << >> =>
            client[g] = "host" /\ version[g] = ServiceVersion

\* "so the service health snapshot reports the real letter": while the host of
\* a mounted actor runs, its volume is on the letter of the actor.
ReportedLetterIsReal ==
    \A u \in User :
        actors[u] # None /\ actors[u].state = "Mounted" /\ Alive(actors[u].generation) =>
            volumes[actors[u].letter] = actors[u].generation

\* load_store_key gives a store one key for ever, wherever a logon, a host or
\* the service is cut off, unless power is lost before the file is on the disk.
OneKeyPerStore ==
    \A u \in User \ lost : \A k, l \in used[u] : k = l

\* session_logon returns, whatever the host and the thread do.
LogonReturns == (step # "idle") ~> (step = "idle")

\* A host that session_logon has given up, or whose service has ended, leaves,
\* even if it could not be terminated.
AbandonedHostLeaves ==
    \A g \in Generation : (Alive(g) /\ logon # g /\ g \notin runtimes) ~> ~Alive(g)

\* What the invariant of the proofs says of a logon: which generation it works
\* on, and what that has by then.
LogonIsUnderWay ==
    /\ step = "idle" <=> logon = None
    /\ logon # None => owner[logon] # None
    /\ step \in {"key", "launch"} => host[logon] = "none"
    /\ step = "key" => keyFile[owner[logon]] = Torn
    /\ step = "launch" => key[logon] # None
    /\ step = "wait" => host[logon] # "none"
    /\ \A g \in Generation :
          /\ owner[g] = None => key[g] = None /\ client[g] = None
          /\ host[g] # "none" => owner[g] # None /\ key[g] # None
          /\ host[g] = "none" => auth[g] = "none" /\ g \notin runtimes

\* A key that is used, or about to be, is the one in the file.
KeyIsInFile ==
    \A u \in User \ lost :
        /\ \A k \in used[u] : k = keyFile[u]
        /\ \A g \in Generation : owner[g] = u /\ key[g] # None => key[g] = keyFile[u]

\* The thread and the host take turns; late says that the request was read.
Turns(g) ==
    LET late == auth[g] \in {"respond", "bootstrap", "ack", "done"}
    IN  /\ auth[g] \in {"none", "connect", "identify", "request", "respond"} =>
              toHost[g] = << >> /\ host[g] \in {"none", "started", "opened", "requested", "exited"}
        /\ auth[g] = "request" => client[g] = "host"
        /\ late \/ toHost[g] # << >> => client[g] = "host" /\ version[g] = ServiceVersion
        /\ late => host[g] \notin {"none", "started", "opened"}
        /\ client[g] = None => toService[g] = << >>
        /\ host[g] \in {"none", "started"} => client[g] # "host"
        /\ ClientOpen(g) => client[g] = "host"
        /\ host[g] = "opened" => toService[g] = << >>
        /\ client[g] = "host" /\ auth[g] \in {"connect", "identify", "request"} =>
              toService[g] \in {<< >>, <<version[g]>>}
        /\ late => \/ toService[g] = << >> /\ auth[g] # "done"
                   \/ toService[g] = <<letter[g]>> /\ host[g] \in {"serving", "exited"}

\* A host has the letter its volume is on, and its actor has it too.
LetterIsHeld ==
    /\ \A g \in Generation :
          /\ host[g] \in {"chosen", "mounted", "serving"} => letter[g] \in Letter
          /\ host[g] \in {"mounted", "serving"} => volumes[letter[g]] = g
    /\ \A u \in User : actors[u] # None /\ actors[u].state = "Mounted" =>
          /\ actors[u].generation \in Generation
          /\ host[actors[u].generation] \in {"serving", "exited"}
          /\ actors[u].letter = letter[actors[u].generation]
    /\ \A g \in runtimes : host[g] \in {"serving", "exited"}

\* The types the proofs need.
Typed ==
    /\ keyFile \in [User -> Generation \cup {None, Torn}] /\ cached \subseteq User
    /\ logon \in Generation \cup {None} /\ step \in {"idle", "key", "launch", "wait"}
    /\ runtimes \subseteq Generation /\ DOMAIN actors = User
    /\ owner \in [Generation -> User \cup {None}]
    /\ key \in [Generation -> Generation \cup {None}]
    /\ client \in [Generation -> {None, "host", "other"}]
    /\ version \in [Generation -> Version \cup {None}]
    /\ auth \in [Generation -> AuthStep \cup {"none", "done", "ended"}]
    /\ toHost \in [Generation -> Seq({"accepted", "bootstrap"})]
    /\ DOMAIN toService = Generation
    /\ host \in [Generation -> HostStep \cup {"none", "exited"}]
    /\ letter \in [Generation -> Letter \cup {None}]
    /\ volumes \in [Letter -> Generation \cup {Other, None}]
    /\ used \in [User -> SUBSET Generation]
    /\ lost \subseteq User

\* The invariant the proofs carry.
Inv == Typed /\ LogonIsUnderWay /\ KeyIsInFile /\ (\A g \in Generation : Turns(g)) /\ LetterIsHeld
=============================================================================
