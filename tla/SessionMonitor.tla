--------------------------- MODULE SessionMonitor ---------------------------
(***************************************************************************)
(* The life of the drive hosts (crates/dlp-windows-service/src/session.rs, *)
(* service.rs and pipe.rs, crates/dlp-windows-drive/src/bin/               *)
(* dlp-drive-host.rs): the session thread, which owns the SessionMonitor   *)
(* and takes one event at a time, the thread that authenticates a launched *)
(* host over its pipe, the hosts themselves, and Windows, which signs      *)
(* users in and out and starts and stops the service.                      *)
(*                                                                         *)
(* A generation stands for the actor, the pipe and the host process that   *)
(* session_logon makes together; pipe names and process identifiers are    *)
(* never used twice, so neither are generations here.                      *)
(***************************************************************************)
EXTENDS Naturals, Sequences, FiniteSets

CONSTANTS
    Session,        \* Windows session identifiers
    User,           \* user SIDs; a user's store is derived from the SID
    MaxGeneration,  \* bound on the hosts launched
    MaxEvents,      \* bound on the events from outside
    None            \* no user, actor or handshake

Generation == 1 .. MaxGeneration
Key == Session \X User
MountState == {"Mounted", "Draining", "Stopped", "Failed"}
MountActor ==
    [generation : Generation, state : MountState, rejectNewOpens : BOOLEAN, diagnostic : BOOLEAN]
Logon(s) == [kind |-> "Logon", session |-> s]
Logoff(s) == [kind |-> "Logoff", session |-> s]
Stop == [kind |-> "Stop"]

ASSUME SessionAssumption ==
    /\ MaxGeneration \in Nat /\ MaxEvents \in Nat /\ IsFiniteSet(Session)
    /\ None \notin User /\ None \notin MountActor /\ None \notin Generation

VARIABLES
    users,       \* who is signed in to each session
    events,      \* how many events came from outside
    phase,       \* the service process: "running", "stopping" or "down"
    queue,       \* session_rx
    actors,      \* SessionMonitor::actors
    runtimes,    \* the generations in SessionMonitor::runtimes
    logon,       \* the generation whose handshake session_logon waits for
    relaunch,    \* what is left of check_host_health's to_relaunch
    logged,      \* the generations started with this process's host log
    hosts,       \* the host process of each generation
    owner,       \* the session and user it was launched for
    auth         \* the thread in accept_and_authenticate, and its result

service == <<phase, queue, actors, runtimes, logon, relaunch, logged>>
vars == <<users, events, phase, queue, actors, runtimes, logon, relaunch, logged, hosts, owner, auth>>

Init ==
    /\ users = [s \in Session |-> None]
    /\ events = 0
    /\ phase = "down"
    /\ queue = << >>
    /\ actors = [k \in Key |-> None]
    /\ runtimes = {}
    /\ logon = None
    /\ relaunch = {}
    /\ logged = {}
    /\ hosts = [g \in Generation |-> "none"]
    /\ owner = [g \in Generation |-> None]
    /\ auth = [g \in Generation |-> "none"]

Alive(g) == hosts[g] \notin {"none", "exited"}

\* The service's end of the pipe is open: the authenticating thread has it,
\* its result is on the way to session_logon, or it is in runtimes.
Held(g) == auth[g] \in {"connecting", "talking", "ok"} \/ g \in runtimes

ActorsOf(g) == {k \in Key : actors[k] # None /\ actors[k].generation = g}

-----------------------------------------------------------------------------
(* Windows.                                                                *)

\* An event from outside, which the service gets while it runs.
Notify(e) ==
    /\ events < MaxEvents
    /\ events' = events + 1
    /\ queue' = IF phase = "running" THEN Append(queue, e) ELSE queue

SignIn(s, u) ==
    /\ users[s] = None
    /\ users' = [users EXCEPT ![s] = u]
    /\ Notify(Logon(s))
    /\ UNCHANGED <<phase, actors, runtimes, logon, relaunch, logged, hosts, owner, auth>>

SignOut(s) ==
    /\ users[s] # None
    /\ users' = [users EXCEPT ![s] = None]
    /\ Notify(Logoff(s))
    /\ UNCHANGED <<phase, actors, runtimes, logon, relaunch, logged, hosts, owner, auth>>

\* The control handler is registered before the active sessions are listed,
\* so a sign-in may be reported twice.
SignInAgain(s) ==
    /\ phase = "running" /\ users[s] # None
    /\ Notify(Logon(s))
    /\ UNCHANGED <<users, phase, actors, runtimes, logon, relaunch, logged, hosts, owner, auth>>

RequestStop ==
    /\ phase = "running"
    /\ Notify(Stop)
    /\ UNCHANGED <<users, phase, actors, runtimes, logon, relaunch, logged, hosts, owner, auth>>

\* What active_session_ids may list, in any order: it leaves out disconnected
\* sessions, and all of them when Windows does not enumerate them.
ActiveSessions ==
    LET signedIn == {s \in Session : users[s] # None}
    IN  {list \in UNION {[1 .. n -> signedIn] : n \in 0 .. Cardinality(signedIn)} :
            \A i, j \in DOMAIN list : list[i] = list[j] => i = j}

\* The service starts and reconciles the sessions that are active.
ServiceStarts ==
    /\ phase = "down"
    /\ events < MaxEvents
    /\ events' = events + 1
    /\ phase' = "running"
    /\ \E active \in ActiveSessions : queue' = [i \in DOMAIN active |-> Logon(active[i])]
    /\ UNCHANGED <<users, actors, runtimes, logon, relaunch, logged, hosts, owner, auth>>

\* The service process is gone, and its ends of all pipes with it.
Down ==
    /\ phase' = "down"
    /\ queue' = << >>
    /\ actors' = [k \in Key |-> None]
    /\ runtimes' = {}
    /\ logon' = None
    /\ relaunch' = {}
    /\ logged' = {}
    /\ auth' = [g \in Generation |-> IF auth[g] = "none" THEN "none" ELSE "closed"]

\* ... and the hosts do not know yet.
Ends ==
    /\ Down
    /\ UNCHANGED <<users, hosts, owner>>

ServiceCrashes ==
    /\ phase # "down"
    /\ events < MaxEvents
    /\ events' = events + 1
    /\ Ends

-----------------------------------------------------------------------------
(* The session thread.                                                     *)

Idle == phase = "running" /\ logon = None /\ relaunch = {}

\* Mutant: every host has a log of its own.
LogPerHost == TRUE

\* The host log is named after the service process and opened for writing
\* with FILE_SHARE_READ alone; a host keeps the handle it inherits.
LogIsFree == \A g \in logged : ~Alive(g)

\* The pipe is offered and the host launched with the user's token.
Launch(g, k) ==
    /\ LogIsFree
    /\ logged' = logged \cup {g}
    /\ hosts[g] = "none" /\ \A e \in Generation : e < g => hosts[e] # "none"
    /\ logon' = g
    /\ hosts' = [hosts EXCEPT ![g] = "launched"]
    /\ owner' = [owner EXCEPT ![g] = k]
    /\ auth' = [auth EXCEPT ![g] = "connecting"]

\* session_logon up to its recv_timeout.  Nothing happens without a token or
\* for an actor that exists, and nothing is kept when the pipe, the key or
\* the launch fails.
SessionLogon(s, existing) ==
    \/ /\ actors' = existing
       /\ logon' = None
       /\ UNCHANGED <<logged, hosts, owner, auth>>
    \/ \E g \in Generation :
          /\ users[s] # None
          /\ existing[<<s, users[s]>>] = None
          /\ actors' = existing
          /\ Launch(g, <<s, users[s]>>)

\* session_logon with the actors as they are.
LogsOn(s) ==
    /\ phase = "running"
    /\ SessionLogon(s, actors)
    /\ UNCHANGED <<users, events, phase, runtimes, relaunch>>

HandleLogon ==
    /\ Idle /\ queue # << >> /\ Head(queue).kind = "Logon"
    /\ queue' = Tail(queue)
    /\ LogsOn(Head(queue).session)

\* The rest of session_logon: the handshake's result, or 30 seconds without.
FinishLogon(state) ==
    LET g == logon
    IN  /\ actors' = [actors EXCEPT ![owner[g]] =
                          [generation |-> g, state |-> state, rejectNewOpens |-> FALSE,
                           diagnostic |-> state = "Failed"]]
        /\ logon' = None
        /\ UNCHANGED <<users, events, phase, queue, relaunch, logged, owner>>

HandshakeSucceeds ==
    /\ phase = "running" /\ logon # None /\ auth[logon] = "ok"
    /\ FinishLogon("Mounted")
    /\ runtimes' = runtimes \cup {logon}
    /\ auth' = [auth EXCEPT ![logon] = "closed"]
    /\ UNCHANGED hosts

\* The handshake failed, or its result did not come in time.  The error of
\* terminate is ignored, and a thread still in the handshake is left behind.
HandshakeFails ==
    /\ phase = "running" /\ logon # None
    /\ FinishLogon("Failed")
    /\ hosts' \in {hosts, [hosts EXCEPT ![logon] = "exited"]}
    /\ UNCHANGED <<runtimes, auth>>

\* session_logoff
HandleLogoff ==
    /\ Idle /\ queue # << >> /\ Head(queue).kind = "Logoff"
    /\ queue' = Tail(queue)
    /\ actors' = [k \in Key |->
          IF actors[k] # None /\ k[1] = Head(queue).session
          THEN [actors[k] EXCEPT !.state = "Draining", !.rejectNewOpens = TRUE]
          ELSE actors[k]]
    /\ UNCHANGED <<users, events, phase, runtimes, logon, relaunch, logged, hosts, owner, auth>>

\* The loop ends and stop_all closes the pipes.
HandleStop ==
    /\ Idle /\ queue # << >> /\ Head(queue).kind = "Stop"
    /\ phase' = "stopping"
    /\ queue' = << >>
    /\ actors' = [k \in Key |->
          IF actors[k] # None
          THEN [actors[k] EXCEPT !.state = "Stopped", !.rejectNewOpens = TRUE]
          ELSE None]
    /\ runtimes' = {}
    /\ UNCHANGED <<users, events, logon, relaunch, logged, hosts, owner, auth>>

\* stop_all has waited for the hosts, 10 seconds for each at most.
ServiceEnds ==
    /\ phase = "stopping"
    /\ Ends
    /\ UNCHANGED events

\* Mutant: the actors that drain are looked at instead of the others.
LostDraining ==
    {g \in runtimes : hosts[g] = "exited" /\ \E k \in ActorsOf(g) : actors[k].rejectNewOpens}

\* What check_host_health puts into to_relaunch.
Lost == {g \in runtimes : hosts[g] = "exited" /\ \E k \in ActorsOf(g) : ~actors[k].rejectNewOpens}

\* check_host_health, when no event came for 2 seconds.
CheckHostHealth ==
    /\ Idle /\ queue = << >>
    /\ Lost # {}
    /\ relaunch' = Lost
    /\ UNCHANGED <<users, events, phase, queue, actors, runtimes, logon, logged, hosts, owner, auth>>

\* Mutant: the runtime of the host that exited is kept.
RelaunchKeepsRuntime(g) ==
    /\ phase = "running" /\ logon = None /\ g \in relaunch
    /\ relaunch' = relaunch \ {g}
    /\ SessionLogon(owner[g][1], [k \in Key |-> IF k \in ActorsOf(g) THEN None ELSE actors[k]])
    /\ UNCHANGED <<users, events, phase, queue, runtimes>>

\* One turn of its second loop, up to the recv_timeout.
Relaunch(g) ==
    /\ phase = "running" /\ logon = None /\ g \in relaunch
    /\ relaunch' = relaunch \ {g}
    /\ runtimes' = runtimes \ {g}
    /\ SessionLogon(owner[g][1], [k \in Key |-> IF k \in ActorsOf(g) THEN None ELSE actors[k]])
    /\ UNCHANGED <<users, events, phase, queue>>

SessionThread ==
    \/ HandleLogon \/ HandshakeSucceeds \/ HandshakeFails \/ HandleLogoff \/ HandleStop
    \/ ServiceEnds \/ CheckHostHealth \/ \E g \in Generation : Relaunch(g)

-----------------------------------------------------------------------------
(* The hosts and the threads that authenticate them.                       *)

HostStep(g, from, to) ==
    /\ hosts[g] = from
    /\ hosts' = [hosts EXCEPT ![g] = to]
    /\ UNCHANGED <<users, events, service, owner>>

\* authenticate_to_service opens the pipe that accept_and_authenticate offers.
HostConnects(g) ==
    /\ auth[g] = "connecting"
    /\ auth' = [auth EXCEPT ![g] = "talking"]
    /\ HostStep(g, "launched", "connected")

\* The identity checks pass and the host receives the bootstrap.
AuthAccepts(g) ==
    /\ auth[g] = "talking"
    /\ HostStep(g, "connected", "bootstrapped")
    /\ UNCHANGED auth

\* The host opens the store, finds a drive letter and mounts the volume.
HostMounts(g) ==
    /\ HostStep(g, "bootstrapped", "mounted")
    /\ UNCHANGED auth

\* send_drive_letter_ack; the thread reads it and sends its result.
HostAcknowledges(g) ==
    /\ auth[g] = "talking"
    /\ auth' = [auth EXCEPT ![g] = "ok"]
    /\ HostStep(g, "mounted", "serving")

\* accept_and_authenticate fails and closes the pipe: a check of the connected
\* host fails, or the host is gone.  A host that never connects is waited for.
AuthFails(g) ==
    /\ auth[g] = "talking" /\ hosts[g] \in {"connected", "exited"}
    /\ auth' = [auth EXCEPT ![g] = "closed"]
    /\ UNCHANGED <<users, events, service, hosts, owner>>

\* Another process has opened the pipe, which has one instance.
PipeTaken(g) ==
    /\ auth[g] = "connecting"
    /\ auth' = [auth EXCEPT ![g] = "closed"]
    /\ UNCHANGED <<users, events, service, hosts, owner>>

\* The result has no receiver any more and is dropped, the pipe with it.
ResultDropped(g) ==
    /\ auth[g] = "ok" /\ logon # g
    /\ auth' = [auth EXCEPT ![g] = "closed"]
    /\ UNCHANGED <<users, events, service, hosts, owner>>

\* Mutant: a failed acknowledgement is ignored.
HostLeavesUnlessMounted(g) ==
    /\ Alive(g) /\ ~Held(g) /\ hosts[g] # "mounted"
    /\ HostStep(g, hosts[g], "exited")
    /\ UNCHANGED auth

\* The pipe is closed or cannot be opened: whatever the host was doing, it
\* drops the volume and exits.
HostLeaves(g) ==
    /\ Alive(g) /\ ~Held(g)
    /\ HostStep(g, hosts[g], "exited")
    /\ UNCHANGED auth

\* The host fails on its own account, is killed, or ends with its session.
HostDies(g) ==
    /\ Alive(g)
    /\ HostStep(g, hosts[g], "exited")
    /\ UNCHANGED auth

Next ==
    \/ \E s \in Session, u \in User : SignIn(s, u)
    \/ \E s \in Session : SignOut(s) \/ SignInAgain(s)
    \/ RequestStop \/ ServiceStarts \/ ServiceCrashes
    \/ SessionThread
    \/ \E g \in Generation :
          \/ HostConnects(g) \/ AuthAccepts(g) \/ HostMounts(g) \/ HostAcknowledges(g)
          \/ AuthFails(g) \/ PipeTaken(g) \/ ResultDropped(g) \/ HostLeaves(g) \/ HostDies(g)

\* Both loops of the service wait with a timeout and a host blocked on its
\* pipe is woken when the other end closes, so each thread and process goes
\* on; nothing makes Windows act, or a host fail.
Spec ==
    /\ Init
    /\ [][Next]_vars
    /\ WF_vars(SessionThread)
    /\ \A g \in Generation :
          /\ WF_vars(HostConnects(g)) /\ WF_vars(AuthAccepts(g) \/ AuthFails(g) \/ ResultDropped(g))
          /\ WF_vars(HostMounts(g)) /\ WF_vars(HostAcknowledges(g)) /\ WF_vars(HostLeaves(g))

-----------------------------------------------------------------------------
(* Properties.                                                             *)

\* Every variable has its type.
TypeOK ==
    /\ users \in [Session -> User \cup {None}]
    /\ events \in 0 .. MaxEvents
    /\ phase \in {"running", "stopping", "down"}
    /\ queue \in Seq({Logon(s) : s \in Session} \cup {Logoff(s) : s \in Session} \cup {Stop})
    /\ actors \in [Key -> MountActor \cup {None}]
    /\ runtimes \subseteq Generation
    /\ logon \in Generation \cup {None}
    /\ relaunch \subseteq runtimes
    /\ logged \subseteq Generation
    /\ hosts \in [Generation -> {"none", "launched", "connected", "bootstrapped", "mounted", "serving", "exited"}]
    /\ owner \in [Generation -> Key \cup {None}]
    /\ auth \in [Generation -> {"none", "connecting", "talking", "ok", "closed"}]

\* A store has one writer: of two live hosts of a user, in one session or in
\* two, at least one has lost its pipe and is leaving.  session_logon compares
\* session and user only; that the second session of a user gets no host is
\* due to the host log, which every host of a service process must open.
OneHostPerStore ==
    \A g, e \in Generation :
        g # e /\ Alive(g) /\ Alive(e) /\ owner[g][2] = owner[e][2] => ~Held(g) \/ ~Held(e)

\* actors and runtimes go together: check_host_health, which follows the
\* actors, sees every runtime, and a mounted actor has one.
RuntimesMatchActors ==
    /\ \A g \in runtimes : \E k \in Key : k = owner[g] /\ k \in ActorsOf(g)
    /\ \A k \in Key : actors[k] # None /\ actors[k].state = "Mounted" => actors[k].generation \in runtimes

\* "On pipe EOF or service stop, the control loop exits and the owned volume
\* is dropped": no host outlives the service that launched it for long,
\* wherever the stop or the crash caught it.
HostsFollowService ==
    \A g \in Generation : (phase = "down" /\ Alive(g)) ~> ~Alive(g)

\* check_host_health: the loss of a mounted host is noticed, unless its user
\* signs out or the service stops first.
LossIsNoticed ==
    \A g \in Generation :
        LET lost == g \in runtimes /\ hosts[g] = "exited"
                    /\ \E k \in ActorsOf(g) : actors[k].state = "Mounted"
        IN  lost ~> ~lost

\* The invariant the proofs carry: every end of a pipe that is held belongs to
\* a host of this process's log, of which one at most is alive; a generation
\* without a host has nothing else either; and the actor that session_logon
\* is about to make is not there yet.
Inv ==
    /\ TypeOK
    /\ RuntimesMatchActors
    /\ \A g \in Generation : Held(g) => g \in logged
    /\ \A g, e \in logged : Alive(g) /\ Alive(e) => g = e
    /\ \A g \in Generation : IF hosts[g] = "none" THEN auth[g] = "none" /\ g \notin runtimes ELSE owner[g] \in Key
    /\ logon # None => hosts[logon] # "none" /\ actors[owner[logon]] = None

(* What the repository says and the code does not do.                      *)

\* D-10: "If automatic mounting fails, leave the drive absent, retry
\* automatically": a failed actor does not stay, its user signed in, for ever.
FailedIsRetried ==
    \A k \in Key :
        (actors[k] # None /\ actors[k].state = "Failed" /\ users[k[1]] = k[2]) ~>
            (actors[k] = None \/ actors[k].state # "Failed" \/ users[k[1]] # k[2])

\* D-09: "At sign-out, reject new opens, allow existing handles a short grace
\* period, then unmount and clean up."
DrainEnds ==
    \A k \in Key :
        (actors[k] # None /\ actors[k].state = "Draining") ~>
            (actors[k] = None \/ actors[k].state # "Draining")

\* "Concurrent sessions/users receive distinct actors, pipes, keys, stores,
\* hosts, and mappings": the sign-in of a user without an actor is not handled
\* while the launch is bound to fail because another session has its drive.
SessionsAreIsolated ==
    [][\A s \in Session :
          HandleLogon /\ Head(queue) = Logon(s) /\ users[s] # None /\ actors[<<s, users[s]>>] = None =>
              \A g \in logged \cap runtimes : Alive(g) => owner[g][1] = s]_vars

\* The state drive_state reports for an actor: "mounted" without a diagnostic.
DriveState(k) ==
    IF actors[k] = None THEN "not_mounted" ELSE IF actors[k].diagnostic THEN "diagnostic" ELSE "mounted"

\* drive_state "Contains ... only drive letter and state": what it calls
\* mounted is mounted.
ReportedIsMounted ==
    Idle => \A k \in Key : DriveState(k) = "mounted" => actors[k].state = "Mounted"
=============================================================================
