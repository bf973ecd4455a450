------------------------------- MODULE Server -------------------------------
(***************************************************************************)
(* The management server (crates/dlp-server/src): its start                *)
(* (lib.rs run_server and main.rs), the loop that accepts TLS connections  *)
(* and turns a peer certificate into an identity (tls.rs), the checks of   *)
(* the routes before and in their handlers (routes.rs, repository.rs), and *)
(* the two directory controllers an enrollment asks one after the other    *)
(* (ad.rs, enrollment.rs).  Operators change the environment, the          *)
(* directory and the credentials while all this goes on.                   *)
(*                                                                         *)
(* Enrollment has the tokens and what a transaction does to the tables; of *)
(* that only the credentials are kept here, those of one device.  Every    *)
(* query is a step, and a request may meet a database that does not        *)
(* answer.                                                                 *)
(***************************************************************************)
EXTENDS Naturals, Sequences

CONSTANTS
    Conn,       \* the TCP connections of clients, each made once
    MaxSerial,  \* bound on the credentials issued
    MaxSchema,  \* bound on the migrations a binary may know
    MaxChange,  \* bound on the changes to the directory
    None        \* no certificate, peer, request, answer or connection

Serial == 1 .. MaxSerial
Schema == 1 .. MaxSchema
Controller == {"primary", "secondary"}

\* What a client may show: a leaf of the administrator or the device CA, of a
\* CA below one of them, or of a CA the server does not trust.  A leaf is
\* suitable when it has what its role asks for: for a device, the key usages
\* and the device's URI; for an administrator, a subject.
Certificate ==
    [issuer : {"device"}, suitable : BOOLEAN, serial : Serial]
    \cup [issuer : {"administrator", "below", "untrusted"}, suitable : BOOLEAN, serial : {None}]
Peer == [role : {"administrator", "device"}, serial : Serial \cup {None}]

\* A controller's record of the computer: one of two enabled accounts, or none.
Record == {"first", "second", "none"}
Unavailable == "unavailable"

ASSUME ServerAssumption ==
    /\ MaxSerial \in Nat /\ MaxSchema \in Nat \ {0} /\ MaxChange \in Nat
    /\ None \notin Nat /\ None \notin Conn /\ None \notin Record

Route == {"enrollment", "provisioning", "configuration", "health"}
RequestStep == {"middleware", "authorize", "handler", "effect", "connect", "bind", "search"}
Request == [route : Route, step : RequestStep, asking : Controller, primary : Record \cup {Unavailable, None},
            secondary : Record \cup {Unavailable, None}, active : BOOLEAN, held : SUBSET (Controller \X Record)]

VARIABLES
    \* the environment and the database
    settings,    \* every setting the server needs is in the environment, and the
                 \* files it names are there
    readable,    \* the PEM files have what they should
    ledger,      \* how many migrations have been applied
    status,      \* device_route_credentials: the status of each serial
    directory,   \* each controller's record of the computer
    changes,     \* how often it was changed
    \* the process
    step,        \* of run_server: "down", "validate", ..., "serving"
    binary,      \* how many migrations this binary has
    backlog,     \* connections the listener has not accepted
    acceptor,    \* the connection whose handshake accept waits for
    conn,        \* "new", "waiting", "open" or "closed"
    certificate, \* what the client of each connection shows
    peer,        \* TlsConnectionInfo of an open connection
    request      \* the request in progress on it

environment == <<settings, readable, ledger, status, directory, changes>>
vars == <<settings, readable, ledger, status, directory, changes,
          step, binary, backlog, acceptor, conn, certificate, peer, request>>

Init ==
    /\ settings \in BOOLEAN /\ readable \in BOOLEAN
    /\ ledger = 0
    /\ status = [s \in Serial |-> "none"]
    /\ directory = [d \in Controller |-> "first"]
    /\ changes = 0
    /\ step = "down"
    /\ binary = 1
    /\ backlog = << >>
    /\ acceptor = None
    /\ conn = [c \in Conn |-> "new"]
    /\ certificate = [c \in Conn |-> None]
    /\ peer = [c \in Conn |-> None]
    /\ request = [c \in Conn |-> None]

-----------------------------------------------------------------------------
(* Operators and the directory.                                            *)

\* The environment of the next process is put in order or spoilt; the files
\* may change until they have been read.
Reconfigure ==
    /\ step # "serving"
    /\ settings' \in IF step = "down" THEN BOOLEAN ELSE {settings}
    /\ readable' \in BOOLEAN
    /\ UNCHANGED <<ledger, status, directory, changes, step, binary, backlog, acceptor, conn, certificate,
                   peer, request>>

\* The history of a request: the records there were while it lasted.
Holding(d, r) ==
    [c \in Conn |-> IF request[c] # None /\ request[c].route = "enrollment"
                    THEN [request[c] EXCEPT !.held = @ \cup {<<d, r>>}]
                    ELSE request[c]]

\* An account is made, disabled or removed, on one controller before the other.
ChangeDirectory(d, r) ==
    /\ changes < MaxChange /\ directory[d] # r
    /\ changes' = changes + 1
    /\ directory' = [directory EXCEPT ![d] = r]
    /\ request' = Holding(d, r)
    /\ UNCHANGED <<settings, readable, ledger, status, step, binary, backlog, acceptor, conn, certificate,
                   peer>>

\* The one-shot migration service, or another server, has migrated.
MigrateElsewhere(b) ==
    /\ ledger < b
    /\ ledger' \in ledger + 1 .. b
    /\ UNCHANGED <<settings, readable, status, directory, changes, step, binary, backlog, acceptor, conn,
                   certificate, peer, request>>

-----------------------------------------------------------------------------
(* main and run_server.                                                    *)

\* The process ends, and its connections with it.
Down ==
    /\ step' = "down"
    /\ backlog' = << >>
    /\ acceptor' = None
    /\ conn' = [c \in Conn |-> IF conn[c] = "new" THEN "new" ELSE "closed"]
    /\ certificate' = [c \in Conn |-> None]
    /\ peer' = [c \in Conn |-> None]
    /\ request' = [c \in Conn |-> None]
    /\ UNCHANGED binary

StepGoes(from, to) ==
    /\ step = from
    /\ step' = to
    /\ UNCHANGED <<backlog, acceptor, conn, certificate, peer, request>>

Start(b) ==
    /\ StepGoes("down", "validate")
    /\ binary' = b
    /\ UNCHANGED environment

\* Mutant: the providers are validated when they are first needed.
ValidateLater ==
    /\ StepGoes("validate", "migrate")
    /\ UNCHANGED <<environment, binary>>

\* ProductionProviders::from_environment and ServerState::production; of the
\* TLS files it checks that they are files, not what is in them.
Validate ==
    /\ settings
    /\ StepGoes("validate", "migrate")
    /\ UNCHANGED <<environment, binary>>

\* The database is connected, and MIGRATOR.run applies what is missing; it
\* refuses a ledger it does not know.
Migrate ==
    /\ ledger <= binary
    /\ ledger' = binary
    /\ StepGoes("migrate", "bind")
    /\ UNCHANGED <<settings, readable, status, directory, changes, binary>>

\* The listener is bound: clients may connect, and wait.
Bind ==
    /\ StepGoes("bind", "tls")
    /\ UNCHANGED <<environment, binary>>

\* TlsPaths::from_environment, server_config and identity_roots.
LoadTls ==
    /\ readable
    /\ StepGoes("tls", "serving")
    /\ UNCHANGED <<environment, binary>>

\* Something is missing, the database or the address is not to be had, some
\* migrations are applied and one is not, or the process is ended.
Fail ==
    /\ step # "down"
    /\ ledger' \in IF step = "migrate" /\ ledger < binary THEN ledger .. binary ELSE {ledger}
    /\ Down
    /\ UNCHANGED <<settings, readable, status, directory, changes>>

-----------------------------------------------------------------------------
(* RustlsListener.                                                         *)

\* A client connects to the bound address.
Connect(c, cert) ==
    /\ step \in {"tls", "serving"} /\ conn[c] = "new"
    /\ cert # None /\ cert.serial # None => status[cert.serial] # "none"
    /\ conn' = [conn EXCEPT ![c] = "waiting"]
    /\ certificate' = [certificate EXCEPT ![c] = cert]
    /\ backlog' = Append(backlog, c)
    /\ UNCHANGED <<environment, step, binary, acceptor, peer, request>>

\* Mutant: a connection is served before the next is taken.
AcceptOneAtATime ==
    /\ step = "serving" /\ acceptor = None /\ backlog # << >> /\ \A c \in Conn : conn[c] # "open"
    /\ acceptor' = Head(backlog)
    /\ backlog' = Tail(backlog)
    /\ UNCHANGED <<environment, step, binary, conn, certificate, peer, request>>

\* accept takes the next connection and starts its handshake; while that
\* lasts, no other is taken.
Accept ==
    /\ step = "serving" /\ acceptor = None /\ backlog # << >>
    /\ acceptor' = Head(backlog)
    /\ backlog' = Tail(backlog)
    /\ UNCHANGED <<environment, step, binary, conn, certificate, peer, request>>

\* WebPkiClientVerifier: no certificate, or one under a trusted CA.
Verified(cert) == cert # None => cert.issuer # "untrusted"

\* IdentityRoots::peer_identity; None when it refuses the leaf.
PeerIdentity(cert) ==
    IF cert.issuer \in {"administrator", "device"} /\ cert.suitable
    THEN [role |-> cert.issuer, serial |-> cert.serial]
    ELSE None

\* The handshake ends: the connection is handed on with its identity, or
\* without one when no certificate was shown, or dropped.
Handshake ==
    /\ acceptor # None
    /\ acceptor' = None
    /\ LET cert == certificate[acceptor]
           admitted == Verified(cert) /\ (cert # None => PeerIdentity(cert) # None)
       IN  \/ /\ admitted
              /\ conn' = [conn EXCEPT ![acceptor] = "open"]
              /\ peer' = [peer EXCEPT ![acceptor] = IF cert = None THEN None ELSE PeerIdentity(cert)]
              /\ UNCHANGED certificate
           \/ /\ conn' = [conn EXCEPT ![acceptor] = "closed"]
              /\ certificate' = [certificate EXCEPT ![acceptor] = None]
              /\ UNCHANGED peer
    /\ UNCHANGED <<environment, step, binary, backlog, request>>

\* A client hangs up.
Disconnect(c) ==
    /\ conn[c] = "open"
    /\ conn' = [conn EXCEPT ![c] = "closed"]
    /\ certificate' = [certificate EXCEPT ![c] = None]
    /\ peer' = [peer EXCEPT ![c] = None]
    /\ request' = [request EXCEPT ![c] = None]
    /\ UNCHANGED <<environment, step, binary, backlog, acceptor>>

-----------------------------------------------------------------------------
(* The routes.                                                             *)

IsActive(c) == peer[c] # None /\ peer[c].serial # None /\ status[peer[c].serial] = "active"

\* A request arrives on an open connection.
Begin(c, route) ==
    /\ conn[c] = "open" /\ request[c] = None
    /\ request' = [request EXCEPT ![c] =
          [route |-> route, step |-> IF route = "enrollment" THEN "connect" ELSE "middleware", asking |-> "primary",
           primary |-> None, secondary |-> None, active |-> IsActive(c),
           held |-> {<<d, directory[d]>> : d \in IF route = "enrollment" THEN Controller ELSE {}}]]
    /\ UNCHANGED <<environment, step, binary, backlog, acceptor, conn, certificate, peer>>

RequestGoes(c, from, to) ==
    /\ request[c] # None /\ request[c].step = from
    /\ request' = [request EXCEPT ![c].step = to]
    /\ UNCHANGED <<environment, step, binary, backlog, acceptor, conn, certificate, peer>>

\* The request is answered with an error: it is not authorized, its body is
\* refused, or the database or the directory did not answer.
Refuse(c) ==
    /\ request[c] # None /\ request[c].step \notin {"connect", "bind", "search"}
    /\ request' = [request EXCEPT ![c] = None]
    /\ UNCHANGED <<environment, step, binary, backlog, acceptor, conn, certificate, peer>>

\* require_administrator and AuthenticatedAdmin::from_peer.
RequireAdministrator(c) ==
    /\ request[c] # None /\ request[c].route = "provisioning"
    /\ peer[c] # None /\ peer[c].role = "administrator"
    /\ RequestGoes(c, "middleware", "effect")

\* Mutant: the status of the credential is the one the connection began with.
CredentialStatusOfConnection(c) == IF conn[c] = "open" THEN "active" ELSE "expired"

\* credential_status, when the database answers; a serial without a row has
\* expired.
CredentialStatus(c) ==
    IF peer[c].serial # None /\ status[peer[c].serial] # "none" THEN status[peer[c].serial] ELSE "expired"

\* require_active_device: the status is queried for AuthenticatedDevice ...
RequireActiveDevice(c) ==
    /\ request[c] # None /\ request[c].route \in {"configuration", "health"}
    /\ peer[c] # None /\ peer[c].role = "device" /\ CredentialStatus(c) = "active"
    /\ RequestGoes(c, "middleware", "authorize")

\* ... and again by authorize_device, here ...
AuthorizeDevice(c) ==
    /\ request[c] # None /\ peer[c] # None /\ CredentialStatus(c) = "active"
    /\ RequestGoes(c, "authorize", "handler")

\* ... and in signed_configuration_for and record_health_for.
AuthorizeInHandler(c) ==
    /\ request[c] # None /\ peer[c] # None /\ CredentialStatus(c) = "active"
    /\ RequestGoes(c, "handler", "effect")

\* A request has its effect, and ends.
Effect(c) ==
    /\ request[c] # None
    /\ request' = [request EXCEPT ![c] = None]
    /\ UNCHANGED <<settings, readable, ledger, directory, changes,
                   step, binary, backlog, acceptor, conn, certificate, peer>>

\* The configuration is read or made, or the report is inserted.
ServeDevice(c) ==
    /\ request[c] # None /\ request[c].route \in {"configuration", "health"} /\ request[c].step = "effect"
    /\ Effect(c)
    /\ UNCHANGED status

Revoking == [s \in Serial |-> IF status[s] = "active" THEN "revoked" ELSE status[s]]

\* provision: with recovery, the active credential is revoked.
Provision(c) ==
    /\ request[c] # None /\ request[c].route = "provisioning" /\ request[c].step = "effect"
    /\ Effect(c)
    /\ status' \in {status, Revoking}

-----------------------------------------------------------------------------
(* EnrollmentService::enroll.                                              *)

\* query_dc: the controller is connected ...
ConnectController(c) == RequestGoes(c, "connect", "bind")

\* ... and simple_bind is answered.
BindAnswers(c) == RequestGoes(c, "bind", "search")

\* The controller asked has answered with r; the secondary is asked whatever
\* the primary said, and after it the transaction.
Answers(c, r) ==
    /\ request' = [request EXCEPT ![c] =
          IF @.asking = "primary" THEN [@ EXCEPT !.primary = r, !.asking = "secondary", !.step = "connect"]
          ELSE [@ EXCEPT !.secondary = r, !.step = "effect"]]
    /\ UNCHANGED <<environment, step, binary, backlog, acceptor, conn, certificate, peer>>

\* The bind fails.
BindFails(c) ==
    /\ request[c] # None /\ request[c].step = "bind"
    /\ Answers(c, Unavailable)

\* The search gives the record of the computer.
SearchAnswers(c) ==
    /\ request[c] # None /\ request[c].step = "search"
    /\ Answers(c, directory[request[c].asking])

\* The connection or the search fails, or takes too long.
QueryFails(c) ==
    /\ request[c] # None /\ request[c].step \in {"connect", "search"}
    /\ Answers(c, Unavailable)

\* Mutant: the primary alone decides.
CorroboratePrimary(r) == r.primary \in {"first", "second"}

\* corroborate: both are enabled and the same account.
Corroborate(r) == r.primary \in {"first", "second"} /\ r.secondary = r.primary

\* consume_and_activate, when the token, the serial and the CSR are accepted:
\* the new credential takes the place of the active one.
Enroll(c) ==
    /\ request[c] # None /\ request[c].route = "enrollment" /\ request[c].step = "effect"
    /\ Corroborate(request[c])
    /\ Effect(c)
    /\ \E s \in Serial :
          /\ status[s] = "none" /\ \A e \in Serial : e < s => status[e] # "none"
          /\ status' = [Revoking EXCEPT ![s] = "active"]

RequestStepOf(c) ==
    \/ Refuse(c) \/ RequireAdministrator(c) \/ RequireActiveDevice(c) \/ AuthorizeDevice(c)
    \/ AuthorizeInHandler(c) \/ ServeDevice(c) \/ Provision(c) \/ Enroll(c)
    \/ ConnectController(c) \/ SearchAnswers(c) \/ QueryFails(c)

Next ==
    \/ Reconfigure
    \/ \E d \in Controller, r \in Record : ChangeDirectory(d, r)
    \/ \E b \in Schema : MigrateElsewhere(b) \/ Start(b)
    \/ Validate \/ Migrate \/ Bind \/ LoadTls \/ Fail
    \/ \E c \in Conn, cert \in Certificate \cup {None} : Connect(c, cert)
    \/ Accept \/ Handshake
    \/ \E c \in Conn :
          \/ Disconnect(c) \/ RequestStepOf(c) \/ BindAnswers(c) \/ BindFails(c)
          \/ \E route \in Route : Begin(c, route)

\* The accept loop and the tasks of the connections go on; a query of the
\* database has an end, and so have a connection to a controller and a search.
\* Nothing limits a handshake or a bind, and nobody has to start the server or
\* ask it for anything.
Spec ==
    /\ Init
    /\ [][Next]_vars
    /\ WF_vars(Validate \/ Migrate \/ Bind \/ LoadTls \/ (step # "serving" /\ Fail))
    /\ WF_vars(Accept)
    /\ \A c \in Conn : WF_vars(RequestStepOf(c))

-----------------------------------------------------------------------------
(* Properties.                                                             *)

\* Every variable has its type, and what is queued is waiting.
TypeOK ==
    /\ settings \in BOOLEAN /\ readable \in BOOLEAN
    /\ ledger \in 0 .. MaxSchema
    /\ status \in [Serial -> {"none", "active", "revoked"}]
    /\ directory \in [Controller -> Record]
    /\ changes \in 0 .. MaxChange
    /\ step \in {"down", "validate", "migrate", "bind", "tls", "serving"}
    /\ binary \in Schema
    /\ backlog \in Seq(Conn)
    /\ acceptor \in Conn \cup {None}
    /\ conn \in [Conn -> {"new", "waiting", "open", "closed"}]
    /\ certificate \in [Conn -> Certificate \cup {None}]
    /\ peer \in [Conn -> Peer \cup {None}]
    /\ request \in [Conn -> Request \cup {None}]
    /\ \A c \in Conn :
          /\ conn[c] = "waiting" <=> acceptor = c \/ \E i \in DOMAIN backlog : backlog[i] = c
          /\ request[c] # None => conn[c] = "open"

\* "any missing secret, directory endpoint, PostgreSQL URL, issuer, signer,
\* clock, or TLS path fails before migrations or listener binding" and
\* "Applies the embedded, forward-only SQLx ledger before any listener is
\* bound": whatever fails, is changed or migrated elsewhere meanwhile.
StartFailsClosed ==
    /\ step \in {"migrate", "bind", "tls", "serving"} => settings
    /\ step \in {"tls", "serving"} \/ backlog # << >> => ledger >= binary
    /\ \A c \in Conn : conn[c] = "open" => step = "serving"

\* "route-level role and active-credential checks remain mandatory before
\* handlers run": a device that is served shows a leaf of the device CA whose
\* credential was active when the request came, however long the connection
\* has been open and whatever is revoked meanwhile; only a leaf that the
\* administrator CA issued itself provisions.
EffectIsAuthorized ==
    \A c \in Conn : request[c] # None /\ request[c].step = "effect" =>
        /\ request[c].route = "provisioning" =>
              certificate[c] # None /\ certificate[c].issuer = "administrator"
        /\ request[c].route \in {"configuration", "health"} =>
              certificate[c] # None /\ certificate[c].issuer = "device" /\ request[c].active

\* "returns a single verified identity only when both enabled results agree":
\* a credential is issued only if both controllers had the computer enabled,
\* under the same account, at some time during the request.
IssuedWasCorroborated ==
    [][\A c \in Conn : Enroll(c) =>
          \E r \in {"first", "second"} : \A d \in Controller : <<d, r>> \in request[c].held]_vars

InBacklog(c) == \E i \in DOMAIN backlog : backlog[i] = c

\* As long as every handshake comes to an end, a client that has connected is
\* taken, in its turn, or the server ends.
ClientsAreTaken ==
    []<>(acceptor = None) => \A c \in Conn : InBacklog(c) ~> ~InBacklog(c)

\* What an open connection knows of its client is what the client showed, and
\* a credential that was shown has been issued.
PeerWasShown(c) ==
    /\ conn[c] # "open" => peer[c] = None
    /\ peer[c] # None =>
          certificate[c] # None /\ certificate[c].issuer = peer[c].role /\ certificate[c].serial = peer[c].serial
    /\ certificate[c] # None /\ certificate[c].serial # None => status[certificate[c].serial] # "none"

\* What a request has passed.
RequestHasPassed(c) ==
    request[c] # None =>
        /\ request[c].step \in {"authorize", "handler"} => request[c].route \in {"configuration", "health"}
        /\ request[c].step \in {"connect", "bind", "search"} => request[c].route = "enrollment"
        /\ request[c].route = "provisioning" /\ request[c].step = "effect" =>
              peer[c] # None /\ peer[c].role = "administrator"
        /\ request[c].route \in {"configuration", "health"} /\ request[c].step # "middleware" =>
              peer[c] # None /\ peer[c].role = "device" /\ request[c].active
        /\ IsActive(c) => request[c].active

\* The records an enrollment was told are records there were.
AnswersWereHeld(c) ==
    request[c] # None /\ request[c].route = "enrollment" =>
        /\ \A d \in Controller : <<d, directory[d]>> \in request[c].held
        /\ request[c].primary \in Record => <<"primary", request[c].primary>> \in request[c].held
        /\ request[c].secondary \in Record => <<"secondary", request[c].secondary>> \in request[c].held

\* The invariant the proofs carry.
Inv ==
    /\ TypeOK
    /\ StartFailsClosed
    /\ step = "bind" => ledger >= binary
    /\ acceptor # None => step = "serving"
    /\ backlog # << >> => step \in {"tls", "serving"}
    /\ \A i, j \in DOMAIN backlog : backlog[i] = backlog[j] => i = j
    /\ \A i \in DOMAIN backlog : backlog[i] # acceptor
    /\ \A c \in Conn : PeerWasShown(c) /\ RequestHasPassed(c) /\ AnswersWereHeld(c)

(* What the repository says and the code does not do.                      *)

\* "queries two configured DCs over TLS with a custom CA, simple bind, and
\* bounded timeouts": an enrollment is answered.
EnrollmentIsAnswered ==
    \A c \in Conn :
        (request[c] # None /\ request[c].route = "enrollment") ~> (request[c] = None)
=============================================================================
