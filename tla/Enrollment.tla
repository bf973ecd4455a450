----------------------------- MODULE Enrollment -----------------------------
(***************************************************************************)
(* How a device gets and loses its credential: the administrator who       *)
(* provisions it and the PostgreSQL authority row                          *)
(* (crates/dlp-server/src/repository.rs, enrollment.rs, routes.rs), and    *)
(* the agent's start (crates/dlp-agent-core/src/enrollment.rs,             *)
(* crates/dlp-windows-service/src/service.rs and credential.rs), with      *)
(* requests that are answered late, answers that are lost and a service    *)
(* that may end at any step.                                               *)
(*                                                                         *)
(* One device.  A transaction locks the device's authority row FOR UPDATE, *)
(* so it is one step.  Serials are fresh UUIDs and numbered in the order   *)
(* they are issued, tokens likewise; a request is numbered by its attempt. *)
(***************************************************************************)
EXTENDS Naturals, FiniteSets

CONSTANTS
    MaxToken,    \* bound on the tokens provisioned
    MaxSerial,   \* bound on the credentials issued
    MaxAttempt,  \* bound on the enrollment requests of the agent
    None         \* no token, serial, credential or answer

Token == 1 .. MaxToken
Serial == 1 .. MaxSerial
Attempt == 1 .. MaxAttempt

\* What raw_serial reads from the certificate of serial s: an ASN.1 integer,
\* one byte longer than the serial when its first bit is set.
Padded(s) == MaxSerial + s
CertificateSerial == 1 .. 2 * MaxSerial

Request == [attempt : Attempt, token : Token, prior : CertificateSerial \cup {None}]
Answer == [attempt : Attempt, serial : CertificateSerial \cup {None}]

ASSUME EnrollmentAssumption ==
    /\ MaxToken \in Nat /\ MaxSerial \in Nat /\ MaxAttempt \in Nat
    /\ None \notin Nat

VARIABLES
    \* enrollment_authority and device_route_credentials
    token,       \* token_digest: the token last provisioned
    tokenState,  \* "none", "valid", "consumed" or "expired"
    active,      \* active_serial
    routes,      \* credential_status of each serial, "none" without a row
    revoked,     \* revoked_device_credentials
    \* the network
    requests,    \* requests the server has not answered
    answers,     \* answers on their way to the agent
    \* the agent
    given,       \* the enrollment token in the service's environment
    file,        \* device.dpapi: its serial, and whether it can be used
    waiting,     \* the attempt post_enrollment waits for
    received,    \* the serial enroll_fresh has got and not yet saved
    identity,    \* the serial the running service identifies itself with
    attempts,    \* the requests sent so far
    \* history
    issuedFor,   \* the token each serial was issued for
    padded,      \* the serials whose first bit is set
    recovered,   \* the serials an administrator's recovery revoked
    presented    \* the serials the agent named in a request

server == <<token, tokenState, active, routes, revoked>>
agent == <<file, waiting, received, identity, attempts>>
vars == <<token, tokenState, active, routes, revoked, requests, answers,
          given, file, waiting, received, identity, attempts,
          issuedFor, padded, recovered, presented>>

\* device.dpapi, when it exists: it decodes or not, and its ACL is the
\* expected one or not.
Blob == [serial : CertificateSerial, decodes : BOOLEAN, acl : BOOLEAN]

Init ==
    /\ token = None
    /\ tokenState = "none"
    /\ active = None
    /\ routes = [s \in Serial |-> "none"]
    /\ revoked = {}
    /\ requests = {}
    /\ answers = {}
    /\ given = None
    /\ file = None
    /\ waiting = None
    /\ received = None
    /\ identity = None
    /\ attempts = 0
    /\ issuedFor = [s \in Serial |-> None]
    /\ padded = {}
    /\ recovered = {}
    /\ presented = {}

-----------------------------------------------------------------------------
(* The server.                                                             *)

\* Mutant: the row of the old credential is left alone.
RevokingNothing(s) == routes

\* Mutant: the update flips the status of every row of the device.
RevokingToggles(s) ==
    [e \in Serial |-> IF e = s /\ routes[e] = "active" THEN "revoked"
                      ELSE IF routes[e] = "revoked" THEN "active" ELSE routes[e]]

\* device_route_credentials after the credential s was revoked.
Revoking(s) ==
    [e \in Serial |-> IF e = s /\ routes[e] = "active" THEN "revoked" ELSE routes[e]]

\* provision: a new token replaces the old one; a recovery also revokes the
\* active credential.
Provision(recovery) ==
    \E t \in Token :
        /\ t = IF token = None THEN 1 ELSE token + 1
        /\ token' = t
        /\ tokenState' = "valid"
        /\ \/ /\ recovery /\ active # None
              /\ routes' = Revoking(active)
              /\ revoked' = revoked \cup {active}
              /\ recovered' = recovered \cup {active}
              /\ active' = None
           \/ /\ ~recovery \/ active = None
              /\ UNCHANGED <<active, routes, revoked, recovered>>
        /\ UNCHANGED <<requests, answers, given, agent, issuedFor, padded, presented>>

\* The provisioning route, which an administrator calls.
AdminProvisions == \E recovery \in BOOLEAN : Provision(recovery)

\* Ten minutes pass.
TokenExpires ==
    /\ tokenState = "valid"
    /\ tokenState' = "expired"
    /\ UNCHANGED <<token, active, routes, revoked, requests, answers, given, agent,
                   issuedFor, padded, recovered, presented>>

\* Mutant: the credential the agent knows of is not compared.
AcceptsAnyPrior(r) == tokenState = "valid" /\ r.token = token

\* What consume_and_activate asks of a request.
Accepts(r) == tokenState = "valid" /\ r.token = token /\ r.prior = active

\* Mutant: the token is not marked as consumed.
ConsumeKeepsToken == tokenState' = tokenState

Consume == tokenState' = "consumed"

Reply(r, s) ==
    /\ requests' = requests \ {r}
    /\ answers' = answers \cup {[attempt |-> r.attempt, serial |-> s]}

\* enroll and its transaction: the token is consumed, the old credential
\* revoked and the new one activated together, unless a primary key or the
\* index of active rows refuses it.  The caller may be answered with an error
\* although the transaction was committed.
Enroll(r) ==
    \E s \in Serial :
        /\ r \in requests
        /\ Accepts(r)
        /\ issuedFor[s] = None /\ \A e \in Serial : e < s => issuedFor[e] # None
        /\ active \notin revoked /\ \A e \in Serial : Revoking(active)[e] # "active"
        /\ routes' = [Revoking(active) EXCEPT ![s] = "active"]
        /\ revoked' = revoked \cup ({active} \ {None})
        /\ Consume
        /\ active' = s
        /\ issuedFor' = [issuedFor EXCEPT ![s] = r.token]
        /\ \E certificate \in {s, Padded(s)} :
              /\ padded' = padded \cup ({s} \ {certificate})
              /\ Reply(r, certificate) \/ Reply(r, None)
        /\ UNCHANGED <<token, given, agent, recovered, presented>>

\* The directory, the token, the serial or the CSR is not accepted, or the
\* database fails: nothing is changed.
Deny(r) ==
    /\ r \in requests
    /\ Reply(r, None)
    /\ UNCHANGED <<server, given, agent, issuedFor, padded, recovered, presented>>

-----------------------------------------------------------------------------
(* The agent.                                                              *)

\* The administrator puts the current token into the service's environment.
Configure ==
    /\ token # None /\ given # token
    /\ given' = token
    /\ UNCHANGED <<server, requests, answers, agent, issuedFor, padded, recovered, presented>>

Stopped == waiting = None /\ received = None /\ identity = None

\* The blob is there, was protected on this machine and decodes.
Decodes(f) == f # None /\ f.decodes

\* Its ACL grants what enforce_acl gave, and nothing more.
AclIsValid(f) == f.acl

\* The outcomes of a read of device.dpapi, which may fail for a moment.
\* validate_protection does not look at the ACL, load does.
Validates == {FALSE} \cup (IF Decodes(file) THEN {TRUE} ELSE {})
Loads == {None} \cup (IF Decodes(file) /\ AclIsValid(file) THEN {file.serial} ELSE {})

\* ServiceContext::startup.  A credential that validates or loads is used as
\* it is; otherwise a request is sent, with the serial of what load returned.
Start ==
    /\ Stopped
    /\ \/ \* client_with_identity
          /\ TRUE \in Validates \/ (given # None /\ Loads # {None})
          /\ identity' \in Loads
          /\ UNCHANGED <<requests, presented, waiting, attempts>>
       \/ \* post_enrollment
          /\ given # None /\ attempts < MaxAttempt
          /\ \E prior \in Loads :
                /\ requests' = requests \cup {[attempt |-> attempts + 1, token |-> given, prior |-> prior]}
                /\ presented' = presented \cup ({prior} \ {None})
          /\ attempts' = attempts + 1
          /\ waiting' = attempts + 1
          /\ UNCHANGED identity
    /\ UNCHANGED <<server, answers, given, file, received, issuedFor, padded, recovered>>

\* The answer arrives in time; a chain that does not validate is refused.
Receive(a) ==
    /\ a \in answers /\ a.attempt = waiting
    /\ waiting' = None
    /\ received' \in {a.serial, None}
    /\ UNCHANGED <<server, requests, answers, given, file, identity, attempts, issuedFor, padded, recovered, presented>>

\* protect: the blob is renamed into place, and then its ACL set and the file
\* read back, either of which may fail.
Save ==
    /\ received # None
    /\ file' \in {file} \cup [serial : {received}, decodes : {TRUE}, acl : BOOLEAN]
    /\ received' = None
    /\ identity' \in {None} \cup (IF file' # None /\ file'.serial = received /\ file'.acl THEN {received} ELSE {})
    /\ UNCHANGED <<server, requests, answers, given, waiting, attempts, issuedFor, padded, recovered, presented>>

\* 30 seconds pass without an answer, or the service ends.
Stop ==
    /\ ~Stopped
    /\ waiting' = None
    /\ received' = None
    /\ identity' = None
    /\ UNCHANGED <<server, requests, answers, given, file, attempts, issuedFor, padded, recovered, presented>>

\* The file is lost, damaged, or its ACL changed.
Damage ==
    /\ file # None
    /\ file' \in {None, [file EXCEPT !.decodes = FALSE], [file EXCEPT !.acl = FALSE]}
    /\ UNCHANGED <<server, requests, answers, given, waiting, received, identity, attempts,
                   issuedFor, padded, recovered, presented>>

Next ==
    \/ AdminProvisions
    \/ TokenExpires
    \/ \E r \in requests : Enroll(r) \/ Deny(r)
    \/ Configure
    \/ Start
    \/ \E a \in answers : Receive(a)
    \/ Save \/ Stop \/ Damage

Spec == Init /\ [][Next]_vars

-----------------------------------------------------------------------------
(* Properties.                                                             *)

\* Every variable has its type.
TypeOK ==
    /\ token \in Token \cup {None}
    /\ tokenState \in {"none", "valid", "consumed", "expired"}
    /\ active \in Serial \cup {None}
    /\ routes \in [Serial -> {"none", "active", "revoked"}]
    /\ revoked \subseteq Serial
    /\ requests \subseteq Request
    /\ answers \subseteq Answer
    /\ given \in Token \cup {None}
    /\ file \in Blob \cup {None}
    /\ waiting \in Attempt \cup {None}
    /\ received \in CertificateSerial \cup {None}
    /\ identity \in CertificateSerial \cup {None}
    /\ attempts \in 0 .. MaxAttempt
    /\ issuedFor \in [Serial -> Token \cup {None}]
    /\ padded \subseteq Serial
    /\ recovered \subseteq Serial
    /\ presented \subseteq CertificateSerial

\* The authority row and the table the routes consult agree: exactly the
\* active serial is accepted, and what was revoked in one place was revoked
\* in the other.
TablesAgree ==
    /\ \A s \in Serial : routes[s] = "active" <=> active = s
    /\ revoked = {s \in Serial : routes[s] = "revoked"}

\* "Consumes a token exactly once": whatever is retried, delayed or lost, no
\* token buys two credentials.
TokenIssuesOnce ==
    \A s, e \in Serial : issuedFor[s] # None /\ issuedFor[s] = issuedFor[e] => s = e

\* A revoked serial is never accepted again.
RevokedStaysRevoked ==
    [][\A s \in revoked : s \in revoked' /\ routes'[s] # "active"]_vars

\* No request revokes a credential that it does not name: what is revoked
\* was either recovered by an administrator or presented by the agent.
RevokedWasNamed == revoked \subseteq recovered \cup presented

\* The invariant the proofs carry: tokens and serials are used in the order
\* they are made, a valid token has bought nothing yet, a serial that was not
\* issued has no row, and a request names a serial the agent presented.
Inv ==
    /\ TypeOK
    /\ TablesAgree
    /\ TokenIssuesOnce
    /\ RevokedWasNamed
    /\ tokenState = "valid" => token # None /\ \A s \in Serial : issuedFor[s] # token
    /\ \A s \in Serial : issuedFor[s] # None => token # None /\ issuedFor[s] <= token
    /\ \A s \in Serial : issuedFor[s] = None => routes[s] = "none"
    /\ \A r \in requests : r.prior # None => r.prior \in presented

(* What the repository says and the code does not do.                      *)

\* "A damaged credential can still retain the serial that authorizes its
\* replacement": a request that is sent when device.dpapi holds the active
\* credential, damaged, names it, as D-06 needs it to.
ReplacementIsAuthorized ==
    [][\A r \in requests' \ requests :
          /\ tokenState = "valid" /\ r.token = token
          /\ file # None /\ ~file.decodes /\ file.serial = active
          => r.prior = active]_vars

\* credential_status: a serial without a row counts as expired.
CredentialStatus(c) == IF c \in Serial /\ routes[c] # "none" THEN routes[c] ELSE "expired"

\* What the routes decide about a peer certificate.
Authorized(c) == CredentialStatus(c) = "active"

\* "an application authorization layer maps peer leaf serial + SAN URI to the
\* enrolled device record": a running service is authorized, unless its
\* credential was revoked.
IdentityIsAuthorized ==
    identity # None => Authorized(identity) \/ identity \in revoked
=============================================================================
