---------------------------- MODULE ServerProofs ----------------------------
(***************************************************************************)
(* The start fails closed, effects are authorized and enrollments are      *)
(* corroborated, for any connections, credentials, migrations and changes  *)
(* of the directory: proofs of what MCServer checks on a small instance.   *)
(***************************************************************************)
EXTENDS Server, SequenceTheorems, TLAPS

\* The conjuncts of the invariant, by what they are about: the start, the
\* queue of connections, and each connection.
Started ==
    /\ settings \in BOOLEAN /\ readable \in BOOLEAN /\ ledger \in 0 .. MaxSchema /\ binary \in Schema
    /\ changes \in 0 .. MaxChange
    /\ step \in {"down", "validate", "migrate", "bind", "tls", "serving"}
    /\ step \in {"migrate", "bind", "tls", "serving"} => settings
    /\ step \in {"bind", "tls", "serving"} => ledger >= binary

Queued ==
    /\ backlog \in Seq(Conn) /\ acceptor \in Conn \cup {None}
    /\ conn \in [Conn -> {"new", "waiting", "open", "closed"}]
    /\ acceptor # None => step = "serving"
    /\ backlog # << >> => step \in {"tls", "serving"}
    /\ \A c \in Conn : conn[c] = "open" => step = "serving"
    /\ \A c \in Conn : conn[c] = "waiting" <=> acceptor = c \/ \E i \in DOMAIN backlog : backlog[i] = c
    /\ \A i, j \in DOMAIN backlog : backlog[i] = backlog[j] => i = j
    /\ \A i \in DOMAIN backlog : backlog[i] # acceptor

Served ==
    /\ status \in [Serial -> {"none", "active", "revoked"}]
    /\ directory \in [Controller -> Record]
    /\ certificate \in [Conn -> Certificate \cup {None}]
    /\ peer \in [Conn -> Peer \cup {None}]
    /\ request \in [Conn -> Request \cup {None}]
    /\ \A c \in Conn : request[c] # None => conn[c] = "open"
    /\ \A c \in Conn : PeerWasShown(c) /\ RequestHasPassed(c) /\ AnswersWereHeld(c)

LEMMA InvParts == Inv <=> Started /\ Queued /\ Served
<1>1. Inv => Started /\ Queued /\ Served
  BY DEF Inv, TypeOK, StartFailsClosed, Started, Queued, Served
<1>2. Started /\ Queued /\ Served => Inv
  BY DEF Inv, TypeOK, StartFailsClosed, Started, Queued, Served
<1> QED BY <1>1, <1>2

LEMMA InitInv == Init => Inv
<1> SUFFICES ASSUME Init PROVE Started /\ Queued /\ Served BY InvParts
<1>1. Started BY ServerAssumption DEF Init, Started, Schema
<1>2. Queued BY ServerAssumption DEF Init, Queued
<1>3. Served
  BY DEF Init, Served, PeerWasShown, RequestHasPassed, AnswersWereHeld, Record, Controller
<1> QED BY <1>1, <1>2, <1>3

-----------------------------------------------------------------------------
(* The start.                                                              *)

\* The steps of run_server, and what happens around them.
StartStep ==
    \/ Reconfigure \/ (\E b \in Schema : MigrateElsewhere(b) \/ Start(b))
    \/ Validate \/ Migrate \/ Bind \/ LoadTls \/ Fail

LEMMA StartKeepsStarted ==
  ASSUME Started, StartStep
  PROVE  Started'
<1> USE ServerAssumption DEF Started, Schema
<1>1. CASE Reconfigure BY <1>1 DEF Reconfigure
<1>2. CASE \E b \in Schema : MigrateElsewhere(b) BY <1>2 DEF MigrateElsewhere
<1>3. CASE \E b \in Schema : Start(b) BY <1>3 DEF Start, StepGoes, environment
<1>4. CASE Validate BY <1>4 DEF Validate, StepGoes, environment
<1>5. CASE Migrate BY <1>5 DEF Migrate, StepGoes
<1>6. CASE Bind BY <1>6 DEF Bind, StepGoes, environment
<1>7. CASE LoadTls BY <1>7 DEF LoadTls, StepGoes, environment
<1>8. CASE Fail BY <1>8 DEF Fail, Down
<1> QED BY <1>1, <1>2, <1>3, <1>4, <1>5, <1>6, <1>7, <1>8 DEF StartStep

LEMMA StartKeepsRest ==
  ASSUME Started, Queued, Served, StartStep
  PROVE  Queued' /\ Served'
<1>1. CASE Fail
  <2>1. Queued' BY <1>1, ServerAssumption DEF Fail, Down, Queued
  <2>2. Served'
    BY <1>1 DEF Fail, Down, Served, PeerWasShown, RequestHasPassed, AnswersWereHeld
  <2> QED BY <2>1, <2>2
<1>2. CASE ~Fail
  <2>1. UNCHANGED <<backlog, acceptor, conn, certificate, peer, request, status, directory>>
    BY <1>2 DEF StartStep, Reconfigure, MigrateElsewhere, Start, Validate, Migrate, Bind, LoadTls, StepGoes, environment
  <2>2. step \in {"tls", "serving"} => step' \in {"tls", "serving"}
    BY <1>2 DEF StartStep, Reconfigure, MigrateElsewhere, Start, Validate, Migrate, Bind, LoadTls, StepGoes
  <2>3. step = "serving" => step' = "serving"
    BY <1>2 DEF StartStep, Reconfigure, MigrateElsewhere, Start, Validate, Migrate, Bind, LoadTls, StepGoes
  <2>4. Queued' BY <2>1, <2>2, <2>3 DEF Queued
  <2>5. Served' BY <2>1 DEF Served, PeerWasShown, RequestHasPassed, AnswersWereHeld, IsActive
  <2> QED BY <2>4, <2>5
<1> QED BY <1>1, <1>2

-----------------------------------------------------------------------------
(* The connections.                                                        *)

LEMMA ConnectKeepsInv ==
  ASSUME Started, Queued, Served, NEW c \in Conn, NEW cert \in Certificate \cup {None}, Connect(c, cert)
  PROVE  Started' /\ Queued' /\ Served'
<1>1. Started' BY DEF Connect, Started, environment
<1>2. Queued'
  <2>1. /\ backlog' = Append(backlog, c) /\ conn' = [conn EXCEPT ![c] = "waiting"] /\ conn[c] = "new"
        /\ step \in {"tls", "serving"} /\ UNCHANGED <<step, acceptor>>
    BY DEF Connect
  <2>2. acceptor # c /\ \A i \in DOMAIN backlog : backlog[i] # c BY <2>1 DEF Queued
  <2>3. /\ backlog' \in Seq(Conn) /\ DOMAIN backlog' = 1 .. Len(backlog) + 1 /\ DOMAIN backlog = 1 .. Len(backlog)
        /\ Len(backlog) \in Nat /\ backlog'[Len(backlog) + 1] = c /\ \A i \in DOMAIN backlog : backlog'[i] = backlog[i]
    BY <2>1 DEF Queued
  <2>4. \A i, j \in DOMAIN backlog' : backlog'[i] = backlog'[j] => i = j
    BY <2>2, <2>3 DEF Queued
  <2>5. \A i \in DOMAIN backlog' : backlog'[i] # acceptor' BY <2>1, <2>2, <2>3 DEF Queued
  <2>6. \A e \in Conn : conn'[e] = "waiting" <=> acceptor' = e \/ \E i \in DOMAIN backlog' : backlog'[i] = e
    <3> TAKE e \in Conn
    <3>1. CASE e = c BY <2>1, <2>3, <3>1 DEF Queued
    <3>2. CASE e # c
      <4>1. (\E i \in DOMAIN backlog' : backlog'[i] = e) <=> (\E i \in DOMAIN backlog : backlog[i] = e)
        BY <2>3, <3>2
      <4> QED BY <2>1, <3>2, <4>1 DEF Queued
    <3> QED BY <3>1, <3>2
  <2> QED BY <2>1, <2>3, <2>4, <2>5, <2>6 DEF Queued
<1>3. Served'
  <2>1. /\ UNCHANGED <<status, directory, peer, request>> /\ conn[c] = "new"
        /\ conn' = [conn EXCEPT ![c] = "waiting"] /\ certificate' = [certificate EXCEPT ![c] = cert]
        /\ cert # None /\ cert.serial # None => status[cert.serial] # "none"
    BY DEF Connect, environment
  <2>2. peer[c] = None /\ request[c] = None BY <2>1 DEF Served, PeerWasShown
  <2>3. certificate' \in [Conn -> Certificate \cup {None}] BY <2>1 DEF Served
  <2>4. \A e \in Conn : request'[e] # None => conn'[e] = "open" BY <2>1, <2>2 DEF Queued, Served
  <2>5. \A e \in Conn : PeerWasShown(e)'
    <3> TAKE e \in Conn
    <3>1. CASE e = c BY <2>1, <2>2, <3>1 DEF Served, PeerWasShown
    <3>2. CASE e # c BY <2>1, <3>2 DEF Queued, Served, PeerWasShown
    <3> QED BY <3>1, <3>2
  <2>6. \A e \in Conn : RequestHasPassed(e)' /\ AnswersWereHeld(e)'
    BY <2>1 DEF Served, RequestHasPassed, AnswersWereHeld, IsActive
  <2> QED BY <2>1, <2>3, <2>4, <2>5, <2>6 DEF Served
<1> QED BY <1>1, <1>2, <1>3

\* What is queued is the first, or queued behind it.
LEMMA TailShifts ==
  ASSUME NEW S, NEW s \in Seq(S), s # << >>
  PROVE  /\ Tail(s) \in Seq(S) /\ Head(s) \in S /\ Head(s) = s[1] /\ 1 \in DOMAIN s
         /\ \A i \in DOMAIN Tail(s) : i \in Nat \ {0} /\ i + 1 \in DOMAIN s /\ Tail(s)[i] = s[i + 1]
         /\ \A x : (\E i \in DOMAIN s : s[i] = x) <=> x = Head(s) \/ \E i \in DOMAIN Tail(s) : Tail(s)[i] = x
<1> DEFINE n == Len(s)
           t == Tail(s)
<1>1. n \in Nat /\ n # 0 /\ DOMAIN s = 1 .. n OBVIOUS
<1>2. t \in Seq(S) /\ Head(s) \in S /\ Len(t) = n - 1 /\ \A i \in 1 .. Len(t) : t[i] = s[i + 1]
  BY HeadTailProperties
<1>3. DOMAIN t = 1 .. n - 1 /\ Head(s) = s[1] BY <1>1, <1>2
<1>4. \A i \in DOMAIN t : i \in Nat \ {0} /\ i + 1 \in DOMAIN s /\ t[i] = s[i + 1]
  BY <1>1, <1>2, <1>3
<1>5. \A i \in DOMAIN s : i # 1 => \E j \in DOMAIN t : i = j + 1
  <2> TAKE i \in DOMAIN s
  <2> HAVE i # 1
  <2> WITNESS i - 1 \in DOMAIN t
  <2> QED BY <1>1
<1>6. 1 \in DOMAIN s BY <1>1
<1> HIDE DEF t, n
<1>7. \A x : (\E i \in DOMAIN s : s[i] = x) <=> x = Head(s) \/ \E i \in DOMAIN t : t[i] = x
  BY <1>3, <1>4, <1>5, <1>6, Zenon
<1> QED BY <1>2, <1>3, <1>4, <1>6, <1>7 DEF t

LEMMA AcceptKeepsInv ==
  ASSUME Started, Queued, Served, Accept
  PROVE  Started' /\ Queued' /\ Served'
<1>1. Started' BY DEF Accept, Started, environment
<1>2. Queued'
  <2>1. /\ step = "serving" /\ acceptor = None /\ backlog # << >> /\ acceptor' = Head(backlog)
        /\ backlog' = Tail(backlog) /\ UNCHANGED <<step, conn>>
    BY DEF Accept
  <2>2. /\ backlog' \in Seq(Conn) /\ acceptor' \in Conn /\ acceptor' = backlog[1] /\ 1 \in DOMAIN backlog
        /\ \A i \in DOMAIN backlog' : i \in Nat \ {0} /\ i + 1 \in DOMAIN backlog /\ backlog'[i] = backlog[i + 1]
        /\ \A x : (\E i \in DOMAIN backlog : backlog[i] = x) <=> x = acceptor' \/ \E i \in DOMAIN backlog' : backlog'[i] = x
    <3>1. backlog \in Seq(Conn) BY DEF Queued
    <3> DEFINE Facts(h, t) ==
          /\ t \in Seq(Conn) /\ h \in Conn /\ h = backlog[1] /\ 1 \in DOMAIN backlog
          /\ \A i \in DOMAIN t : i \in Nat \ {0} /\ i + 1 \in DOMAIN backlog /\ t[i] = backlog[i + 1]
          /\ \A x : (\E i \in DOMAIN backlog : backlog[i] = x) <=> x = h \/ \E i \in DOMAIN t : t[i] = x
    <3>2. Facts(Head(backlog), Tail(backlog)) BY <2>1, <3>1, TailShifts, Zenon
    <3> HIDE DEF Facts
    <3>3. Facts(acceptor', backlog') BY <2>1, <3>2, Zenon
    <3> QED BY <3>3, Zenon DEF Facts
  <2>3. \A i, j \in DOMAIN backlog' : backlog'[i] = backlog'[j] => i = j
    <3> TAKE i, j \in DOMAIN backlog'
    <3>1. \A m, n \in DOMAIN backlog : backlog[m] = backlog[n] => m = n BY DEF Queued
    <3>2. backlog'[i] = backlog'[j] => i + 1 = j + 1 BY <2>2, <3>1
    <3>3. i \in Nat /\ j \in Nat BY <2>2
    <3> QED BY <3>2, <3>3
  <2>4. \A i \in DOMAIN backlog' : backlog'[i] # acceptor'
    <3> TAKE i \in DOMAIN backlog'
    <3>1. \A m, n \in DOMAIN backlog : backlog[m] = backlog[n] => m = n BY DEF Queued
    <3>2. backlog'[i] = acceptor' => i + 1 = 1 BY <2>2, <3>1
    <3>3. i \in Nat \ {0} BY <2>2
    <3> QED BY <3>2, <3>3
  <2>5. \A e \in Conn : conn'[e] = "waiting" <=> acceptor' = e \/ \E i \in DOMAIN backlog' : backlog'[i] = e
    <3> TAKE e \in Conn
    <3>1. acceptor # e BY <2>1, ServerAssumption
    <3> QED BY <2>1, <2>2, <3>1, Zenon DEF Queued
  <2> QED BY <2>1, <2>2, <2>3, <2>4, <2>5 DEF Queued
<1>3. Served'
  BY Zenon DEF Accept, environment, Served, PeerWasShown, RequestHasPassed, AnswersWereHeld, IsActive
<1> QED BY <1>1, <1>2, <1>3

\* Two connections are one when they are the same: what a step does to one
\* connection leaves the others as they were.
Same(e) ==
    conn'[e] = conn[e] /\ certificate'[e] = certificate[e] /\ peer'[e] = peer[e] /\ request'[e] = request[e]

LEMMA SameKeeps ==
  ASSUME Served, UNCHANGED <<status, directory>>, NEW e \in Conn, Same(e)
  PROVE  /\ request'[e] # None => conn'[e] = "open"
         /\ PeerWasShown(e)' /\ RequestHasPassed(e)' /\ AnswersWereHeld(e)'
  BY DEF Served, Same, PeerWasShown, RequestHasPassed, AnswersWereHeld, IsActive

LEMMA HandshakeKeepsInv ==
  ASSUME Started, Queued, Served, Handshake
  PROVE  Started' /\ Queued' /\ Served'
<1>0. PICK a \in Conn, cert \in Certificate \cup {None} : a = acceptor /\ cert = certificate[acceptor]
  BY DEF Handshake, Queued, Served
<1>1. /\ a \in Conn /\ conn[a] = "waiting" /\ peer[a] = None /\ request[a] = None /\ step = "serving"
      /\ cert \in Certificate \cup {None}
  BY <1>0, ServerAssumption DEF Handshake, Queued, Served, PeerWasShown
<1>2. /\ acceptor' = None /\ UNCHANGED <<environment, step, binary, backlog, request>>
      /\ \E to \in {"open", "closed"} : conn' = [conn EXCEPT ![a] = to]
  BY <1>0 DEF Handshake
<1>3. Started' BY <1>2 DEF Started, environment
<1>4. Queued'
  <2>1. \A i \in DOMAIN backlog : backlog[i] \in Conn /\ backlog[i] # None BY ServerAssumption DEF Queued
  <2>2. \A i \in DOMAIN backlog : backlog[i] # a BY <1>0 DEF Queued
  <2>3. \A e \in Conn : conn'[e] = "waiting" <=> \E i \in DOMAIN backlog : backlog[i] = e
    <3> TAKE e \in Conn
    <3>1. CASE e = a BY <1>1, <1>2, <2>2, <3>1 DEF Queued
    <3>2. CASE e # a BY <1>0, <1>1, <1>2, <3>2 DEF Queued
    <3> QED BY <3>1, <3>2
  <2>4. \A e \in Conn : e # None BY ServerAssumption
  <2> QED BY <1>1, <1>2, <2>1, <2>3, <2>4 DEF Queued
<1>5. Served'
  <2>1. UNCHANGED <<status, directory, request>> BY <1>2 DEF environment
  <2>2. \A e \in Conn \ {a} : Same(e)
    BY <1>0, <1>1 DEF Handshake, Queued, Served, Same
  <2>3. CASE /\ Verified(cert) /\ (cert # None => PeerIdentity(cert) # None)
             /\ conn' = [conn EXCEPT ![a] = "open"]
             /\ peer' = [peer EXCEPT ![a] = IF cert = None THEN None ELSE PeerIdentity(cert)]
             /\ UNCHANGED certificate
    <3>1. cert # None =>
             /\ PeerIdentity(cert) \in Peer
             /\ PeerIdentity(cert).role = cert.issuer /\ PeerIdentity(cert).serial = cert.serial
      BY <1>1, <2>3 DEF PeerIdentity, Peer, Certificate
    <3>2. peer' \in [Conn -> Peer \cup {None}] BY <1>1, <2>3, <3>1 DEF Served
    <3>3. PeerWasShown(a)' BY <1>0, <1>1, <2>1, <2>3, <3>1 DEF Queued, Served, PeerWasShown
    <3>4. RequestHasPassed(a)' /\ AnswersWereHeld(a)' BY <1>1, <2>1 DEF RequestHasPassed, AnswersWereHeld
    <3> QED BY <1>1, <2>1, <2>2, <2>3, <3>2, <3>3, <3>4, SameKeeps DEF Served
  <2>4. CASE /\ conn' = [conn EXCEPT ![a] = "closed"] /\ certificate' = [certificate EXCEPT ![a] = None]
             /\ UNCHANGED peer
    <3>1. certificate' \in [Conn -> Certificate \cup {None}] BY <1>1, <2>4 DEF Served
    <3>2. PeerWasShown(a)' BY <1>1, <2>1, <2>4 DEF Queued, Served, PeerWasShown
    <3>3. RequestHasPassed(a)' /\ AnswersWereHeld(a)' BY <1>1, <2>1 DEF RequestHasPassed, AnswersWereHeld
    <3> QED BY <1>1, <2>1, <2>2, <2>4, <3>1, <3>2, <3>3, SameKeeps DEF Served
  <2> QED BY <1>0, <2>3, <2>4 DEF Handshake
<1> QED BY <1>3, <1>4, <1>5

LEMMA DisconnectKeepsInv ==
  ASSUME Started, Queued, Served, NEW c \in Conn, Disconnect(c)
  PROVE  Started' /\ Queued' /\ Served'
<1>1. Started' BY DEF Disconnect, Started, environment
<1>2. Queued' BY DEF Disconnect, Queued
<1>3. Served'
  <2>1. UNCHANGED <<status, directory>> BY DEF Disconnect, environment
  <2>2. \A e \in Conn \ {c} : Same(e) BY DEF Disconnect, Queued, Served, Same
  <2>3. /\ certificate' \in [Conn -> Certificate \cup {None}] /\ peer' \in [Conn -> Peer \cup {None}]
        /\ request' \in [Conn -> Request \cup {None}]
        /\ certificate'[c] = None /\ peer'[c] = None /\ request'[c] = None
    BY DEF Disconnect, Served
  <2>4. PeerWasShown(c)' /\ RequestHasPassed(c)' /\ AnswersWereHeld(c)'
    BY <2>3 DEF PeerWasShown, RequestHasPassed, AnswersWereHeld
  <2> QED BY <2>1, <2>2, <2>3, <2>4, SameKeeps DEF Served
<1> QED BY <1>1, <1>2, <1>3

-----------------------------------------------------------------------------
(* The requests.                                                           *)

\* A step of a request leaves the process and the connections as they are.
RequestFrame ==
    UNCHANGED <<settings, readable, ledger, directory, changes, step, binary, backlog, acceptor, conn,
                certificate, peer>>

LEMMA FrameKeeps ==
  ASSUME Started, Queued, RequestFrame
  PROVE  Started' /\ Queued'
  BY DEF Started, Queued, RequestFrame

\* A request that goes on changes its step alone.
LEMMA GoesOn ==
  ASSUME Served, NEW c \in Conn, NEW from, NEW to \in RequestStep, RequestGoes(c, from, to)
  PROVE  /\ RequestFrame /\ UNCHANGED status
         /\ request' \in [Conn -> Request \cup {None}] /\ request[c] # None /\ conn[c] = "open"
         /\ \A e \in Conn \ {c} : Same(e)
         /\ request[c].step = from /\ request'[c].step = to
         /\ request'[c].route = request[c].route /\ request'[c].active = request[c].active
         /\ request'[c].primary = request[c].primary /\ request'[c].secondary = request[c].secondary
         /\ request'[c].held = request[c].held
<1>1. /\ request[c] \in Request /\ request[c].step = from /\ request[c] # None
      /\ request' = [request EXCEPT ![c] = [request[c] EXCEPT !.step = to]]
      /\ UNCHANGED <<environment, step, binary, backlog, acceptor, conn, certificate, peer>>
  BY DEF RequestGoes, Served
<1>2. /\ [request[c] EXCEPT !.step = to] \in Request
      /\ [request[c] EXCEPT !.step = to].step = to
      /\ [request[c] EXCEPT !.step = to].route = request[c].route
      /\ [request[c] EXCEPT !.step = to].active = request[c].active
      /\ [request[c] EXCEPT !.step = to].primary = request[c].primary
      /\ [request[c] EXCEPT !.step = to].secondary = request[c].secondary
      /\ [request[c] EXCEPT !.step = to].held = request[c].held
  BY <1>1 DEF Request
<1> HIDE DEF Request
<1>4. request' \in [Conn -> Request \cup {None}] /\ request'[c] = [request[c] EXCEPT !.step = to]
  BY <1>1, <1>2 DEF Served
<1>5. \A e \in Conn \ {c} : Same(e) BY <1>1 DEF Served, Same
<1>6. RequestFrame /\ UNCHANGED status BY <1>1 DEF RequestFrame, environment
<1>7. conn[c] = "open" BY <1>1 DEF Served
<1> QED BY <1>1, <1>2, <1>4, <1>5, <1>6, <1>7, Zenon

\* What is left to show of a step of one request that queries only.
LEMMA ServedFollows ==
  ASSUME Served, RequestFrame, UNCHANGED status, NEW c \in Conn, conn[c] = "open",
         request' \in [Conn -> Request \cup {None}], \A e \in Conn \ {c} : Same(e),
         RequestHasPassed(c)', AnswersWereHeld(c)'
  PROVE  Served'
<1>1. UNCHANGED <<directory, conn, certificate, peer, status>> BY DEF RequestFrame
<1>2. PeerWasShown(c)' BY <1>1 DEF Served, PeerWasShown
<1>3. \A e \in Conn \ {c} :
          /\ request'[e] # None => conn'[e] = "open"
          /\ PeerWasShown(e)' /\ RequestHasPassed(e)' /\ AnswersWereHeld(e)'
  BY <1>1, SameKeeps
<1> QED BY <1>1, <1>2, <1>3 DEF Served

\* The credential a device shows was active when its request came: it had been
\* issued by then, and nothing makes a credential active again.
LEMMA PassesCheck ==
  ASSUME Served, NEW c \in Conn, request[c] # None, peer[c] # None, CredentialStatus(c) = "active"
  PROVE  request[c].active
<1>1. IsActive(c) BY DEF CredentialStatus, IsActive
<1> QED BY <1>1, Zenon DEF Served, RequestHasPassed

\* What a check that lets a request go on has found.
Passes(c, from, to) ==
    /\ RequestGoes(c, from, to)
    /\ to \in {"authorize", "handler", "effect", "bind", "search"}
    /\ to = "authorize" =>
          /\ request[c].route \in {"configuration", "health"}
          /\ peer[c] # None /\ peer[c].role = "device" /\ request[c].active
    /\ to \in {"handler", "effect"} /\ from # "middleware" => from \in {"authorize", "handler"}
    /\ from = "middleware" /\ to # "authorize" =>
          to = "effect" /\ request[c].route = "provisioning" /\ peer[c] # None /\ peer[c].role = "administrator"
    /\ to \in {"bind", "search"} => from \in {"connect", "bind"}

LEMMA ChecksKeepServed ==
  ASSUME Served, NEW c \in Conn,
         \/ RequireAdministrator(c) \/ RequireActiveDevice(c) \/ AuthorizeDevice(c) \/ AuthorizeInHandler(c)
         \/ ConnectController(c) \/ BindAnswers(c)
  PROVE  RequestFrame /\ Served'
<1>1. RequestHasPassed(c) /\ AnswersWereHeld(c) BY DEF Served
<1>2. \E from, to \in RequestStep : Passes(c, from, to)
  <2> USE DEF RequestStep, Passes
  <2>1. CASE RequireAdministrator(c) BY <2>1 DEF RequireAdministrator
  <2>2. CASE RequireActiveDevice(c)
    <3>1. request[c].active BY <2>2, PassesCheck DEF RequireActiveDevice
    <3> QED BY <2>2, <3>1, Zenon DEF RequireActiveDevice
  <2>3. CASE AuthorizeDevice(c) BY <2>3 DEF AuthorizeDevice
  <2>4. CASE AuthorizeInHandler(c) BY <2>4 DEF AuthorizeInHandler
  <2>5. CASE ConnectController(c) BY <2>5 DEF ConnectController
  <2>6. CASE BindAnswers(c) BY <2>6 DEF BindAnswers
  <2> QED BY <2>1, <2>2, <2>3, <2>4, <2>5, <2>6
<1>3. PICK from \in RequestStep, to \in RequestStep : Passes(c, from, to)
  BY <1>2
<1>4. /\ RequestFrame /\ UNCHANGED status
      /\ request' \in [Conn -> Request \cup {None}] /\ request[c] # None /\ conn[c] = "open"
      /\ \A e \in Conn \ {c} : Same(e)
      /\ request[c].step = from /\ request'[c].step = to
      /\ request'[c].route = request[c].route /\ request'[c].active = request[c].active
      /\ request'[c].primary = request[c].primary /\ request'[c].secondary = request[c].secondary
      /\ request'[c].held = request[c].held
  BY <1>3, GoesOn DEF Passes
<1>5. UNCHANGED <<peer, directory>> BY <1>4 DEF RequestFrame
<1>6. RequestHasPassed(c)'
  BY <1>1, <1>3, <1>4, <1>5 DEF Passes, RequestHasPassed, IsActive
<1>7. AnswersWereHeld(c)' BY <1>1, <1>4, <1>5 DEF AnswersWereHeld
<1> QED BY <1>4, <1>6, <1>7, ServedFollows

\* A request comes.
LEMMA BeginKeepsServed ==
  ASSUME Served, NEW c \in Conn, NEW route \in Route, Begin(c, route)
  PROVE  RequestFrame /\ Served'
<1> DEFINE held == {<<d, directory[d]>> : d \in IF route = "enrollment" THEN Controller ELSE {}}
           new == [route |-> route, step |-> IF route = "enrollment" THEN "connect" ELSE "middleware",
                   asking |-> "primary", primary |-> None, secondary |-> None, active |-> IsActive(c), held |-> held]
<1>1. /\ conn[c] = "open" /\ request' = [request EXCEPT ![c] = new] /\ RequestFrame /\ UNCHANGED status
  BY DEF Begin, RequestFrame, environment
<1>2. IsActive(c) \in BOOLEAN BY Zenon DEF IsActive
<1>3. held \in SUBSET (Controller \X Record) BY DEF Served
<1>4. route = "enrollment" => \A d \in Controller : <<d, directory[d]>> \in held OBVIOUS
<1> HIDE DEF held
<1>5. new \in Request BY <1>2, <1>3 DEF Request, RequestStep, Controller
<1>6. /\ new.route = route /\ new.step = (IF route = "enrollment" THEN "connect" ELSE "middleware")
      /\ new.primary = None /\ new.secondary = None /\ new.active = IsActive(c) /\ new.held = held
  OBVIOUS
<1> HIDE DEF new
<1>7. request' \in [Conn -> Request \cup {None}] /\ request'[c] = new BY <1>1, <1>5 DEF Served
<1>8. \A e \in Conn \ {c} : Same(e) BY <1>1 DEF Served, Same, RequestFrame
<1>9. RequestHasPassed(c)'
  <2>1. IsActive(c)' <=> IsActive(c) BY <1>1 DEF IsActive, RequestFrame
  <2>2. IsActive(c)' => request'[c].active BY <1>6, <1>7, <2>1, Zenon
  <2>3. request'[c].route = route /\ request'[c].step = (IF route = "enrollment" THEN "connect" ELSE "middleware")
    BY <1>6, <1>7
  <2> QED BY <2>2, <2>3 DEF RequestHasPassed
<1>10. AnswersWereHeld(c)'
  <2>1. None \notin Record BY ServerAssumption
  <2> QED BY <1>1, <1>4, <1>6, <1>7, <2>1 DEF AnswersWereHeld, RequestFrame
<1> QED BY <1>1, <1>7, <1>8, <1>9, <1>10, ServedFollows

\* A request ends without an effect.
LEMMA RefuseKeepsServed ==
  ASSUME Served, NEW c \in Conn, Refuse(c)
  PROVE  RequestFrame /\ Served'
<1>1. /\ request[c] # None /\ request' = [request EXCEPT ![c] = None] /\ RequestFrame /\ UNCHANGED status
  BY DEF Refuse, RequestFrame, environment
<1>2. request' \in [Conn -> Request \cup {None}] /\ request'[c] = None /\ conn[c] = "open" BY <1>1 DEF Served
<1>3. \A e \in Conn \ {c} : Same(e) BY <1>1 DEF Served, Same, RequestFrame
<1>4. RequestHasPassed(c)' /\ AnswersWereHeld(c)' BY <1>2 DEF RequestHasPassed, AnswersWereHeld
<1> QED BY <1>1, <1>2, <1>3, <1>4, ServedFollows

\* A controller answers, with the record it has or with none.
LEMMA AnswersKeepServed ==
  ASSUME Served, NEW c \in Conn, BindFails(c) \/ SearchAnswers(c) \/ QueryFails(c)
  PROVE  RequestFrame /\ Served'
<1> DEFINE old == request[c]
<1>1. /\ old # None /\ old \in Request /\ old.step \in {"connect", "bind", "search"} /\ old.route = "enrollment"
      /\ conn[c] = "open" /\ old.asking \in Controller
      /\ \A d \in Controller : directory[d] \in Record /\ <<d, directory[d]>> \in old.held
      /\ RequestHasPassed(c) /\ AnswersWereHeld(c)
  BY DEF BindFails, SearchAnswers, QueryFails, Served, RequestHasPassed, AnswersWereHeld, Request
<1>2. PICK r \in Record \cup {Unavailable} :
          Answers(c, r) /\ (r \in Record => <<old.asking, r>> \in old.held)
  <2>1. CASE SearchAnswers(c) BY <1>1, <2>1 DEF SearchAnswers
  <2>2. CASE BindFails(c) \/ QueryFails(c)
    BY <2>2 DEF BindFails, QueryFails, Unavailable, Record
  <2> QED BY <2>1, <2>2
<1> DEFINE first == [old EXCEPT !.primary = r, !.asking = "secondary", !.step = "connect"]
           last == [old EXCEPT !.secondary = r, !.step = "effect"]
           new == IF old.asking = "primary" THEN first ELSE last
<1>3. request' = [request EXCEPT ![c] = new] /\ RequestFrame /\ UNCHANGED status
  BY <1>2 DEF Answers, RequestFrame, environment
<1>4. /\ new \in Request /\ new.route = "enrollment" /\ new.step \in {"connect", "effect"}
      /\ new.active = old.active /\ new.held = old.held
      /\ IF old.asking = "primary" THEN new.primary = r /\ new.secondary = old.secondary
         ELSE new.secondary = r /\ new.primary = old.primary
  <2>1. CASE old.asking = "primary"
    <3>1. /\ first \in Request /\ first.route = old.route /\ first.step = "connect" /\ first.active = old.active
          /\ first.held = old.held /\ first.primary = r /\ first.secondary = old.secondary
      BY <1>1, <1>2, Zenon DEF Request, RequestStep, Controller
    <3> QED BY <1>1, <2>1, <3>1
  <2>2. CASE old.asking # "primary"
    <3>1. /\ last \in Request /\ last.route = old.route /\ last.step = "effect" /\ last.active = old.active
          /\ last.held = old.held /\ last.secondary = r /\ last.primary = old.primary
      BY <1>1, <1>2, Zenon DEF Request, RequestStep, Controller
    <3> QED BY <1>1, <2>2, <3>1
  <2> QED BY <2>1, <2>2
<1>5. old.asking = "primary" \/ old.asking = "secondary" BY <1>1 DEF Controller
<1> HIDE DEF new
<1>6. request' \in [Conn -> Request \cup {None}] /\ request'[c] = new BY <1>3, <1>4 DEF Served
<1>7. \A e \in Conn \ {c} : Same(e) BY <1>3 DEF Served, Same, RequestFrame
<1>8. UNCHANGED <<peer, directory, status>> BY <1>3 DEF RequestFrame
<1>9. RequestHasPassed(c)' BY <1>1, <1>4, <1>6, <1>8 DEF RequestHasPassed, IsActive
<1>10. AnswersWereHeld(c)' BY <1>1, <1>2, <1>4, <1>5, <1>6, <1>8 DEF AnswersWereHeld
<1> QED BY <1>1, <1>3, <1>6, <1>7, <1>9, <1>10, ServedFollows

\* Credentials are issued once, and a revoked one is never active again.
LEMMA StatusGoesOn ==
  ASSUME Served, NEW c \in Conn, ServeDevice(c) \/ Provision(c) \/ Enroll(c)
  PROVE  /\ status' \in [Serial -> {"none", "active", "revoked"}]
         /\ \A s \in Serial : status[s] # "none" =>
               status'[s] # "none" /\ (status'[s] = "active" => status[s] = "active")
<1>1. CASE ServeDevice(c) BY <1>1 DEF ServeDevice, Served
<1>2. CASE Provision(c) BY <1>2 DEF Provision, Revoking, Served
<1>3. CASE Enroll(c)
  <2>1. PICK s \in Serial : status[s] = "none" /\ status' = [Revoking EXCEPT ![s] = "active"]
    BY <1>3, Zenon DEF Enroll
  <2> QED BY <2>1 DEF Revoking, Served
<1> QED BY <1>1, <1>2, <1>3

\* A request ends with its effect.
LEMMA EffectKeepsServed ==
  ASSUME Served, NEW c \in Conn, ServeDevice(c) \/ Provision(c) \/ Enroll(c)
  PROVE  RequestFrame /\ Served'
<1>1. request' = [request EXCEPT ![c] = None] /\ RequestFrame
  BY DEF ServeDevice, Provision, Enroll, Effect, RequestFrame
<1>2. /\ request' \in [Conn -> Request \cup {None}] /\ request'[c] = None
      /\ \A e \in Conn \ {c} : request'[e] = request[e]
  BY <1>1 DEF Served
<1>3. UNCHANGED <<directory, conn, certificate, peer>> BY <1>1 DEF RequestFrame
<1>4. ASSUME NEW e \in Conn
      PROVE  PeerWasShown(e)' /\ (IsActive(e)' => IsActive(e))
  <2>1. certificate[e] # None /\ certificate[e].serial # None =>
            certificate[e].serial \in Serial /\ status[certificate[e].serial] # "none"
    BY DEF Served, PeerWasShown, Certificate
  <2>2. PeerWasShown(e)' BY <1>3, <2>1, StatusGoesOn DEF Served, PeerWasShown
  <2>3. peer[e] # None /\ peer[e].serial # None => peer[e].serial \in Serial /\ status[peer[e].serial] # "none"
    BY <2>1 DEF Served, PeerWasShown
  <2> QED BY <1>3, <2>2, <2>3, StatusGoesOn DEF IsActive
<1>5. \A e \in Conn : RequestHasPassed(e)'
  <2> TAKE e \in Conn
  <2>1. CASE e = c BY <1>2, <2>1 DEF RequestHasPassed
  <2>2. CASE e # c
    <3>1. RequestHasPassed(e) /\ request'[e] = request[e] /\ peer'[e] = peer[e] BY <1>2, <1>3, <2>2 DEF Served
    <3> QED BY <1>4, <3>1 DEF RequestHasPassed
  <2> QED BY <2>1, <2>2
<1>6. \A e \in Conn : AnswersWereHeld(e)'
  <2> TAKE e \in Conn
  <2>1. CASE e = c BY <1>2, <2>1 DEF AnswersWereHeld
  <2>2. CASE e # c BY <1>2, <1>3, <2>2 DEF Served, AnswersWereHeld
  <2> QED BY <2>1, <2>2
<1>7. \A e \in Conn : request'[e] # None => conn'[e] = "open" BY <1>2, <1>3 DEF Served
<1> QED BY <1>1, <1>2, <1>3, <1>4, <1>5, <1>6, <1>7, StatusGoesOn DEF Served

\* The directory changes, and the requests in progress have seen it.
LEMMA DirectoryKeepsInv ==
  ASSUME Started, Queued, Served, NEW d \in Controller, NEW r \in Record, ChangeDirectory(d, r)
  PROVE  Started' /\ Queued' /\ Served'
<1>1. /\ directory' = [directory EXCEPT ![d] = r] /\ request' = Holding(d, r) /\ changes' \in 0 .. MaxChange
      /\ UNCHANGED <<settings, readable, ledger, status, step, binary, backlog, acceptor, conn, certificate, peer>>
  BY ServerAssumption DEF ChangeDirectory, Started
<1>2. Started' BY <1>1 DEF Started
<1>3. Queued' BY <1>1 DEF Queued
<1>4. ASSUME NEW e \in Conn
      PROVE  /\ request'[e] \in Request \cup {None}
             /\ request'[e] # None => conn'[e] = "open"
             /\ PeerWasShown(e)' /\ RequestHasPassed(e)' /\ AnswersWereHeld(e)'
  <2>1. PeerWasShown(e)' BY <1>1 DEF Served, PeerWasShown
  <2>2. CASE request[e] # None /\ request[e].route = "enrollment"
    <3> DEFINE old == request[e]
               new == [old EXCEPT !.held = @ \cup {<<d, r>>}]
    <3>1. old \in Request /\ old # None /\ request'[e] = new /\ conn[e] = "open" /\ RequestHasPassed(e) /\ AnswersWereHeld(e)
      BY <1>1, <2>2 DEF Served, Holding
    <3>2. /\ new \in Request /\ new.route = old.route /\ new.step = old.step /\ new.active = old.active
          /\ new.primary = old.primary /\ new.secondary = old.secondary /\ new.held = old.held \cup {<<d, r>>}
      BY <3>1 DEF Request
    <3> HIDE DEF new
    <3>3. RequestHasPassed(e)' BY <1>1, <3>1, <3>2 DEF RequestHasPassed, IsActive
    <3>4. \A x \in Controller : <<x, directory'[x]>> \in new.held
      BY <1>1, <2>2, <3>1, <3>2 DEF Served, AnswersWereHeld
    <3>5. AnswersWereHeld(e)' BY <2>2, <3>1, <3>2, <3>4 DEF AnswersWereHeld
    <3> QED BY <1>1, <2>1, <3>1, <3>2, <3>3, <3>5
  <2>3. CASE ~(request[e] # None /\ request[e].route = "enrollment")
    <3>1. request'[e] = request[e] BY <1>1, <2>3 DEF Holding
    <3> QED BY <1>1, <2>1, <2>3, <3>1 DEF Served, RequestHasPassed, AnswersWereHeld, IsActive
  <2> QED BY <2>2, <2>3
<1>5. request' \in [Conn -> Request \cup {None}] BY <1>1, <1>4 DEF Holding
<1>6. directory' \in [Controller -> Record] BY <1>1 DEF Served
<1>7. Served' BY <1>1, <1>4, <1>5, <1>6 DEF Served
<1> QED BY <1>2, <1>3, <1>7

-----------------------------------------------------------------------------
(* The theorems.                                                           *)

\* Every step keeps the invariant.
LEMMA StepKeepsInv == Inv /\ [Next]_vars => Inv'
<1> SUFFICES ASSUME Started, Queued, Served, [Next]_vars PROVE Started' /\ Queued' /\ Served'
  <2>1. Inv' <=> Started' /\ Queued' /\ Served'
    BY DEF Inv, TypeOK, StartFailsClosed, Started, Queued, Served
  <2> QED BY <2>1, InvParts
<1>1. CASE StartStep BY <1>1, StartKeepsStarted, StartKeepsRest
<1>2. CASE \E d \in Controller, r \in Record : ChangeDirectory(d, r) BY <1>2, DirectoryKeepsInv
<1>3. CASE \E c \in Conn, cert \in Certificate \cup {None} : Connect(c, cert) BY <1>3, ConnectKeepsInv
<1>4. CASE Accept BY <1>4, AcceptKeepsInv
<1>5. CASE Handshake BY <1>5, HandshakeKeepsInv
<1>6. ASSUME NEW c \in Conn,
             \/ Disconnect(c) \/ RequestStepOf(c) \/ BindAnswers(c) \/ BindFails(c)
             \/ \E route \in Route : Begin(c, route)
      PROVE  Started' /\ Queued' /\ Served'
  <2>1. CASE Disconnect(c) BY <2>1, DisconnectKeepsInv
  <2>2. CASE ~Disconnect(c)
    <3>1. RequestFrame /\ Served'
      BY <1>6, <2>2, ChecksKeepServed, BeginKeepsServed, RefuseKeepsServed, AnswersKeepServed, EffectKeepsServed
      DEF RequestStepOf
    <3> QED BY <3>1, FrameKeeps
  <2> QED BY <2>1, <2>2
<1>7. CASE UNCHANGED vars
  <2>1. RequestFrame /\ UNCHANGED <<status, request>> BY <1>7 DEF vars, RequestFrame
  <2>2. UNCHANGED <<status, directory, conn, certificate, peer, request>> BY <2>1 DEF RequestFrame
  <2>3. \A e \in Conn : Same(e) BY <2>2 DEF Same
  <2>4. Served' BY <2>2, <2>3, SameKeeps DEF Served
  <2> QED BY <2>1, <2>4, FrameKeeps
<1> QED BY <1>1, <1>2, <1>3, <1>4, <1>5, <1>6, <1>7 DEF Next, StartStep

\* The invariant of the server holds in every state, for any connections and
\* any bounds.
THEOREM Invariance == Spec => []Inv
<1>1. Init => Inv BY InitInv
<1>2. Inv /\ [Next]_vars => Inv' BY StepKeepsInv
<1> QED BY <1>1, <1>2, PTL DEF Spec

\* run_server validates before it migrates, migrates before it binds, and
\* serves only when all of it is done.
THEOREM StartIsClosed == Spec => []StartFailsClosed
<1>1. Inv => StartFailsClosed BY DEF Inv
<1> QED BY <1>1, Invariance, PTL

\* require_administrator, require_active_device and authorize_device leave no
\* effect to a peer without the role, or without a credential that was active
\* when its request came.
THEOREM EffectsAreAuthorized == Spec => []EffectIsAuthorized
<1>1. Inv => EffectIsAuthorized
  <2> SUFFICES ASSUME Inv, NEW c \in Conn, request[c] # None, request[c].step = "effect"
               PROVE  /\ request[c].route = "provisioning" =>
                            certificate[c] # None /\ certificate[c].issuer = "administrator"
                      /\ request[c].route \in {"configuration", "health"} =>
                            certificate[c] # None /\ certificate[c].issuer = "device" /\ request[c].active
    BY DEF EffectIsAuthorized
  <2>1. PeerWasShown(c) /\ RequestHasPassed(c) BY DEF Inv
  <2> QED BY <2>1 DEF PeerWasShown, RequestHasPassed
<1> QED BY <1>1, Invariance, PTL

\* corroborate agrees to nothing that one of the controllers did not have
\* while the enrollment lasted.
THEOREM IssuedWereCorroborated == Spec => IssuedWasCorroborated
<1> DEFINE Corroborated ==
      \A c \in Conn : Enroll(c) => \E r \in {"first", "second"} : \A d \in Controller : <<d, r>> \in request[c].held
<1>1. ASSUME Inv PROVE Corroborated
  <2> SUFFICES ASSUME NEW c \in Conn, Enroll(c)
               PROVE  \E r \in {"first", "second"} : \A d \in Controller : <<d, r>> \in request[c].held
    OBVIOUS
  <2>1. AnswersWereHeld(c) BY <1>1 DEF Inv
  <2>2. /\ request[c] # None /\ request[c].route = "enrollment"
        /\ request[c].primary \in {"first", "second"} /\ request[c].secondary = request[c].primary
    BY DEF Enroll, Corroborate
  <2>3. \A d \in Controller : <<d, request[c].primary>> \in request[c].held
    BY <2>1, <2>2 DEF AnswersWereHeld, Controller, Record
  <2> QED BY <2>2, <2>3
<1>2. Inv /\ [Next]_vars => [Corroborated]_vars BY <1>1
<1> QED BY <1>2, Invariance, PTL DEF Spec, IssuedWasCorroborated
=============================================================================
