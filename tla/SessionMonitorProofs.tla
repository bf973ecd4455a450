------------------------ MODULE SessionMonitorProofs ------------------------
(***************************************************************************)
(* A store has one host under control, and actors and runtimes go          *)
(* together, for any sessions, users, hosts and events: proofs of what     *)
(* MCSessionMonitor checks on a small instance.  Behind them, the serial   *)
(* number that the service reads from the firmware's table is the one it   *)
(* refers to, for tables of any length.                                    *)
(***************************************************************************)
EXTENDS SessionMonitor, Firmware, TLAPS

Event == {Logon(s) : s \in Session} \cup {Logoff(s) : s \in Session} \cup {Stop}

\* The sessions that are reconciled at the start are a queue of sign-ins.
LEMMA ReconciledIsQueue ==
  ASSUME NEW active \in ActiveSessions
  PROVE  [i \in DOMAIN active |-> Logon(active[i])] \in Seq(Event)
<1> DEFINE signedIn == {s \in Session : users[s] # None}
<1>1. PICK n \in 0 .. Cardinality(signedIn) : active \in [1 .. n -> signedIn] BY DEF ActiveSessions
<1>2. \A s \in Session : Logon(s) \in Event BY DEF Event
<1>3. [i \in DOMAIN active |-> Logon(active[i])] \in [1 .. n -> Event]
  BY <1>1, <1>2
<1> QED BY <1>1, <1>3

\* The head of the queue names a session.
LEMMA HeadIsEvent ==
  ASSUME TypeOK, queue # << >>
  PROVE  /\ Head(queue) \in Event /\ Tail(queue) \in Seq(Event)
         /\ Head(queue).kind \in {"Logon", "Logoff"} => Head(queue).session \in Session
<1>1. queue \in Seq(Event) BY DEF TypeOK, Event
<1>2. Head(queue) \in Event /\ Tail(queue) \in Seq(Event) BY <1>1
<1>3. ASSUME NEW e \in Event, e.kind \in {"Logon", "Logoff"} PROVE e.session \in Session
  BY <1>3 DEF Event, Logon, Logoff, Stop
<1> QED BY <1>2, <1>3

LEMMA InitInv == Init => Inv
  BY SessionAssumption
  DEF Init, Inv, TypeOK, RuntimesMatchActors, Held, Alive, ActorsOf

\* What comes from outside changes the queue alone.
LEMMA NotifyTyped ==
  ASSUME TypeOK, NEW e \in Event, Notify(e)
  PROVE  events' \in 0 .. MaxEvents /\ queue' \in Seq(Event)
  BY SessionAssumption DEF TypeOK, Notify, Event

\* Windows keeps the invariant.
LEMMA WindowsKeepsInv ==
  ASSUME Inv,
         \/ \E s \in Session, u \in User : SignIn(s, u)
         \/ \E s \in Session : SignOut(s) \/ SignInAgain(s)
         \/ RequestStop \/ ServiceStarts
  PROVE  Inv'
<1>1. /\ users' \in [Session -> User \cup {None}] /\ events' \in 0 .. MaxEvents
      /\ phase' \in {"running", "stopping", "down"} /\ queue' \in Seq(Event)
      /\ UNCHANGED <<actors, runtimes, logon, relaunch, logged, hosts, owner, auth>>
  <2>1. CASE \E s \in Session, u \in User : SignIn(s, u)
    <3>1. PICK s \in Session, u \in User : SignIn(s, u) BY <2>1
    <3>2. Logon(s) \in Event BY DEF Event
    <3> QED BY <3>1, <3>2, NotifyTyped DEF SignIn, Inv, TypeOK
  <2>2. CASE \E s \in Session : SignOut(s) \/ SignInAgain(s)
    <3>1. PICK s \in Session : SignOut(s) \/ SignInAgain(s) BY <2>2
    <3>2. Logon(s) \in Event /\ Logoff(s) \in Event BY DEF Event
    <3> QED BY <3>1, <3>2, NotifyTyped DEF SignOut, SignInAgain, Inv, TypeOK
  <2>3. CASE RequestStop
    <3>1. Stop \in Event BY DEF Event
    <3> QED BY <2>3, <3>1, NotifyTyped DEF RequestStop, Inv, TypeOK
  <2>4. CASE ServiceStarts
    <3>1. queue' \in Seq(Event) BY <2>4, ReconciledIsQueue DEF ServiceStarts
    <3> QED BY <2>4, <3>1, SessionAssumption DEF ServiceStarts, Inv, TypeOK
  <2> QED BY <2>1, <2>2, <2>3, <2>4
<1> QED BY <1>1 DEF Inv, TypeOK, RuntimesMatchActors, Held, Alive, ActorsOf, Event

\* The end of the service closes every pipe it held.
LEMMA EndKeepsInv ==
  ASSUME Inv, ServiceCrashes \/ ServiceEnds
  PROVE  Inv'
<1>1. events' \in 0 .. MaxEvents
  BY SessionAssumption DEF ServiceCrashes, ServiceEnds, Inv, TypeOK
<1>2. Ends BY DEF ServiceCrashes, ServiceEnds
<1> QED BY <1>1, <1>2 DEF Ends, Down, Inv, TypeOK, RuntimesMatchActors, Held, Alive, ActorsOf

\* A launch, or none, from actors that go together with the runtimes left.
LEMMA LogonKeepsInv ==
  ASSUME Inv, logon = None, NEW s \in Session, NEW existing \in [Key -> MountActor \cup {None}],
         SessionLogon(s, existing),
         UNCHANGED <<users, events, phase>>, queue' \in Seq(Event),
         runtimes' \subseteq runtimes, relaunch' \subseteq runtimes',
         \A k \in Key : existing[k] = None \/ existing[k] = actors[k],
         \A g \in runtimes' : owner[g] \in Key /\ existing[owner[g]] # None /\ existing[owner[g]].generation = g,
         \A k \in Key : existing[k] # None /\ existing[k].state = "Mounted" => existing[k].generation \in runtimes'
  PROVE  Inv'
<1>1. CASE actors' = existing /\ logon' = None /\ UNCHANGED <<logged, hosts, owner, auth>>
  BY <1>1 DEF Inv, TypeOK, RuntimesMatchActors, Held, Alive, ActorsOf, Event
<1>2. CASE \E g \in Generation :
              /\ users[s] # None /\ existing[<<s, users[s]>>] = None
              /\ actors' = existing /\ Launch(g, <<s, users[s]>>)
  <2>1. PICK g \in Generation :
              /\ users[s] # None /\ existing[<<s, users[s]>>] = None
              /\ actors' = existing /\ Launch(g, <<s, users[s]>>)
    BY <1>2
  <2> DEFINE k == <<s, users[s]>>
  <2>2. k \in Key BY <2>1 DEF Inv, TypeOK, Key
  <2>3. g \notin runtimes BY <2>1 DEF Launch, Inv
  <2> HIDE DEF k
  <2>4. Launch(g, k) /\ existing[k] = None /\ actors' = existing BY <2>1 DEF k
  <2>5. TypeOK' BY <2>2, <2>4 DEF Launch, Inv, TypeOK, Event
  <2>6. RuntimesMatchActors'
    <3>1. \A e \in runtimes' : owner'[e] = owner[e] BY <2>3, <2>4 DEF Launch, Inv, TypeOK
    <3> QED BY <2>4, <3>1 DEF RuntimesMatchActors, ActorsOf
  <2>7. \A e \in Generation : Held(e)' => e \in logged'
    BY <2>4 DEF Launch, Held, Inv, TypeOK
  <2>8. \A e, f \in logged' : Alive(e)' /\ Alive(f)' => e = f
    BY <2>4 DEF Launch, LogIsFree, Alive, Inv, TypeOK
  <2>9. \A e \in Generation :
            IF hosts'[e] = "none" THEN auth'[e] = "none" /\ e \notin runtimes' ELSE owner'[e] \in Key
    BY <2>2, <2>4 DEF Launch, Inv, TypeOK
  <2>10. logon' # None => hosts'[logon'] # "none" /\ actors'[owner'[logon']] = None
    BY <2>4 DEF Launch, Inv, TypeOK
  <2> QED BY <2>5, <2>6, <2>7, <2>8, <2>9, <2>10 DEF Inv
<1> QED BY <1>1, <1>2 DEF SessionLogon

\* What session_logon makes of the handshake's result.
LEMMA FinishKeepsInv ==
  ASSUME Inv, HandshakeSucceeds \/ HandshakeFails
  PROVE  Inv'
<1> DEFINE g == logon
           made(state) == [generation |-> g, state |-> state, rejectNewOpens |-> FALSE,
                           diagnostic |-> state = "Failed"]
<1>1. g \in Generation /\ g # None /\ owner[g] \in Key /\ actors[owner[g]] = None /\ hosts[g] # "none"
  BY DEF HandshakeSucceeds, HandshakeFails, Inv, TypeOK
<1>2. \A state \in {"Mounted", "Failed"} :
          made(state) \in MountActor /\ made(state) # None /\ made(state).generation = g /\ made(state).state = state
  <2>1. \A state \in {"Mounted", "Failed"} : (state = "Failed") \in BOOLEAN OBVIOUS
  <2>2. \A state \in {"Mounted", "Failed"} : made(state) \in MountActor
    BY <1>1, <2>1 DEF MountActor, MountState
  <2> QED BY <2>2, SessionAssumption, Zenon
<1> HIDE DEF made
<1>3. CASE HandshakeSucceeds
  <2>1. /\ actors' = [actors EXCEPT ![owner[g]] = made("Mounted")] /\ logon' = None
        /\ runtimes' = runtimes \cup {g} /\ auth' = [auth EXCEPT ![g] = "closed"] /\ auth[g] = "ok"
        /\ UNCHANGED <<users, events, phase, queue, relaunch, logged, owner, hosts>>
    BY <1>3 DEF HandshakeSucceeds, FinishLogon, made
  <2> HIDE DEF g
  <2>2. TypeOK' BY <1>1, <1>2, <2>1 DEF Inv, TypeOK
  <2>3. RuntimesMatchActors' BY <1>1, <1>2, <2>1 DEF Inv, TypeOK, RuntimesMatchActors, ActorsOf
  <2> QED BY <1>1, <2>1, <2>2, <2>3 DEF Inv, TypeOK, Held, Alive
<1>4. CASE HandshakeFails
  <2>1. /\ actors' = [actors EXCEPT ![owner[g]] = made("Failed")] /\ logon' = None
        /\ hosts' \in {hosts, [hosts EXCEPT ![g] = "exited"]}
        /\ UNCHANGED <<users, events, phase, queue, relaunch, logged, owner, runtimes, auth>>
    BY <1>4 DEF HandshakeFails, FinishLogon, made
  <2> HIDE DEF g
  <2>2. TypeOK' BY <1>1, <1>2, <2>1 DEF Inv, TypeOK
  <2>3. RuntimesMatchActors' BY <1>1, <1>2, <2>1 DEF Inv, TypeOK, RuntimesMatchActors, ActorsOf
  <2> QED BY <1>1, <2>1, <2>2, <2>3 DEF Inv, TypeOK, Held, Alive
<1> QED BY <1>3, <1>4

\* The other steps of the session thread.
LEMMA ThreadKeepsInv ==
  ASSUME Inv, HandleLogon \/ HandleLogoff \/ HandleStop \/ CheckHostHealth \/ (\E g \in Generation : Relaunch(g))
  PROVE  Inv'
<1>1. CASE HandleLogon
  <2>1. Head(queue).session \in Session /\ queue' \in Seq(Event)
    BY <1>1, HeadIsEvent DEF HandleLogon, Inv
  <2>2. /\ SessionLogon(Head(queue).session, actors) /\ logon = None
        /\ UNCHANGED <<users, events, phase, runtimes, relaunch>>
    BY <1>1 DEF HandleLogon, LogsOn, Idle
  <2>3. /\ actors \in [Key -> MountActor \cup {None}] /\ relaunch' \subseteq runtimes'
        /\ \A g \in runtimes' : owner[g] \in Key /\ actors[owner[g]] # None /\ actors[owner[g]].generation = g
        /\ \A k \in Key : actors[k] # None /\ actors[k].state = "Mounted" => actors[k].generation \in runtimes'
    BY <2>2 DEF Inv, TypeOK, RuntimesMatchActors, ActorsOf
  <2> QED BY <2>1, <2>2, <2>3, LogonKeepsInv
<1>2. CASE HandleLogoff
  <2>1. queue' \in Seq(Event) BY <1>2, HeadIsEvent, Zenon DEF HandleLogoff, Inv
  <2>2. ASSUME NEW k \in Key
        PROVE  /\ actors'[k] \in MountActor \cup {None}
               /\ actors'[k] = None <=> actors[k] = None
               /\ actors[k] # None => actors'[k].generation = actors[k].generation
               /\ actors'[k] # None /\ actors'[k].state = "Mounted" => actors[k].state = "Mounted"
    <3>1. CASE actors[k] # None /\ k[1] = Head(queue).session
      <4>1. actors[k] \in MountActor /\ actors'[k] = [actors[k] EXCEPT !.state = "Draining", !.rejectNewOpens = TRUE]
        BY <1>2, <3>1, Zenon DEF HandleLogoff, Inv, TypeOK
      <4>2. /\ actors'[k] \in MountActor
            /\ actors'[k].generation = actors[k].generation /\ actors'[k].state = "Draining"
        BY <4>1, Zenon DEF MountActor, MountState
      <4> QED BY <3>1, <4>2, SessionAssumption
    <3>2. CASE ~(actors[k] # None /\ k[1] = Head(queue).session)
      <4>1. actors'[k] = actors[k] BY <1>2, <3>2, Zenon DEF HandleLogoff
      <4> QED BY <4>1 DEF Inv, TypeOK
    <3> QED BY <3>1, <3>2
  <2>3. actors' \in [Key -> MountActor \cup {None}] BY <1>2, <2>2, Zenon DEF HandleLogoff
  <2>4. UNCHANGED <<users, events, phase, runtimes, logon, relaunch, logged, hosts, owner, auth>> /\ logon = None
    BY <1>2, Zenon DEF HandleLogoff, Idle
  <2>5. TypeOK' BY <2>1, <2>3, <2>4 DEF Inv, TypeOK, Event
  <2>6. RuntimesMatchActors' BY <2>2, <2>4 DEF Inv, RuntimesMatchActors, ActorsOf
  <2> QED BY <2>4, <2>5, <2>6 DEF Inv, Held, Alive
<1>3. CASE HandleStop
  <2>1. ASSUME NEW k \in Key
        PROVE  /\ actors'[k] \in MountActor \cup {None}
               /\ actors'[k] # None => actors'[k].state # "Mounted"
    <3>1. actors[k] \in MountActor \cup {None} BY Zenon DEF Inv, TypeOK
    <3>2. CASE actors[k] = None
      <4>1. actors'[k] = None BY <1>3, <3>2, Zenon DEF HandleStop
      <4> QED BY <4>1
    <3>3. CASE actors[k] # None
      <4>1. actors'[k] = [actors[k] EXCEPT !.state = "Stopped", !.rejectNewOpens = TRUE]
        BY <1>3, <3>3, Zenon DEF HandleStop
      <4>2. actors'[k] \in MountActor /\ actors'[k].state = "Stopped"
        BY <3>1, <3>3, <4>1, Zenon DEF MountActor, MountState
      <4> QED BY <4>2
    <3> QED BY <3>2, <3>3
  <2>2. actors' \in [Key -> MountActor \cup {None}] BY <1>3, <2>1, Zenon DEF HandleStop
  <2>3. /\ phase' = "stopping" /\ queue' = << >> /\ runtimes' = {} /\ logon = None /\ relaunch = {}
        /\ UNCHANGED <<users, events, logon, relaunch, logged, hosts, owner, auth>>
    BY <1>3, Zenon DEF HandleStop, Idle
  <2>4. TypeOK' BY <2>2, <2>3 DEF Inv, TypeOK
  <2>5. RuntimesMatchActors' BY <2>1, <2>3 DEF RuntimesMatchActors
  <2> QED BY <2>3, <2>4, <2>5 DEF Inv, TypeOK, Held, Alive
<1>4. CASE CheckHostHealth
  BY <1>4 DEF CheckHostHealth, Lost, Inv, TypeOK, RuntimesMatchActors, Held, Alive, ActorsOf
<1>5. CASE \E g \in Generation : Relaunch(g)
  <2>1. PICK g \in Generation : Relaunch(g) BY <1>5
  <2> DEFINE existing == [k \in Key |-> IF k \in ActorsOf(g) THEN None ELSE actors[k]]
  <2>2. g \in runtimes /\ owner[g] \in Key /\ owner[g][1] \in Session
    BY <2>1 DEF Relaunch, Inv, TypeOK, RuntimesMatchActors, Key
  <2>3. /\ SessionLogon(owner[g][1], existing) /\ logon = None
        /\ runtimes' = runtimes \ {g} /\ relaunch' = relaunch \ {g}
        /\ UNCHANGED <<users, events, phase, queue>>
    BY <2>1 DEF Relaunch
  <2>4. existing \in [Key -> MountActor \cup {None}] BY DEF Inv, TypeOK
  <2>5. \A k \in Key : existing[k] = None \/ existing[k] = actors[k] OBVIOUS
  <2>6. \A e \in runtimes' : owner[e] \in Key /\ existing[owner[e]] # None /\ existing[owner[e]].generation = e
    BY <2>3 DEF Inv, RuntimesMatchActors, ActorsOf
  <2>7. \A k \in Key : existing[k] # None /\ existing[k].state = "Mounted" => existing[k].generation \in runtimes'
    BY <2>3 DEF Inv, RuntimesMatchActors, ActorsOf
  <2>8. queue' \in Seq(Event) /\ relaunch' \subseteq runtimes' /\ runtimes' \subseteq runtimes
    BY <2>3 DEF Inv, TypeOK, Event
  <2> HIDE DEF existing
  <2> QED BY <2>2, <2>3, <2>4, <2>5, <2>6, <2>7, <2>8, LogonKeepsInv
<1> QED BY <1>1, <1>2, <1>3, <1>4, <1>5

\* The hosts and the threads that authenticate them bring no host to life and
\* open no pipe again.
LEMMA HostKeepsInv ==
  ASSUME Inv, NEW g \in Generation,
         \/ HostConnects(g) \/ AuthAccepts(g) \/ HostMounts(g) \/ HostAcknowledges(g)
         \/ AuthFails(g) \/ PipeTaken(g) \/ ResultDropped(g) \/ HostLeaves(g) \/ HostDies(g)
  PROVE  Inv'
<1>1. UNCHANGED <<users, events, phase, queue, actors, runtimes, logon, relaunch, logged, owner>>
  BY DEF HostConnects, AuthAccepts, HostMounts, HostAcknowledges, AuthFails, PipeTaken, ResultDropped,
         HostLeaves, HostDies, HostStep, service
<1>2. /\ \/ UNCHANGED hosts
         \/ /\ Alive(g)
            /\ \E to \in {"connected", "bootstrapped", "mounted", "serving", "exited"} :
                  hosts' = [hosts EXCEPT ![g] = to]
      /\ \/ UNCHANGED auth
         \/ /\ auth[g] \in {"connecting", "talking", "ok"}
            /\ \E to \in {"talking", "ok", "closed"} : auth' = [auth EXCEPT ![g] = to]
  BY DEF HostConnects, AuthAccepts, HostMounts, HostAcknowledges, AuthFails, PipeTaken, ResultDropped,
         HostLeaves, HostDies, HostStep, Alive
<1>3. TypeOK' BY <1>1, <1>2, SMTT(20) DEF Inv, TypeOK
<1>4. RuntimesMatchActors' BY <1>1 DEF Inv, RuntimesMatchActors, ActorsOf
<1>5. \A e \in Generation : (Alive(e)' => Alive(e)) /\ (Held(e)' => Held(e)) /\ (hosts'[e] = "none" <=> hosts[e] = "none")
  BY <1>1, <1>2 DEF Inv, TypeOK, Alive, Held
<1>6. \A e \in Generation : hosts[e] = "none" => auth'[e] = "none"
  BY <1>2 DEF Inv, TypeOK
<1> QED BY <1>1, <1>3, <1>4, <1>5, <1>6 DEF Inv, TypeOK

\* Every step keeps the invariant.
LEMMA StepKeepsInv == Inv /\ [Next]_vars => Inv'
<1> SUFFICES ASSUME Inv, [Next]_vars PROVE Inv' OBVIOUS
<1>1. CASE Next
  BY <1>1, WindowsKeepsInv, EndKeepsInv, FinishKeepsInv, ThreadKeepsInv, HostKeepsInv DEF Next, SessionThread
<1>2. CASE UNCHANGED vars
  BY <1>2 DEF vars, Inv, TypeOK, RuntimesMatchActors, Held, Alive, ActorsOf
<1> QED BY <1>1, <1>2

\* The invariant of the session monitor holds in every state, for any finite
\* set of sessions, any users and any bound on hosts and events.
THEOREM Invariance == Spec => []Inv
<1>1. Init => Inv BY InitInv
<1>2. Inv /\ [Next]_vars => Inv' BY StepKeepsInv
<1> QED BY <1>1, <1>2, PTL DEF Spec

\* check_host_health sees every runtime, and a mounted actor has one.
THEOREM RuntimesAlwaysMatch == Spec => []RuntimesMatchActors
<1>1. Inv => RuntimesMatchActors BY DEF Inv
<1> QED BY <1>1, Invariance, PTL

\* Of two live hosts of a user the service holds the pipe of one at most, in
\* whatever order sign-ins, time limits, late results and crashes come: the
\* host log that launch opens admits one live host per service process.
THEOREM StoreHasOneHost == Spec => []OneHostPerStore
<1>1. Inv => OneHostPerStore BY DEF Inv, OneHostPerStore
<1> QED BY <1>1, Invariance, PTL

-----------------------------------------------------------------------------
(* Firmware: a structure in a table.                                       *)

LEMMA Element == ASSUME NEW q \in Seq(Nat), NEW j \in 1..Len(q) PROVE q[j] \in Nat
OBVIOUS

LEMMA StructureTyped ==
  ASSUME NEW s \in Structure
  PROVE  /\ s.type \in 0..1 /\ s.body \in Seq(Nat) /\ s.at \in Nat /\ s.area \in Nat
         /\ s.texts \in Seq(Seq(Nat)) /\ s.ends \in Seq(Nat)
BY DEF Structure

LEMMA EndTyped ==
  ASSUME NEW s \in Structure, NEW b \in Seq(Nat), Described(s, b)
  PROVE  /\ AreaEnd(s) \in Nat /\ s.area <= AreaEnd(s) /\ AreaEnd(s) <= Len(b)
         /\ \A k \in 1..Len(s.texts) :
               TextStart(s, k) \in Nat /\ s.ends[k] \in Nat /\ s.texts[k] \in Seq(Nat) /\ s.ends[k] <= AreaEnd(s)
         /\ s.texts # << >> => Len(s.texts) \in 1..Len(s.texts) /\ AreaEnd(s) = s.ends[Len(s.texts)] /\ AreaEnd(s) < Len(b)
<1>1. /\ s.area \in Nat /\ s.texts \in Seq(Seq(Nat)) /\ s.ends \in Seq(Nat) BY StructureTyped, Zenon
<1>2. Len(s.ends) = Len(s.texts) /\ s.area <= Len(b) BY Zenon DEF Described, Formatted
<1>3. ASSUME NEW k \in 1..Len(s.texts)
      PROVE  /\ TextStart(s, k) \in Nat /\ s.ends[k] \in Nat /\ s.texts[k] \in Seq(Nat)
  <2>1. s.ends[k] \in Nat /\ s.texts[k] \in Seq(Nat) BY <1>1, <1>2
  <2>2. k # 1 => s.ends[k - 1] \in Nat
    <3>1. k # 1 => k - 1 \in 1..Len(s.ends) BY <1>1, <1>2
    <3> QED BY <1>1, <3>1, Element, Zenon
  <2>3. TextStart(s, k) \in Nat BY <1>1, <2>2 DEF TextStart
  <2> QED BY <2>1, <2>3
<1>4. s.texts # << >> => Len(s.texts) \in 1..Len(s.texts) BY <1>1
<1>5. s.texts # << >> => AreaEnd(s) = s.ends[Len(s.texts)] BY <1>2, Zenon DEF AreaEnd
<1>6. s.texts = << >> => AreaEnd(s) = s.area BY Zenon DEF AreaEnd
<1>7. s.texts # << >> => AreaEnd(s) \in Nat /\ s.area <= AreaEnd(s) /\ AreaEnd(s) < Len(b)
  <2> DEFINE n == Len(s.texts)
  <2>1. SUFFICES ASSUME s.texts # << >> PROVE AreaEnd(s) \in Nat /\ s.area <= AreaEnd(s) /\ AreaEnd(s) < Len(b) OBVIOUS
  <2>2. n \in 1..n BY <1>4, <2>1
  <2>3. TextStart(s, n) \in Nat /\ s.ends[n] \in Nat /\ s.texts[n] \in Seq(Nat) BY <1>3, <2>2, Zenon
  <2>4. s.area <= TextStart(s, n) /\ s.ends[n] = TextStart(s, n) + Len(s.texts[n]) /\ s.ends[n] < Len(b)
    BY <2>2, Zenon DEF Described, TextIn
  <2> HIDE DEF n
  <2>5. s.area <= s.ends[n] BY <1>1, <2>3, <2>4
  <2> QED BY <1>5, <2>1, <2>3, <2>4, <2>5, Zenon DEF n
<1>8. ASSUME NEW k \in 1..Len(s.texts) PROVE s.ends[k] <= AreaEnd(s)
  <2>1. s.texts # << >> BY <1>1
  <2>2. CASE k = Len(s.texts)
    <3>1. s.ends[k] = AreaEnd(s) /\ AreaEnd(s) \in Nat BY <1>5, <1>7, <2>1, <2>2, Zenon
    <3> QED BY <3>1
  <2>3. CASE k # Len(s.texts)
    <3>1. k < Len(s.texts) BY <1>1, <2>3
    <3>2. s.ends[k] < AreaEnd(s) BY <3>1, Zenon DEF Described, TextIn
    <3>3. s.ends[k] \in Nat /\ AreaEnd(s) \in Nat BY <1>3, <1>7, <2>1, Zenon
    <3> QED BY <3>2, <3>3
  <2> QED BY <2>2, <2>3
<1>9. AreaEnd(s) \in Nat /\ s.area <= AreaEnd(s) /\ AreaEnd(s) <= Len(b)
  <2>1. CASE s.texts = << >> BY <1>1, <1>2, <1>6, <2>1
  <2>2. CASE s.texts # << >>
    <3>1. AreaEnd(s) \in Nat /\ s.area <= AreaEnd(s) /\ AreaEnd(s) < Len(b) BY <1>7, <2>2, Zenon
    <3> QED BY <3>1
  <2> QED BY <2>1, <2>2
<1> QED BY <1>3, <1>4, <1>5, <1>7, <1>8, <1>9, Zenon

\* What is behind a structure does not change it.
LEMMA Longer ==
  ASSUME NEW b \in Seq(Nat), NEW e \in Seq(Nat)
  PROVE  /\ b \o e \in Seq(Nat) /\ Len(b \o e) = Len(b) + Len(e) /\ Len(b) <= Len(b \o e)
         /\ \A i \in 1..Len(b) : (b \o e)[i] = b[i]
         /\ \A i \in 1..Len(e) : (b \o e)[Len(b) + i] = e[i]
OBVIOUS

Continues(c, b) == Len(b) <= Len(c) /\ \A i \in 1..Len(b) : c[i] = b[i]

LEMMA SameByte ==
  ASSUME NEW b \in Seq(Nat), NEW c, Continues(c, b), NEW i \in Nat, 1 <= i, i <= Len(b)
  PROVE  c[i] = b[i]
<1>1. i \in 1..Len(b) OBVIOUS
<1> QED BY <1>1, Zenon DEF Continues

LEMMA Within ==
  ASSUME NEW x \in Nat, NEW n \in Nat, NEW y, y = x + n, NEW l \in Nat, y < l
  PROVE  /\ y + 1 \in Nat /\ 1 <= y + 1 /\ y + 1 <= l
         /\ \A i \in 1..n : x + i \in Nat /\ 1 <= x + i /\ x + i <= l
OBVIOUS

LEMMA HeaderWithin ==
  ASSUME NEW x \in Nat, NEW n \in Nat, NEW y, y = x + Header + n, NEW l \in Nat, y <= l
  PROVE  /\ x + 1 \in Nat /\ 1 <= x + 1 /\ x + 1 <= l
         /\ x + 2 \in Nat /\ 1 <= x + 2 /\ x + 2 <= l
         /\ n >= 1 => x + Header + 1 \in Nat /\ 1 <= x + Header + 1 /\ x + Header + 1 <= l
BY DEF Header

LEMMA DescribedLonger ==
  ASSUME NEW s \in Structure, NEW b \in Seq(Nat), NEW c \in Seq(Nat), Described(s, b), Continues(c, b)
  PROVE  Described(s, c)
<1>0. s.at \in Nat /\ s.area \in Nat /\ Len(b) \in Nat /\ Len(c) \in Nat /\ Len(b) <= Len(c)
  <2>1. Len(b) \in Nat /\ Len(c) \in Nat OBVIOUS
  <2> QED BY <2>1, StructureTyped, Zenon DEF Continues
<1>1. Formatted(s, c)
  <2>0. Len(s.body) \in Nat /\ (s.body # << >> => Len(s.body) >= 1)
    <3>1. s.body \in Seq(Nat) BY StructureTyped, Zenon
    <3> QED BY <3>1
  <2>1. s.area = s.at + Header + Len(s.body) /\ s.area <= Len(b) BY Zenon DEF Described, Formatted
  <2>2. /\ b[s.at + 1] = s.type /\ b[s.at + 2] = Header + Len(s.body)
        /\ (s.body # << >> => b[s.at + Header + 1] = s.body[1])
    BY Zenon DEF Described, Formatted
  <2>3. /\ s.at + 1 \in Nat /\ 1 <= s.at + 1 /\ s.at + 1 <= Len(b)
        /\ s.at + 2 \in Nat /\ 1 <= s.at + 2 /\ s.at + 2 <= Len(b)
    BY <1>0, <2>0, <2>1, HeaderWithin, Zenon
  <2>4. s.body # << >> => /\ s.at + Header + 1 \in Nat /\ 1 <= s.at + Header + 1 /\ s.at + Header + 1 <= Len(b)
    BY <1>0, <2>0, <2>1, HeaderWithin, Zenon
  <2>5. c[s.at + 1] = b[s.at + 1] /\ c[s.at + 2] = b[s.at + 2] BY <2>3, SameByte, Zenon
  <2>6. s.body # << >> => c[s.at + Header + 1] = b[s.at + Header + 1] BY <2>4, SameByte, Zenon
  <2>7. s.area <= Len(c) BY <1>0, <2>1
  <2> QED BY <2>1, <2>2, <2>5, <2>6, <2>7, Zenon DEF Formatted
<1>2. ASSUME NEW k \in 1..Len(s.texts) PROVE TextIn(s, k, c)
  <2>1. TextIn(s, k, b) BY Zenon DEF Described
  <2>2. TextStart(s, k) \in Nat /\ s.ends[k] \in Nat /\ Len(s.texts[k]) \in Nat
    <3>1. TextStart(s, k) \in Nat /\ s.ends[k] \in Nat /\ s.texts[k] \in Seq(Nat) BY EndTyped, Zenon
    <3> QED BY <3>1
  <2>3. s.ends[k] < Len(b) /\ s.ends[k] = TextStart(s, k) + Len(s.texts[k]) BY <2>1, Zenon DEF TextIn
  <2>4. s.ends[k] + 1 \in Nat /\ 1 <= s.ends[k] + 1 /\ s.ends[k] + 1 <= Len(b) /\ s.ends[k] < Len(c)
    <3>1. ASSUME NEW y \in Nat, NEW l \in Nat, NEW m \in Nat, y < l, l <= m PROVE y < m BY <3>1
    <3>2. s.ends[k] < Len(c) BY <1>0, <2>2, <2>3, <3>1, Zenon
    <3> QED BY <1>0, <2>2, <2>3, <3>2, Within, Zenon
  <2>5. c[s.ends[k] + 1] = b[s.ends[k] + 1] BY <2>4, SameByte, Zenon
  <2>6. ASSUME NEW i \in 1..Len(s.texts[k]) PROVE c[TextStart(s, k) + i] = b[TextStart(s, k) + i]
    <3>1. TextStart(s, k) + i \in Nat /\ 1 <= TextStart(s, k) + i /\ TextStart(s, k) + i <= Len(b)
      BY <1>0, <2>2, <2>3, Within, Zenon
    <3> QED BY <3>1, SameByte, Zenon
  <2> QED BY <2>1, <2>4, <2>5, <2>6, Zenon DEF TextIn
<1>3. SoleEnd(s, c)
  <2>1. SUFFICES ASSUME NEW p \in s.area..AreaEnd(s) - 1 PROVE c[p + 1] # 0 \/ c[p + 2] # 0 BY Zenon DEF SoleEnd
  <2>2. b[p + 1] # 0 \/ b[p + 2] # 0 BY <2>1, Zenon DEF Described, SoleEnd
  <2>3. AreaEnd(s) \in Nat /\ (s.texts # << >> => AreaEnd(s) < Len(b)) /\ (s.texts = << >> => AreaEnd(s) = s.area)
    BY EndTyped, Zenon DEF AreaEnd
  <2>4. /\ p + 1 \in Nat /\ 1 <= p + 1 /\ p + 1 <= Len(b) /\ p + 2 \in Nat /\ 1 <= p + 2 /\ p + 2 <= Len(b) BY <1>0, <2>3
  <2>5. c[p + 1] = b[p + 1] /\ c[p + 2] = b[p + 2] BY <2>4, SameByte, Zenon
  <2> QED BY <2>2, <2>5, Zenon
<1> QED BY <1>1, <1>2, <1>3, Zenon DEF Described

LEMMA ClosedLonger ==
  ASSUME NEW s \in Structure, NEW b \in Seq(Nat), NEW c \in Seq(Nat), Described(s, b), Closed(s, b), Continues(c, b)
  PROVE  Closed(s, c)
<1>1. AreaEnd(s) \in Nat BY EndTyped, Zenon
<1>2. AreaEnd(s) + 2 <= Len(b) /\ Len(b) <= Len(c) BY Zenon DEF Closed, Continues
<1>3. /\ AreaEnd(s) + 1 \in Nat /\ 1 <= AreaEnd(s) + 1 /\ AreaEnd(s) + 1 <= Len(b)
      /\ AreaEnd(s) + 2 \in Nat /\ 1 <= AreaEnd(s) + 2 /\ AreaEnd(s) + 2 <= Len(b) /\ AreaEnd(s) + 2 <= Len(c)
  <2>1. Len(b) \in Nat /\ Len(c) \in Nat OBVIOUS
  <2>2. ASSUME NEW x \in Nat, NEW l \in Nat, NEW m \in Nat, x + 2 <= l, l <= m
        PROVE  /\ x + 1 \in Nat /\ 1 <= x + 1 /\ x + 1 <= l
               /\ x + 2 \in Nat /\ 1 <= x + 2 /\ x + 2 <= l /\ x + 2 <= m
    BY <2>2
  <2> QED BY <1>1, <1>2, <2>1, <2>2, Zenon
<1>4. c[AreaEnd(s) + 1] = b[AreaEnd(s) + 1] /\ c[AreaEnd(s) + 2] = b[AreaEnd(s) + 2] BY <1>2, <1>3, SameByte, Zenon
<1> QED BY <1>3, <1>4, Zenon DEF Closed

-----------------------------------------------------------------------------
(* The reader at a structure.                                              *)

LEMMA AtStructure ==
  ASSUME TableInv, NEW k \in 1..latest
  PROVE  /\ structures[k] \in Structure /\ Described(structures[k], table) /\ structures[k].at = Place(k)
         /\ table \in Seq(Nat) /\ Len(table) \in Nat /\ latest \in Nat
         /\ AreaEnd(structures[k]) \in Nat /\ structures[k].area \in Nat /\ structures[k].at \in Nat
         /\ structures[k].at <= structures[k].area /\ structures[k].area <= AreaEnd(structures[k])
         /\ AreaEnd(structures[k]) <= Len(table)
<1>1. table \in Seq(Nat) /\ structures \in Seq(Structure) BY Zenon DEF TableInv
<1>2. Len(table) \in Nat /\ latest \in Nat BY <1>1 DEF latest
<1>3. structures[k] \in Structure BY <1>1 DEF latest
<1>4. Described(structures[k], table) /\ structures[k].at = Place(k) BY Zenon DEF TableInv
<1>5. structures[k].at \in Nat /\ structures[k].area \in Nat /\ structures[k].body \in Seq(Nat)
  BY <1>3, StructureTyped, Zenon
<1>6. /\ AreaEnd(structures[k]) \in Nat /\ structures[k].area <= AreaEnd(structures[k])
      /\ AreaEnd(structures[k]) <= Len(table)
  BY <1>1, <1>3, <1>4, EndTyped, Zenon
<1>7. structures[k].at <= structures[k].area
  <2>1. ASSUME NEW x \in Nat, NEW n \in Nat PROVE x <= x + Header + n BY DEF Header
  <2>2. Len(structures[k].body) \in Nat BY <1>5
  <2>3. structures[k].area = structures[k].at + Header + Len(structures[k].body) BY <1>4, Zenon DEF Described, Formatted
  <2> QED BY <1>5, <2>1, <2>2, <2>3, Zenon
<1> QED BY <1>1, <1>2, <1>3, <1>4, <1>5, <1>6, <1>7, Zenon

LEMMA AtReached ==
  ASSUME TableInv, FinderInv, step # "strings", reached <= latest, NEW s, s = structures[reached]
  PROVE  /\ reached \in 1..latest /\ s \in Structure /\ Described(s, table) /\ Closed(s, table)
         /\ offset \in Nat /\ length = Header + Len(s.body) /\ Len(s.body) \in Nat
         /\ offset + length = s.area /\ table[offset + 1] = s.type
         /\ s.body = << >> => length <= Header
         /\ s.body # << >> => ~(length <= Header) /\ table[offset + Header + 1] = s.body[1] /\ s.body[1] \in Nat
<1>1. latest \in Nat /\ reached \in 1..latest
  <2>1. latest \in Nat BY DEF TableInv, latest
  <2> QED BY <2>1 DEF FinderInv
<1>2. s \in Structure /\ Described(s, table) /\ s.at = Place(reached) BY <1>1, AtStructure, Zenon
<1>3. Closed(s, table) BY <1>1, Zenon DEF TableInv
<1>4. offset = s.at /\ s.at \in Nat /\ s.body \in Seq(Nat) BY <1>2, StructureTyped, Zenon DEF FinderInv
<1>5. /\ s.area = s.at + Header + Len(s.body) /\ table[s.at + 1] = s.type /\ table[s.at + 2] = Header + Len(s.body)
      /\ (s.body # << >> => table[s.at + Header + 1] = s.body[1])
  BY <1>2, Zenon DEF Described, Formatted
<1>6. Len(s.body) \in Nat /\ (s.body = << >> => Len(s.body) = 0) /\ (s.body # << >> => Len(s.body) >= 1 /\ s.body[1] \in Nat)
  BY <1>4
<1>7. length = Header + Len(s.body) BY <1>4, <1>5, Zenon DEF length
<1>8. ASSUME NEW x \in Nat, NEW n \in Nat
      PROVE  x + (Header + n) = x + Header + n /\ (n = 0 => Header + n <= Header) /\ (n >= 1 => ~(Header + n <= Header))
  BY DEF Header
<1> QED BY <1>1, <1>2, <1>3, <1>4, <1>5, <1>6, <1>7, <1>8, Zenon

\* No system structure is behind the reader.
LEMMA FirstIsAhead ==
  ASSUME TableInv, FinderInv, NEW k \in First
  PROVE  /\ k \in 1..latest /\ reached \in 1..latest /\ reached <= latest
         /\ IsSystem(reached) => k = reached
         /\ AreaEnd(structures[reached]) <= AreaEnd(structures[k])
<1>1. k \in 1..latest /\ IsSystem(k) /\ \A i \in 1..k - 1 : ~IsSystem(i) BY Zenon DEF First
<1>2. latest \in Nat BY DEF TableInv, latest
<1>3. reached \in 1..latest + 1 /\ \A i \in 1..reached - 1 : ~IsSystem(i) BY Zenon DEF FinderInv
<1>4. ~(k < reached)
  <2>1. k < reached => k \in 1..reached - 1 BY <1>1, <1>2, <1>3
  <2> QED BY <1>1, <1>3, <2>1, Zenon
<1>5. reached \in 1..latest /\ reached <= latest BY <1>1, <1>2, <1>3, <1>4
<1>6. IsSystem(reached) => k = reached
  <2>1. k # reached => reached \in 1..k - 1 BY <1>1, <1>2, <1>3, <1>4
  <2> QED BY <1>1, <2>1, Zenon
<1>7. AreaEnd(structures[reached]) <= AreaEnd(structures[k])
  <2>1. CASE k = reached
    <3>1. AreaEnd(structures[k]) \in Nat BY <1>1, AtStructure, Zenon
    <3> QED BY <2>1, <3>1
  <2>2. CASE k # reached
    <3>1. reached < k BY <1>1, <1>2, <1>3, <1>4, <2>2
    <3>2. AreaEnd(structures[reached]) + 2 <= structures[k].at BY <1>1, <1>5, <3>1, Zenon DEF TableInv
    <3>3. AreaEnd(structures[reached]) \in Nat BY <1>5, AtStructure, Zenon
    <3>4. /\ AreaEnd(structures[k]) \in Nat /\ structures[k].area \in Nat /\ structures[k].at \in Nat
          /\ structures[k].at <= structures[k].area /\ structures[k].area <= AreaEnd(structures[k])
      BY <1>1, AtStructure, Zenon
    <3>5. ASSUME NEW a \in Nat, NEW b \in Nat, NEW c \in Nat, NEW d \in Nat, a + 2 <= b, b <= c, c <= d PROVE a <= d BY <3>5
    <3> QED BY <3>2, <3>3, <3>4, <3>5, Zenon
  <2> QED BY <2>1, <2>2
<1> QED BY <1>1, <1>5, <1>6, <1>7, Zenon

LEMMA TableStays ==
  ASSUME TableInv, step # "strings", step' # "strings", table' = table, structures' = structures
  PROVE  TableInv'
<1>1. latest' = latest BY DEF latest
<1>2. \A k : Place(k)' = Place(k) BY Zenon DEF Place
<1>3. /\ table \in Seq(Nat) /\ structures \in Seq(Structure) /\ Len(table) = Place(latest + 1)
      /\ \A k \in 1..latest : Described(structures[k], table) /\ structures[k].at = Place(k)
      /\ \A k \in 1..latest : Closed(structures[k], table)
      /\ \A i, k \in 1..latest : i < k => AreaEnd(structures[i]) + 2 <= structures[k].at
  BY Zenon DEF TableInv
<1>4. /\ table' \in Seq(Nat) /\ structures' \in Seq(Structure) /\ Len(table') = Place(latest + 1)'
      /\ \A k \in 1..latest' : Described(structures'[k], table') /\ structures'[k].at = Place(k)'
      /\ \A k \in 1..latest' : Closed(structures'[k], table')
      /\ \A i, k \in 1..latest' : i < k => AreaEnd(structures'[i]) + 2 <= structures'[k].at
  BY <1>1, <1>2, <1>3, Zenon DEF Place
<1> QED BY <1>4, Zenon DEF TableInv

\* Nothing may be returned when the reader has not got the structure, or
\* when it is the first system structure and refers to no string but the
\* last.
LEMMA NothingIsRight ==
  ASSUME TableInv, FinderInv, step' = "done", serial' = {}, structures' = structures, size' = size,
         reached <= latest =>
             \/ ~(AreaEnd(structures[reached]) + 2 <= size)
             \/ /\ IsSystem(reached)
                /\ ~(/\ structures[reached].body # << >>
                     /\ structures[reached].body[1] \in 1..Len(structures[reached].texts) - 1)
  PROVE  SerialIsReferred'
<1>1. First' = First BY Zenon DEF First, latest, IsSystem
<1>2. ASSUME NEW k \in First PROVE Referred(structures[k])'
  <2>1. SUFFICES ASSUME structures[k].body # << >>, structures[k].body[1] \in 1..Len(structures[k].texts) - 1,
                        AreaEnd(structures[k]) + 2 <= size
                 PROVE  FALSE
    BY Zenon DEF Referred
  <2>2. /\ k \in 1..latest /\ reached \in 1..latest /\ reached <= latest /\ (IsSystem(reached) => k = reached)
        /\ AreaEnd(structures[reached]) <= AreaEnd(structures[k])
    BY FirstIsAhead, Zenon
  <2>3. AreaEnd(structures[reached]) \in Nat /\ AreaEnd(structures[k]) \in Nat BY <2>2, AtStructure, Zenon
  <2>4. size \in Nat BY DEF FinderInv
  <2>5. ASSUME NEW a \in Nat, NEW b \in Nat, NEW c \in Nat, a <= b, b + 2 <= c PROVE a + 2 <= c BY <2>5
  <2>6. AreaEnd(structures[reached]) + 2 <= size BY <2>1, <2>2, <2>3, <2>4, <2>5, Zenon
  <2> QED BY <2>1, <2>2, <2>6, Zenon
<1> QED BY <1>1, <1>2, Zenon DEF SerialIsReferred

LEMMA FinderStays ==
  ASSUME FinderInv, table' = table, structures' = structures, size' = size, reached' = reached, offset' = offset
  PROVE  FinderInv'
BY Zenon DEF FinderInv, latest, Place, IsSystem

-----------------------------------------------------------------------------
(* The steps of find_smbios_structure.                                     *)

LEMMA ReadTableStep ==
  ASSUME TableInv, ReadTable
  PROVE  TableInv' /\ FinderInv'
<1>1. table' = table /\ structures' = structures /\ step = "firmware" /\ step' = "finding" BY Zenon DEF ReadTable
<1>2. TableInv' BY <1>1, TableStays
<1>3. latest' = latest /\ latest \in Nat BY <1>1 DEF latest, TableInv
<1>4. reached' = 1 /\ offset' = 0 /\ size' \in 0..Len(table) BY Zenon DEF ReadTable
<1>5. reached' \in 1..latest' + 1 /\ \A i \in 1..reached' - 1 : FALSE BY <1>3, <1>4
<1>6. Place(reached)' = 0 BY <1>4, Zenon DEF Place
<1> QED BY <1>1, <1>2, <1>4, <1>5, <1>6, Zenon DEF FinderInv

LEMMA FindStructureStep ==
  ASSUME TableInv, FinderInv, FindStructure
  PROVE  TableInv' /\ FinderInv' /\ ScannerInv'
<1>1. /\ table' = table /\ structures' = structures /\ size' = size /\ reached' = reached /\ offset' = offset
      /\ step = "finding" /\ step' = "scanning" /\ index' = offset + length /\ InTable
  BY Zenon DEF FindStructure, source
<1>2. TableInv' BY <1>1, TableStays
<1>3. FinderInv' BY <1>1, FinderStays, Zenon
<1>4. reached <= latest
  <2>1. latest \in Nat /\ Len(table) \in Nat BY DEF TableInv, latest
  <2>2. Len(table) = Place(latest + 1) BY <1>1 DEF TableInv
  <2>3. size \in 0..Len(table) /\ reached \in 1..latest + 1 /\ offset = Place(reached) BY Zenon DEF FinderInv
  <2>4. reached = latest + 1 => offset = Len(table) BY <2>2, <2>3, Zenon
  <2>5. offset + Header <= size BY <1>1, Zenon DEF InTable
  <2>6. reached # latest + 1 BY <2>1, <2>3, <2>4, <2>5 DEF Header
  <2> QED BY <2>1, <2>3, <2>6
<1>5. reached \in 1..latest /\ offset + length = structures[reached].area BY <1>1, <1>4, AtReached, Zenon
<1>6. /\ structures[reached].area \in Nat /\ AreaEnd(structures[reached]) \in Nat
      /\ structures[reached].area <= AreaEnd(structures[reached])
  BY <1>5, AtStructure, Zenon
<1>7. ASSUME NEW a \in Nat, NEW b \in Nat, a <= b PROVE a \in a..b BY <1>7
<1>8. index' \in structures[reached].area..AreaEnd(structures[reached]) BY <1>1, <1>5, <1>6, <1>7, Zenon
<1> QED BY <1>1, <1>2, <1>3, <1>4, <1>8, Zenon DEF ScannerInv, latest

LEMMA FindNothingStep ==
  ASSUME TableInv, FinderInv, FindNothing
  PROVE  TableInv' /\ SerialIsReferred'
<1>1. /\ table' = table /\ structures' = structures /\ size' = size /\ step = "finding" /\ step' = "done"
      /\ serial' = {} /\ ~InTable
  BY Zenon DEF FindNothing, source, Answers
<1>2. TableInv' BY <1>1, TableStays
<1>3. ASSUME reached <= latest PROVE ~(AreaEnd(structures[reached]) + 2 <= size)
  <2> DEFINE s == structures[reached]
  <2>1. /\ reached \in 1..latest /\ offset \in Nat /\ length = Header + Len(s.body) /\ Len(s.body) \in Nat
        /\ offset + length = s.area
    BY <1>1, <1>3, AtReached, Zenon
  <2>2. s.area \in Nat /\ AreaEnd(s) \in Nat /\ s.area <= AreaEnd(s) BY <2>1, AtStructure, Zenon
  <2>3. size \in Nat BY DEF FinderInv
  <2>4. ASSUME NEW o \in Nat, NEW n \in Nat, NEW a, o + (Header + n) = a, NEW e \in Nat, a <= e, NEW z \in Nat, e + 2 <= z
        PROVE  o + Header <= z /\ Header + n >= Header /\ o + (Header + n) <= z
    BY <2>4 DEF Header
  <2>5. AreaEnd(s) + 2 <= size => InTable
    <3> HIDE DEF s
    <3> QED BY <2>1, <2>2, <2>3, <2>4, Zenon DEF InTable
  <2> QED BY <1>1, <2>5, Zenon
<1> QED BY <1>1, <1>2, <1>3, NothingIsRight, Zenon

\* The two zeros that the scan stops at are those behind the strings.
LEMMA AtEndIsEnd ==
  ASSUME TableInv, FinderInv, ScannerInv, step # "strings"
  PROVE  /\ reached \in 1..latest /\ index \in Nat /\ AreaEnd(structures[reached]) \in Nat
         /\ structures[reached].area \in Nat /\ structures[reached].area <= index
         /\ index <= AreaEnd(structures[reached])
         /\ AtEnd <=> index = AreaEnd(structures[reached])
<1> DEFINE s == structures[reached]
<1>1. reached <= latest /\ index \in s.area..AreaEnd(s) BY Zenon DEF ScannerInv
<1>2. reached \in 1..latest /\ Described(s, table) /\ Closed(s, table) BY <1>1, AtReached, Zenon
<1>3. s.area \in Nat /\ AreaEnd(s) \in Nat BY <1>2, AtStructure, Zenon
<1>4. index = AreaEnd(s) => AtEnd BY <1>2, Zenon DEF Closed, AtEnd
<1>5. ASSUME NEW a \in Nat, NEW e \in Nat, NEW i \in a..e
      PROVE  i \in Nat /\ a <= i /\ i <= e /\ (i # e => i \in a..e - 1)
  OBVIOUS
<1>6. index \in Nat /\ s.area <= index /\ index <= AreaEnd(s) /\ (index # AreaEnd(s) => index \in s.area..AreaEnd(s) - 1)
  BY <1>1, <1>3, <1>5, Zenon
<1>7. index # AreaEnd(s) => ~AtEnd BY <1>2, <1>6, Zenon DEF Described, SoleEnd, AtEnd
<1> QED BY <1>2, <1>3, <1>4, <1>6, <1>7, Zenon

LEMMA ScanNextStep ==
  ASSUME TableInv, FinderInv, ScannerInv, ScanNext
  PROVE  TableInv' /\ FinderInv' /\ ScannerInv'
<1>1. /\ table' = table /\ structures' = structures /\ size' = size /\ reached' = reached /\ offset' = offset
      /\ step = "scanning" /\ step' = "scanning" /\ index' = index + 1 /\ ~AtEnd
  BY Zenon DEF ScanNext, source
<1>2. TableInv' BY <1>1, TableStays
<1>3. FinderInv' BY <1>1, FinderStays, Zenon
<1>4. /\ index \in Nat /\ AreaEnd(structures[reached]) \in Nat /\ structures[reached].area \in Nat
      /\ structures[reached].area <= index /\ index <= AreaEnd(structures[reached])
      /\ index # AreaEnd(structures[reached])
  BY <1>1, AtEndIsEnd
<1>5. ASSUME NEW a \in Nat, NEW e \in Nat, NEW i \in Nat, a <= i, i <= e, i # e PROVE i + 1 \in a..e BY <1>5
<1>6. index' \in structures[reached].area..AreaEnd(structures[reached]) BY <1>1, <1>4, <1>5, Zenon
<1> QED BY <1>1, <1>2, <1>3, <1>6, Zenon DEF ScannerInv, latest

LEMMA ScanNothingStep ==
  ASSUME TableInv, FinderInv, ScannerInv, ScanNothing
  PROVE  TableInv' /\ SerialIsReferred'
<1>1. /\ table' = table /\ structures' = structures /\ size' = size /\ step = "scanning" /\ step' = "done"
      /\ serial' = {} /\ index + 1 >= size
  BY Zenon DEF ScanNothing, source, Answers
<1>2. TableInv' BY <1>1, TableStays
<1>3. index \in Nat /\ AreaEnd(structures[reached]) \in Nat /\ index <= AreaEnd(structures[reached])
  BY <1>1, AtEndIsEnd
<1>4. size \in Nat BY DEF FinderInv
<1>5. ASSUME NEW i \in Nat, NEW e \in Nat, NEW z \in Nat, i <= e, i + 1 >= z PROVE ~(e + 2 <= z) BY <1>5
<1>6. ~(AreaEnd(structures[reached]) + 2 <= size) BY <1>1, <1>3, <1>4, <1>5, Zenon
<1> QED BY <1>1, <1>2, <1>6, NothingIsRight, Zenon

LEMMA SkipStep ==
  ASSUME TableInv, FinderInv, ScannerInv, Skip
  PROVE  TableInv' /\ FinderInv'
<1>1. /\ table' = table /\ structures' = structures /\ size' = size /\ reached' = reached + 1
      /\ step = "scanning" /\ step' = "finding" /\ offset' = index + 2 /\ AtEnd
      /\ table[offset + 1] # SystemInformation
  BY Zenon DEF Skip, source, AfterStrings
<1>2. TableInv' BY <1>1, TableStays
<1>3. latest' = latest /\ latest \in Nat BY <1>1 DEF latest, TableInv
<1>4. reached \in 1..latest /\ index = AreaEnd(structures[reached]) BY <1>1, AtEndIsEnd
<1>5. reached <= latest BY <1>3, <1>4
<1>6. table[offset + 1] = structures[reached].type BY <1>1, <1>5, AtReached, Zenon
<1>7. ~IsSystem(reached) BY <1>1, <1>6, Zenon DEF IsSystem
<1>8. /\ reached + 1 \in 1..latest + 1 /\ reached + 1 # 1 /\ (reached + 1) - 1 = reached
      /\ \A k \in 1..(reached + 1) - 1 : k \in 1..reached - 1 \/ k = reached
  BY <1>3, <1>4
<1>9. offset' = Place(reached)' BY <1>1, <1>4, <1>8, Zenon DEF Place
<1>10. \A k \in 1..(reached + 1) - 1 : ~IsSystem(k) BY <1>7, <1>8, Zenon DEF FinderInv
<1>11. size \in 0..Len(table) BY Zenon DEF FinderInv
<1> QED BY <1>1, <1>2, <1>3, <1>8, <1>9, <1>10, <1>11, Zenon DEF FinderInv, IsSystem

LEMMA FoundStep ==
  ASSUME TableInv, FinderInv, ScannerInv, Found
  PROVE  /\ TableInv'
         /\ \/ step' = "done" /\ SerialIsReferred'
            \/ step' = "reading" /\ FinderInv' /\ PickerInv'
<1> DEFINE s == structures[reached]
<1>1. /\ table' = table /\ structures' = structures /\ size' = size /\ reached' = reached /\ offset' = offset
      /\ index' = index /\ step = "scanning" /\ AtEnd /\ index + 1 < size
      /\ table[offset + 1] = SystemInformation
      /\ IF length <= Header \/ table[offset + Header + 1] = 0
         THEN step' = "done" /\ serial' = {}
         ELSE step' = "reading" /\ start' = offset + length /\ current' = 1
  BY Zenon DEF Found, source, finder, Answers
<1>2. step' # "strings" BY <1>1
<1>3. TableInv' BY <1>1, <1>2, TableStays
<1>4. FinderInv' BY <1>1, FinderStays, Zenon
<1>5. latest \in Nat BY DEF latest, TableInv
<1>6. reached \in 1..latest /\ index = AreaEnd(s) BY <1>1, AtEndIsEnd
<1>7. reached <= latest BY <1>5, <1>6
<1>8. /\ s \in Structure /\ table[offset + 1] = s.type /\ offset + length = s.area
      /\ (s.body = << >> => length <= Header)
      /\ (s.body # << >> => ~(length <= Header) /\ table[offset + Header + 1] = s.body[1] /\ s.body[1] \in Nat)
  BY <1>1, <1>7, AtReached, Zenon
<1>9. IsSystem(reached) BY <1>1, <1>8, Zenon DEF IsSystem
<1>10. CASE length <= Header \/ table[offset + Header + 1] = 0
  <2>1. step' = "done" /\ serial' = {} BY <1>1, <1>10
  <2>2. 0 \notin 1..Len(s.texts) - 1 OBVIOUS
  <2>3. ~(s.body # << >> /\ s.body[1] \in 1..Len(s.texts) - 1) BY <1>8, <1>10, <2>2, Zenon
  <2>4. SerialIsReferred' BY <1>1, <1>9, <2>1, <2>3, NothingIsRight, Zenon
  <2> QED BY <1>3, <2>1, <2>4
<1>11. CASE ~(length <= Header \/ table[offset + Header + 1] = 0)
  <2>1. step' = "reading" /\ start' = offset + length /\ current' = 1 BY <1>1, <1>11
  <2>2. s.body # << >> /\ s.body[1] # 0 /\ s.body[1] \in Nat BY <1>8, <1>11, Zenon
  <2>3. ASSUME NEW n \in Nat, n # 0 PROVE 1 \in 1..n BY <2>3
  <2>4. s.texts # << >> => 1 <= Len(s.texts)
    <3>1. s.texts \in Seq(Seq(Nat)) BY <1>8, StructureTyped, Zenon
    <3> QED BY <3>1
  <2>5. start' = TextStart(s, 1) BY <1>8, <2>1, Zenon DEF TextStart
  <2>6. 1 \in 1..s.body[1] BY <2>2, <2>3, Zenon
  <2>7. PickerInv'
    <3> HIDE DEF s
    <3>1. structures'[reached'] = s BY <1>1, Zenon DEF s
    <3>2. reached' <= latest' /\ IsSystem(reached)' BY <1>1, <1>7, <1>9, Zenon DEF latest, IsSystem
    <3> QED BY <1>1, <1>6, <2>1, <2>2, <2>4, <2>5, <2>6, <3>1, <3>2, Zenon DEF PickerInv
  <2> QED BY <1>3, <1>4, <2>1, <2>7
<1> QED BY <1>10, <1>11

-----------------------------------------------------------------------------
(* The steps of read_smbios_string.                                        *)

\* The string looked at.
LEMMA AtText ==
  ASSUME TableInv, FinderInv, PickerInv, step # "strings", NEW s, s = structures[reached], s.texts # << >>
  PROVE  /\ current \in 1..Len(s.texts) /\ TextIn(s, current, table)
         /\ start = TextStart(s, current) /\ start \in Nat /\ s.ends[current] \in Nat
         /\ s.texts[current] \in Seq(Nat) /\ Len(s.texts[current]) \in Nat
         /\ index = AreaEnd(s) /\ index \in Nat /\ index = s.ends[Len(s.texts)]
         /\ table[offset + Header + 1] = s.body[1] /\ s.body[1] \in Nat /\ current \in 1..s.body[1]
<1>1. /\ reached <= latest /\ s.body # << >> /\ current \in 1..s.body[1] /\ start = TextStart(s, current)
      /\ index = AreaEnd(s) /\ current <= Len(s.texts)
  BY Zenon DEF PickerInv
<1>2. /\ s \in Structure /\ Described(s, table) /\ table[offset + Header + 1] = s.body[1] /\ s.body[1] \in Nat
  BY <1>1, AtReached, Zenon
<1>3. table \in Seq(Nat) BY Zenon DEF TableInv
<1>4. current \in 1..Len(s.texts)
  <2>1. s.texts \in Seq(Seq(Nat)) BY <1>2, StructureTyped, Zenon
  <2>2. ASSUME NEW n \in Nat, NEW l \in Nat, NEW c \in 1..n, c <= l PROVE c \in 1..l BY <2>2
  <2>3. Len(s.texts) \in Nat BY <2>1
  <2> QED BY <1>1, <1>2, <2>2, <2>3, Zenon
<1>5. /\ TextStart(s, current) \in Nat /\ s.ends[current] \in Nat /\ s.texts[current] \in Seq(Nat)
      /\ AreaEnd(s) \in Nat /\ AreaEnd(s) = s.ends[Len(s.texts)]
  BY <1>2, <1>3, <1>4, EndTyped, Zenon
<1>6. TextIn(s, current, table) BY <1>2, <1>4, Zenon DEF Described
<1>7. Len(s.texts[current]) \in Nat BY <1>5
<1> QED BY <1>1, <1>2, <1>4, <1>5, <1>6, <1>7, Zenon

LEMMA EndIsFound ==
  ASSUME TableInv, FinderInv, PickerInv, step # "strings", NEW s, s = structures[reached],
         NEW end \in start..index - 1, EndsAt(end)
  PROVE  s.texts # << >> /\ end = s.ends[current] /\ current < Len(s.texts)
<1>1. s.texts # << >>
  <2>1. SUFFICES ASSUME s.texts = << >> PROVE FALSE OBVIOUS
  <2>2. index = s.area /\ start = s.area BY <2>1, Zenon DEF PickerInv, AreaEnd, TextStart
  <2>3. reached <= latest BY Zenon DEF PickerInv
  <2>4. s \in Structure BY <2>3, AtReached, Zenon
  <2>5. s.area \in Nat BY <2>4, StructureTyped, Zenon
  <2>6. ASSUME NEW a \in Nat, NEW e \in a..a - 1 PROVE FALSE OBVIOUS
  <2> QED BY <2>2, <2>5, <2>6, Zenon
<1>2. /\ current \in 1..Len(s.texts) /\ TextIn(s, current, table)
      /\ start = TextStart(s, current) /\ start \in Nat /\ s.ends[current] \in Nat
      /\ Len(s.texts[current]) \in Nat /\ index \in Nat /\ index = s.ends[Len(s.texts)]
  BY <1>1, AtText, Zenon
<1>3. /\ s.ends[current] = start + Len(s.texts[current]) /\ table[s.ends[current] + 1] = 0
      /\ \A i \in 1..Len(s.texts[current]) : table[start + i] # 0
  BY <1>2, Zenon DEF TextIn
<1>4. table[end + 1] = 0 /\ \A i \in start..end - 1 : table[i + 1] # 0 BY Zenon DEF EndsAt
<1>5. ASSUME NEW n \in Nat, NEW y \in Nat, y = start + n
      PROVE  /\ end < y => (end + 1) - start \in 1..n /\ start + ((end + 1) - start) = end + 1
             /\ y < end => y \in start..end - 1
             /\ ~(end < y) /\ ~(y < end) => end = y
             /\ end # index
  <2>1. start \in Nat /\ index \in Nat BY <1>2, Zenon
  <2> QED BY <1>5, <2>1
<1>6. /\ (end < s.ends[current] => (end + 1) - start \in 1..Len(s.texts[current]) /\ start + ((end + 1) - start) = end + 1)
      /\ (s.ends[current] < end => s.ends[current] \in start..end - 1)
      /\ (~(end < s.ends[current]) /\ ~(s.ends[current] < end) => end = s.ends[current])
      /\ end # index
  BY <1>2, <1>3, <1>5, Zenon
<1>7. ~(end < s.ends[current])
  <2>1. SUFFICES ASSUME end < s.ends[current] PROVE FALSE OBVIOUS
  <2>2. table[start + ((end + 1) - start)] # 0 BY <1>3, <1>6, <2>1, Zenon
  <2> QED BY <1>4, <1>6, <2>1, <2>2, Zenon
<1>8. ~(s.ends[current] < end) BY <1>3, <1>4, <1>6, Zenon
<1>9. end = s.ends[current] BY <1>6, <1>7, <1>8, Zenon
<1>10. current # Len(s.texts) BY <1>2, <1>6, <1>9, Zenon
<1>11. ASSUME NEW l \in Nat, NEW c \in 1..l, c # l PROVE c < l BY <1>11
<1>12. Len(s.texts) \in Nat
  <2>1. reached <= latest BY Zenon DEF PickerInv
  <2>2. s \in Structure BY <2>1, AtReached, Zenon
  <2>3. s.texts \in Seq(Seq(Nat)) BY <2>2, StructureTyped, Zenon
  <2> QED BY <2>3
<1> QED BY <1>1, <1>2, <1>9, <1>10, <1>11, <1>12, Zenon

LEMMA SubIsText ==
  ASSUME NEW b \in Seq(Nat), NEW t \in Seq(Nat), NEW a \in Nat, NEW e \in Nat, e = a + Len(t), e <= Len(b),
         \A i \in 1..Len(t) : b[a + i] = t[i]
  PROVE  SubSeq(b, a + 1, e) = t
<1>1. SubSeq(b, a + 1, e) \in Seq(Nat) /\ Len(SubSeq(b, a + 1, e)) = Len(t)
  <2>1. \A i \in a + 1..e : i \in 1..Len(b) OBVIOUS
  <2>2. Len(t) \in Nat OBVIOUS
  <2> QED BY <2>1, <2>2
<1>2. ASSUME NEW i \in 1..Len(t) PROVE SubSeq(b, a + 1, e)[i] = t[i]
  <2>1. i \in Int /\ SubSeq(b, a + 1, e)[i] = b[a + i] OBVIOUS
  <2> QED BY <2>1
<1>3. SubSeq(b, a + 1, e) = [i \in 1..Len(t) |-> SubSeq(b, a + 1, e)[i]] BY <1>1
<1>4. t = [i \in 1..Len(t) |-> t[i]] OBVIOUS
<1> QED BY <1>2, <1>3, <1>4, Zenon

LEMMA ReadStringStep ==
  ASSUME TableInv, FinderInv, PickerInv, ReadString
  PROVE  /\ TableInv'
         /\ \/ step' = "done" /\ SerialIsReferred'
            \/ step' = "reading" /\ FinderInv' /\ PickerInv'
<1> DEFINE s == structures[reached]
<1>1. /\ table' = table /\ structures' = structures /\ size' = size /\ reached' = reached /\ offset' = offset
      /\ index' = index /\ step = "reading"
  BY Zenon DEF ReadString, source, finder
<1>2. PICK end \in start..index - 1 :
         /\ EndsAt(end)
         /\ IF current = table[offset + Header + 1]
            THEN step' = "done" /\ serial' = FromUtf8(SubSeq(table, start + 1, end))
            ELSE start' = end + 1 /\ current' = current + 1 /\ step' = step
  BY Zenon DEF ReadString, Answers
<1>3. step' # "strings" BY <1>1, <1>2
<1>4. TableInv' BY <1>1, <1>3, TableStays
<1>5. FinderInv' BY <1>1, FinderStays, Zenon
<1>6. s.texts # << >> /\ end = s.ends[current] /\ current < Len(s.texts) BY <1>1, <1>2, EndIsFound
<1>7. step # "strings" BY <1>1
<1>8. /\ current \in 1..Len(s.texts) /\ TextIn(s, current, table)
      /\ start = TextStart(s, current) /\ start \in Nat /\ s.ends[current] \in Nat
      /\ s.texts[current] \in Seq(Nat) /\ Len(s.texts[current]) \in Nat
      /\ table[offset + Header + 1] = s.body[1] /\ s.body[1] \in Nat /\ current \in 1..s.body[1]
  BY <1>6, <1>7, AtText
<1>9. /\ reached <= latest /\ IsSystem(reached) /\ index = AreaEnd(s) /\ index + 1 < size
      /\ s.body # << >> /\ s.body[1] # 0
  BY Zenon DEF PickerInv
<1>10. table \in Seq(Nat) BY Zenon DEF TableInv
<1>11. CASE current = table[offset + Header + 1]
  <2>1. step' = "done" /\ serial' = FromUtf8(SubSeq(table, start + 1, end)) BY <1>2, <1>11
  <2>2. /\ s.ends[current] = start + Len(s.texts[current]) /\ s.ends[current] < Len(table)
        /\ \A i \in 1..Len(s.texts[current]) : table[start + i] = s.texts[current][i]
    BY <1>8, Zenon DEF TextIn
  <2>3. s.ends[current] <= Len(table)
    <3>1. Len(table) \in Nat BY <1>10
    <3>2. ASSUME NEW x \in Nat, NEW y \in Nat, x < y PROVE x <= y BY <3>2
    <3> QED BY <1>8, <2>2, <3>1, <3>2, Zenon
  <2>4. SubSeq(table, start + 1, s.ends[current]) = s.texts[current] BY <1>8, <1>10, <2>2, <2>3, SubIsText, Zenon
  <2>5. serial' = FromUtf8(s.texts[s.body[1]]) /\ s.body[1] \in 1..Len(s.texts)
    BY <1>6, <1>8, <1>11, <2>1, <2>4, Zenon
  <2>6. Referred(s)'
    <3>1. CASE s.texts[s.body[1]] \in Utf8
      <4>1. serial' = {s.texts[s.body[1]]} /\ serial' # {} BY <2>5, <3>1, Zenon DEF FromUtf8
      <4> QED BY <1>1, <1>9, <2>5, <4>1, Zenon DEF Referred
    <3>2. CASE s.texts[s.body[1]] \notin Utf8
      <4>1. serial' = {} BY <2>5, <3>2, Zenon DEF FromUtf8
      <4> QED BY <1>1, <3>2, <4>1, Zenon DEF Referred
    <3> QED BY <3>1, <3>2
  <2>7. First' = First BY <1>1, Zenon DEF First, latest, IsSystem
  <2>8. reached \in First
    <3>1. reached \in 1..latest BY <1>7, <1>9, AtReached, Zenon
    <3> QED BY <1>9, <3>1, Zenon DEF First, FinderInv
  <2>9. \A k \in First : k = reached BY <1>9, FirstIsAhead, Zenon
  <2>10. SerialIsReferred' BY <2>6, <2>7, <2>8, <2>9, <1>1, Zenon DEF SerialIsReferred
  <2> QED BY <1>4, <2>1, <2>10
<1>12. CASE current # table[offset + Header + 1]
  <2>1. start' = end + 1 /\ current' = current + 1 /\ step' = "reading" BY <1>1, <1>2, <1>12
  <2>2. Len(s.texts) \in Nat
    <3>1. s \in Structure BY <1>7, <1>9, AtReached, Zenon
    <3>2. s.texts \in Seq(Seq(Nat)) BY <3>1, StructureTyped, Zenon
    <3> QED BY <3>2
  <2>3. ASSUME NEW l \in Nat, NEW n \in Nat, current \in 1..n, current < l, current # n
        PROVE  /\ current + 1 \in 1..n /\ current + 1 <= l /\ current + 1 # 1 /\ (current + 1) - 1 = current
    BY <2>3
  <2>4. current + 1 \in 1..s.body[1] /\ current + 1 <= Len(s.texts) /\ current + 1 # 1 /\ (current + 1) - 1 = current
    BY <1>6, <1>8, <1>12, <2>2, <2>3, Zenon
  <2>5. start' = TextStart(s, current + 1) BY <1>6, <2>1, <2>4, Zenon DEF TextStart
  <2>6. PickerInv'
    <3>1. reached' <= latest' /\ IsSystem(reached)' BY <1>1, <1>9, Zenon DEF latest, IsSystem
    <3>2. structures'[reached'] = s BY <1>1, Zenon
    <3> HIDE DEF s
    <3> QED BY <1>1, <1>6, <1>9, <2>1, <2>4, <2>5, <3>1, <3>2, Zenon DEF PickerInv
  <2> QED BY <1>4, <1>5, <2>1, <2>6
<1> QED BY <1>11, <1>12

LEMMA ReadNothingStep ==
  ASSUME TableInv, FinderInv, PickerInv, ReadNothing
  PROVE  TableInv' /\ SerialIsReferred'
<1> DEFINE s == structures[reached]
<1>1. /\ table' = table /\ structures' = structures /\ size' = size /\ step = "reading" /\ step' = "done"
      /\ serial' = {} /\ \A end \in start..index - 1 : table[end + 1] # 0
  BY Zenon DEF ReadNothing, source, Answers
<1>2. TableInv' BY <1>1, TableStays
<1>3. IsSystem(reached) /\ reached <= latest BY Zenon DEF PickerInv
<1>4. step # "strings" BY <1>1
<1>5. ASSUME s.body[1] \in 1..Len(s.texts) - 1 PROVE FALSE
  <2>1. s \in Structure BY <1>3, <1>4, AtReached, Zenon
  <2>2. s.texts \in Seq(Seq(Nat)) BY <2>1, StructureTyped, Zenon
  <2>3. Len(s.texts) \in Nat /\ (s.texts = << >> => Len(s.texts) = 0) BY <2>2
  <2>4. s.texts # << >> BY <1>5, <2>3
  <2>5. /\ TextIn(s, current, table) /\ start = TextStart(s, current) /\ start \in Nat /\ s.ends[current] \in Nat
        /\ Len(s.texts[current]) \in Nat /\ index = AreaEnd(s) /\ index \in Nat
        /\ s.body[1] \in Nat /\ current \in 1..s.body[1]
    BY <1>4, <2>4, AtText
  <2>6. ASSUME NEW l \in Nat, NEW n \in 1..l - 1, current \in 1..n PROVE current < l BY <2>6
  <2>7. current < Len(s.texts) BY <1>5, <2>3, <2>5, <2>6, Zenon
  <2>8. s.ends[current] = start + Len(s.texts[current]) /\ s.ends[current] < index /\ table[s.ends[current] + 1] = 0
    BY <2>5, <2>7, Zenon DEF TextIn
  <2>9. ASSUME NEW n \in Nat, NEW y \in Nat, y = start + n, y < index PROVE y \in start..index - 1
    <3>1. start \in Nat /\ index \in Nat BY <2>5, Zenon
    <3> QED BY <2>9, <3>1
  <2>10. s.ends[current] \in start..index - 1 BY <2>5, <2>8, <2>9, Zenon
  <2> QED BY <1>1, <2>8, <2>10, Zenon
<1> QED BY <1>1, <1>2, <1>3, <1>5, NothingIsRight, Zenon

-----------------------------------------------------------------------------
(* The steps of the firmware.                                              *)

LEMMA Appended ==
  ASSUME NEW b \in Seq(Nat), NEW e \in Seq(Nat)
  PROVE  /\ b \o e \in Seq(Nat) /\ Len(b \o e) = Len(b) + Len(e) /\ Continues(b \o e, b)
         /\ Len(b) \in Nat /\ Len(e) \in Nat
BY Longer DEF Continues

IsAdded(s, c, b, type, body) ==
    /\ c = b \o (<<type, Header + Len(body)>> \o body)
    /\ s = [type |-> type, body |-> body, at |-> Len(b), area |-> Len(c), texts |-> << >>, ends |-> << >>]

LEMMA NewStructure ==
  ASSUME NEW b \in Seq(Nat), NEW type \in 0..1, NEW body \in Seq(Nat), NEW c, NEW s, IsAdded(s, c, b, type, body)
  PROVE  c \in Seq(Nat) /\ Continues(c, b) /\ s \in Structure /\ Described(s, c) /\ s.at = Len(b) /\ s.texts = << >>
         /\ AreaEnd(s) = Len(c)
<1> DEFINE e == <<type, Header + Len(body)>> \o body
<1>1. /\ e \in Seq(Nat) /\ Len(e) = 2 + Len(body) /\ e[1] = type /\ e[2] = Header + Len(body)
      /\ (body # << >> => e[3] = body[1] /\ Len(body) >= 1)
  <2>1. Len(body) \in Nat /\ Header + Len(body) \in Nat BY DEF Header
  <2>2. <<type, Header + Len(body)>> \in Seq(Nat) BY <2>1
  <2> QED BY <2>1, <2>2
<1>2. c = b \o e /\ Len(body) \in Nat /\ Len(b) \in Nat BY DEF IsAdded
<1> HIDE DEF e
<1>3. /\ c \in Seq(Nat) /\ Len(c) = Len(b) + Len(e) /\ Continues(c, b) /\ Len(e) \in Nat BY <1>1, <1>2, Appended, Zenon
<1>4. \A i \in 1..Len(e) : c[Len(b) + i] = e[i]
  <2>1. \A i \in 1..Len(e) : (b \o e)[Len(b) + i] = e[i] BY <1>1
  <2> QED BY <1>2, <2>1, Zenon
<1>5. 1 \in 1..Len(e) /\ 2 \in 1..Len(e) /\ (body # << >> => 3 \in 1..Len(e)) BY <1>1, <1>2
<1>6. c[Len(b) + 1] = type /\ c[Len(b) + 2] = Header + Len(body) /\ (body # << >> => c[Len(b) + 3] = body[1])
  BY <1>1, <1>4, <1>5, Zenon
<1>7. /\ Len(c) = Len(b) + Header + Len(body) /\ Len(b) + Header + 1 = Len(b) + 3 /\ Len(c) \in Nat /\ Len(c) <= Len(c)
  BY <1>1, <1>2, <1>3 DEF Header
<1>8. s \in Structure
  <2>1. << >> \in Seq(Seq(Nat)) /\ << >> \in Seq(Nat) OBVIOUS
  <2> QED BY <1>2, <1>7, <2>1, Zenon DEF Structure, IsAdded
<1>9. s.type = type /\ s.body = body /\ s.at = Len(b) /\ s.area = Len(c) /\ s.texts = << >> /\ s.ends = << >>
  BY Zenon DEF IsAdded
<1>10. Formatted(s, c) BY <1>6, <1>7, <1>9, Zenon DEF Formatted
<1>11. AreaEnd(s) = Len(c) BY <1>9, Zenon DEF AreaEnd
<1>12. Len(<< >>) = 0 /\ (\A x \in 1..0 : FALSE) /\ \A x \in Len(c)..Len(c) - 1 : FALSE BY <1>7
<1>13. Len(s.ends) = Len(s.texts) /\ \A i \in 1..Len(s.texts) : TextIn(s, i, c) BY <1>9, <1>12, Zenon
<1>14. SoleEnd(s, c) BY <1>9, <1>11, <1>12, Zenon DEF SoleEnd
<1> QED BY <1>3, <1>8, <1>9, <1>10, <1>11, <1>13, <1>14, Zenon DEF Described

LEMMA BodyTyped == ASSUME NEW body \in Body PROVE body \in Seq(Nat)
<1>1. << >> \in Seq(Nat) /\ \A n \in Nat : <<n>> \in Seq(Nat) OBVIOUS
<1>2. \A n \in 0..MaxStrings + 1 : n \in Nat BY FirmwareAssumption
<1> QED BY <1>1, <1>2, Zenon DEF Body

LEMMA AddStructureStep ==
  ASSUME TableInv, AddStructure
  PROVE  TableInv'
<1>1. step = "firmware" /\ step' = "strings" BY Zenon DEF AddStructure
<1>2. PICK type \in 0..1, body \in Body :
         /\ table' = table \o (<<type, Header + Len(body)>> \o body)
         /\ structures' = Append(structures,
                [type |-> type, body |-> body, at |-> Len(table), area |-> Len(table'),
                 texts |-> << >>, ends |-> << >>])
  BY Zenon DEF AddStructure
<1>0. PICK s : IsAdded(s, table', table, type, body) /\ structures' = Append(structures, s) BY <1>2, Zenon DEF IsAdded
<1> DEFINE n == latest + 1
<1>3. table \in Seq(Nat) /\ structures \in Seq(Structure) /\ body \in Seq(Nat) BY BodyTyped, Zenon DEF TableInv
<1>4. /\ table' \in Seq(Nat) /\ Continues(table', table) /\ s \in Structure /\ Described(s, table')
      /\ s.at = Len(table) /\ s.texts = << >> /\ AreaEnd(s) = Len(table')
  BY <1>0, <1>3, NewStructure
<1>5. structures' = Append(structures, s) BY <1>0
<1>6. /\ structures' \in Seq(Structure) /\ latest' = n /\ latest \in Nat /\ structures'[n] = s
      /\ \A k \in 1..latest : structures'[k] = structures[k]
      /\ \A k \in 1..n : k \in 1..latest \/ k = n
      /\ \A k \in 1..n : k # 1 => k - 1 \in 1..latest
      /\ Len(table) \in Nat /\ Len(table') \in Nat
  BY <1>3, <1>4, <1>5 DEF latest
<1>7. Len(table) = Place(n) BY <1>1 DEF TableInv
<1>8. ASSUME NEW k \in 1..n PROVE Place(k)' = Place(k) BY <1>6, Zenon DEF Place
<1>9. ASSUME NEW k \in 1..latest
      PROVE  /\ Described(structures[k], table') /\ structures[k].at = Place(k) /\ Closed(structures[k], table')
             /\ AreaEnd(structures[k]) + 2 <= Len(table)
  <2>1. Closed(structures[k], table) BY <1>1 DEF TableInv
  <2>2. structures[k] \in Structure /\ Described(structures[k], table) /\ structures[k].at = Place(k) BY AtStructure, Zenon
  <2> QED BY <1>3, <1>4, <2>1, <2>2, DescribedLonger, ClosedLonger, Zenon DEF Closed
<1>10. ASSUME NEW k \in 1..n PROVE Described(structures'[k], table') /\ structures'[k].at = Place(k)'
  <2>1. CASE k \in 1..latest
    <3>1. Place(k)' = Place(k) BY <1>8
    <3> QED BY <1>6, <1>9, <2>1, <3>1, Zenon
  <2>2. CASE k = n
    <3>1. Place(k)' = Place(n) BY <1>8, <2>2
    <3>2. structures'[k] = s /\ s.at = Place(n) BY <1>4, <1>6, <1>7, <2>2, Zenon
    <3> QED BY <1>4, <3>1, <3>2, Zenon
  <2> QED BY <1>6, <2>1, <2>2, Zenon
<1>11. ASSUME NEW k \in 1..n, k < n PROVE k \in 1..latest BY <1>6, <1>11
<1>12. ASSUME NEW k \in 1..n, k < n PROVE Closed(structures'[k], table') BY <1>6, <1>9, <1>11, <1>12, Zenon
<1>13. ASSUME NEW i \in 1..n, NEW k \in 1..n, i < k PROVE AreaEnd(structures'[i]) + 2 <= structures'[k].at
  <2>1. i \in 1..latest BY <1>6, <1>13
  <2>2. CASE k \in 1..latest
    <3>1. AreaEnd(structures[i]) + 2 <= structures[k].at BY <1>13, <2>1, <2>2, Zenon DEF TableInv
    <3> QED BY <1>6, <2>1, <2>2, <3>1, Zenon
  <2>3. CASE k = n BY <1>4, <1>6, <1>9, <2>1, <2>3, Zenon
  <2> QED BY <1>6, <2>2, <2>3, Zenon
<1>14. /\ n > 0 /\ Len(table') = AreaEnd(s) + 0 BY <1>4, <1>6
<1>15. /\ latest' > 0
       /\ Len(table') = AreaEnd(structures'[latest']) + (IF structures'[latest'].texts = << >> THEN 0 ELSE 1)
  BY <1>4, <1>6, <1>14, Zenon
<1>16. \A k \in 1..latest' : k < latest' \/ step' # "strings" => Closed(structures'[k], table')
  BY <1>1, <1>6, <1>12, Zenon
<1>17. /\ \A k \in 1..latest' : Described(structures'[k], table') /\ structures'[k].at = Place(k)'
       /\ \A i, k \in 1..latest' : i < k => AreaEnd(structures'[i]) + 2 <= structures'[k].at
  BY <1>6, <1>10, <1>13, Zenon
<1> QED BY <1>1, <1>4, <1>6, <1>15, <1>16, <1>17, Zenon DEF TableInv

\* The structure t is s with one more string, at the end of the table b.
IsExtended(t, c, s, b, text) ==
    /\ c = b \o Append(text, 0)
    /\ t = [s EXCEPT !.texts = Append(@, text), !.ends = Append(@, Len(b) + Len(text))]

HasText(t, s, b, text) ==
    /\ t \in Structure /\ t.at = s.at /\ t.area = s.area /\ t.body = s.body /\ t.type = s.type
    /\ t.texts = Append(s.texts, text) /\ t.ends = Append(s.ends, Len(b) + Len(text))

LEMMA ExtendedFields ==
  ASSUME NEW s \in Structure, NEW b \in Seq(Nat), NEW text \in Seq(Nat), NEW t, NEW c, IsExtended(t, c, s, b, text)
  PROVE  HasText(t, s, b, text)
<1>1. s.texts \in Seq(Seq(Nat)) /\ s.ends \in Seq(Nat) /\ Len(b) + Len(text) \in Nat BY StructureTyped
<1>2. Append(s.texts, text) \in Seq(Seq(Nat)) BY <1>1
<1>3. Append(s.ends, Len(b) + Len(text)) \in Seq(Nat) BY <1>1
<1>4. t = [s EXCEPT !.texts = Append(s.texts, text), !.ends = Append(s.ends, Len(b) + Len(text))] BY DEF IsExtended
<1>5. ASSUME NEW texts \in Seq(Seq(Nat)), NEW ends \in Seq(Nat), t = [s EXCEPT !.texts = texts, !.ends = ends]
      PROVE  /\ t \in Structure /\ t.at = s.at /\ t.area = s.area /\ t.body = s.body /\ t.type = s.type
             /\ t.texts = texts /\ t.ends = ends
  BY <1>5, Zenon DEF Structure
<1> QED BY <1>2, <1>3, <1>4, <1>5, Zenon DEF HasText

HasOneMore(r, q, e) ==
    /\ r # << >> /\ Len(r) = Len(q) + 1 /\ r[Len(q) + 1] = e
    /\ \A k \in 1..Len(q) : r[k] = q[k]

LEMMA OneMore ==
  ASSUME NEW S, NEW q \in Seq(S), NEW e \in S
  PROVE  HasOneMore(Append(q, e), q, e)
<1> DEFINE r == Append(q, e)
<1>1. Len(q) \in Nat /\ Len(r) = Len(q) + 1 /\ r[Len(q) + 1] = e OBVIOUS
<1>2. r # << >>
  <2>1. Len(<< >>) = 0 /\ Len(q) + 1 # 0 BY <1>1
  <2> QED BY <1>1, <2>1, Zenon
<1>3. \A k \in 1..Len(q) : r[k] = q[k] OBVIOUS
<1> QED BY <1>1, <1>2, <1>3, Zenon DEF HasOneMore

HoldsText(c, b, text) ==
    /\ c \in Seq(Nat) /\ Len(c) = Len(b) + Len(text) + 1 /\ Continues(c, b) /\ c[Len(b) + Len(text) + 1] = 0
    /\ \A i \in 1..Len(text) : c[Len(b) + i] = text[i]

LEMMA ExtendedTable ==
  ASSUME NEW b \in Seq(Nat), NEW text \in Seq(Nat), NEW t, NEW c, NEW s, IsExtended(t, c, s, b, text)
  PROVE  HoldsText(c, b, text)
<1>0. c = b \o Append(text, 0) BY Zenon DEF IsExtended
<1>1. /\ Append(text, 0) \in Seq(Nat) /\ Len(Append(text, 0)) = Len(text) + 1 /\ Append(text, 0)[Len(text) + 1] = 0
      /\ Len(text) \in Nat /\ Len(b) \in Nat
      /\ \A i \in 1..Len(text) : Append(text, 0)[i] = text[i]
  OBVIOUS
<1> DEFINE e == Append(text, 0)
<1> HIDE DEF e
<1>2. c = b \o e /\ e \in Seq(Nat) BY <1>0, <1>1, Zenon DEF e
<1>3. /\ c \in Seq(Nat) /\ Len(c) = Len(b) + Len(e) /\ Continues(c, b) BY <1>2, Appended, Zenon
<1>4. \A i \in 1..Len(e) : c[Len(b) + i] = e[i]
  <2>1. \A i \in 1..Len(e) : (b \o e)[Len(b) + i] = e[i] BY <1>2
  <2> QED BY <1>2, <2>1, Zenon
<1>5. Len(e) = Len(text) + 1 /\ e[Len(text) + 1] = 0 /\ \A i \in 1..Len(text) : e[i] = text[i] BY <1>1, Zenon DEF e
<1>6. /\ Len(b) + Len(text) + 1 = Len(b) + (Len(text) + 1) /\ Len(text) + 1 \in 1..Len(e)
      /\ \A i \in 1..Len(text) : i \in 1..Len(e)
  BY <1>1, <1>5
<1> QED BY <1>3, <1>4, <1>5, <1>6, Zenon DEF HoldsText

\* The strings of s go up to the end of the table b, and a text fits there.
IsOpen(s, b) == Len(b) = AreaEnd(s) + (IF s.texts = << >> THEN 0 ELSE 1)
IsText(text) == text \in Seq(Nat) /\ text # << >> /\ \A i \in 1..Len(text) : text[i] # 0
IsNext(t, c, s, b) ==
    /\ c \in Seq(Nat) /\ Continues(c, b) /\ t \in Structure /\ Described(t, c) /\ t.at = s.at
    /\ t.texts # << >> /\ Len(c) = AreaEnd(t) + 1

LEMMA Extended ==
  ASSUME NEW s \in Structure, NEW b \in Seq(Nat), Described(s, b), IsOpen(s, b),
         NEW text, IsText(text), NEW t, NEW c, IsExtended(t, c, s, b, text)
  PROVE  IsNext(t, c, s, b)
<1>0. /\ text \in Seq(Nat) /\ text # << >> /\ (\A i \in 1..Len(text) : text[i] # 0)
      /\ Len(b) = AreaEnd(s) + (IF s.texts = << >> THEN 0 ELSE 1)
  BY Zenon DEF IsText, IsOpen
<1> DEFINE n == Len(s.texts)
           m == Len(text)
<1>1. /\ t \in Structure /\ t.at = s.at /\ t.area = s.area /\ t.body = s.body /\ t.type = s.type
      /\ t.texts = Append(s.texts, text) /\ t.ends = Append(s.ends, Len(b) + m)
  <2>1. HasText(t, s, b, text) BY <1>0, ExtendedFields, Zenon
  <2> QED BY <2>1, Zenon DEF HasText
<1>2. /\ s.area \in Nat /\ s.texts \in Seq(Seq(Nat)) /\ s.ends \in Seq(Nat) BY StructureTyped, Zenon
<1>3. Len(s.ends) = n BY Zenon DEF Described
<1>4. n \in Nat /\ m \in Nat /\ m > 0 /\ Len(b) \in Nat /\ Len(b) + m \in Nat /\ (s.texts = << >> => n = 0)
      /\ (s.texts # << >> => n # 0)
  <2>1. text \in Seq(Nat) /\ text # << >> BY <1>0, Zenon
  <2> QED BY <1>2, <2>1
<1>5. /\ t.texts # << >> /\ Len(t.texts) = n + 1 /\ Len(t.ends) = n + 1 /\ t.ends[n + 1] = Len(b) + m
      /\ t.texts[n + 1] = text /\ \A k \in 1..n : t.ends[k] = s.ends[k] /\ t.texts[k] = s.texts[k]
  <2>1. /\ t.texts # << >> /\ Len(t.texts) = n + 1 /\ t.texts[n + 1] = text
        /\ \A k \in 1..n : t.texts[k] = s.texts[k]
    <3>1. HasOneMore(Append(s.texts, text), s.texts, text) BY <1>0, <1>2, OneMore, Zenon
    <3> QED BY <1>1, <3>1, Zenon DEF HasOneMore
  <2>2. /\ Len(t.ends) = n + 1 /\ t.ends[n + 1] = Len(b) + m /\ \A k \in 1..n : t.ends[k] = s.ends[k]
    <3>1. HasOneMore(Append(s.ends, Len(b) + m), s.ends, Len(b) + m) BY <1>2, <1>4, OneMore, Zenon
    <3> QED BY <1>1, <1>3, <3>1, Zenon DEF HasOneMore
  <2> QED BY <2>1, <2>2, Zenon
<1>6. /\ c \in Seq(Nat) /\ Len(c) = Len(b) + m + 1 /\ Continues(c, b) /\ c[Len(b) + m + 1] = 0
      /\ \A i \in 1..m : c[Len(b) + i] = text[i]
  <2>1. HoldsText(c, b, text) BY <1>0, ExtendedTable, Zenon
  <2> QED BY <2>1, Zenon DEF HoldsText
<1>7. Described(s, c) BY <1>6, DescribedLonger, Zenon
<1>8. /\ AreaEnd(s) \in Nat /\ s.area <= AreaEnd(s) /\ AreaEnd(s) <= Len(b)
      /\ \A k \in 1..n : s.ends[k] \in Nat /\ s.ends[k] <= AreaEnd(s)
      /\ (s.texts # << >> => n \in 1..n /\ AreaEnd(s) = s.ends[n])
  BY EndTyped, Zenon
<1>9. AreaEnd(t) = Len(b) + m BY <1>5, Zenon DEF AreaEnd
<1>10. Formatted(t, c) BY <1>1, <1>7, Zenon DEF Described, Formatted
<1>11. TextStart(t, n + 1) = Len(b)
  <2>1. n + 1 = 1 <=> s.texts = << >> BY <1>4
  <2>2. (n + 1) - 1 = n BY <1>4
  <2>3. CASE s.texts = << >>
    <3>1. AreaEnd(s) = s.area /\ TextStart(t, n + 1) = t.area BY <2>1, <2>3, Zenon DEF AreaEnd, TextStart
    <3> QED BY <1>0, <1>1, <1>8, <2>3, <3>1
  <2>4. CASE s.texts # << >>
    <3>1. TextStart(t, n + 1) = t.ends[n] + 1 BY <2>1, <2>2, <2>4, Zenon DEF TextStart
    <3>2. t.ends[n] = AreaEnd(s) BY <1>5, <1>8, <2>4, Zenon
    <3>3. Len(b) = AreaEnd(s) + 1 BY <1>0, <2>4
    <3> QED BY <3>1, <3>2, <3>3, Zenon
  <2> QED BY <2>3, <2>4
<1> HIDE DEF n, m
<1>12. TextIn(t, n + 1, c)
  <2>0. ASSUME NEW l \in Nat, NEW a \in Nat, NEW e \in Nat, a <= e, e <= l
        PROVE  a <= l /\ l + m < l + m + 1 /\ ~(n + 1 < n + 1)
    <3>1. n \in Nat /\ m \in Nat BY <1>4, Zenon
    <3> QED BY <2>0, <3>1
  <2>1. s.area <= Len(b) /\ Len(b) + m < Len(c) /\ ~(n + 1 < n + 1) BY <1>2, <1>4, <1>6, <1>8, <2>0, Zenon
  <2>2. \A i \in 1..Len(text) : text[i] # 0 /\ c[Len(b) + i] = text[i] BY <1>0, <1>6, Zenon DEF m
  <2>3. Len(text) = m BY Zenon DEF m
  <2> QED BY <1>1, <1>4, <1>5, <1>6, <1>11, <2>1, <2>2, <2>3, Zenon DEF TextIn
<1>13. ASSUME NEW k \in 1..n PROVE TextIn(t, k, c)
  <2>1. TextIn(s, k, c) BY <1>7, Zenon DEF Described, n
  <2>2. TextStart(t, k) = TextStart(s, k)
    <3>1. k # 1 => k - 1 \in 1..n BY <1>4
    <3> QED BY <1>1, <1>5, <3>1, Zenon DEF TextStart
  <2>3. ASSUME NEW x \in Nat, NEW a \in Nat, x <= a, a <= Len(b) PROVE x < Len(b) + m BY <1>4, <2>3
  <2>4. s.ends[k] < AreaEnd(t) BY <1>8, <1>9, <2>3, Zenon
  <2> QED BY <1>1, <1>5, <2>1, <2>2, <2>4, Zenon DEF TextIn
<1>14. \A k \in 1..Len(t.texts) : TextIn(t, k, c)
  <2>1. \A k \in 1..n + 1 : k \in 1..n \/ k = n + 1 BY <1>4
  <2> QED BY <1>5, <1>12, <1>13, <2>1, Zenon
<1>15. ASSUME NEW p \in s.area..(Len(b) + m) - 1 PROVE c[p + 1] # 0 \/ c[p + 2] # 0
  <2>0. p \in Nat /\ s.area <= p /\ p < Len(b) + m
    <3>1. ASSUME NEW a \in Nat, NEW x \in Nat, NEW q \in a..x - 1 PROVE q \in Nat /\ a <= q /\ q < x OBVIOUS
    <3> QED BY <1>2, <1>4, <1>15, <3>1, Zenon
  <2>1. CASE p < AreaEnd(s)
    <3>1. ASSUME NEW a \in Nat, NEW x \in Nat, a <= p, p < x PROVE p \in a..x - 1 BY <2>0, <3>1
    <3>2. p \in s.area..AreaEnd(s) - 1 BY <1>2, <1>8, <2>0, <2>1, <3>1, Zenon
    <3> QED BY <1>7, <3>2, Zenon DEF Described, SoleEnd
  <2>2. CASE p >= Len(b)
    <3>1. (p + 1) - Len(b) \in 1..m /\ Len(b) + ((p + 1) - Len(b)) = p + 1 BY <1>4, <2>0, <2>2
    <3>2. text[(p + 1) - Len(b)] # 0 BY <1>0, <3>1, Zenon DEF m
    <3>3. c[Len(b) + ((p + 1) - Len(b))] = text[(p + 1) - Len(b)] BY <1>6, <3>1, Zenon
    <3> QED BY <3>1, <3>2, <3>3, Zenon
  <2>3. CASE ~(p < AreaEnd(s)) /\ ~(p >= Len(b))
    <3>1. Len(b) = AreaEnd(s) \/ Len(b) = AreaEnd(s) + 1 BY <1>0, <1>8
    <3>2. ASSUME NEW l \in Nat, NEW a \in Nat, l = a \/ l = a + 1, ~(p < a), ~(p >= l) PROVE p + 2 = l + 1
      <4>1. p \in Nat BY <2>0, Zenon
      <4> QED BY <3>2, <4>1
    <3>3. p + 2 = Len(b) + 1 BY <1>4, <1>8, <2>3, <3>1, <3>2, Zenon
    <3>4. 1 \in 1..m BY <1>4
    <3>5. text[1] # 0 /\ c[Len(b) + 1] = text[1] BY <1>0, <1>6, <3>4, Zenon DEF m
    <3> QED BY <3>3, <3>5, Zenon
  <2> QED BY <2>1, <2>2, <2>3
<1>16. SoleEnd(t, c) BY <1>1, <1>9, <1>15, Zenon DEF SoleEnd
<1>17. Described(t, c) BY <1>5, <1>10, <1>14, <1>16, Zenon DEF Described
<1> QED BY <1>1, <1>5, <1>6, <1>9, <1>17, Zenon DEF IsNext

LEMMA AddStringStep ==
  ASSUME TableInv, AddString
  PROVE  TableInv'
<1> DEFINE n == latest
           s == structures[n]
<1>1. step = "strings" /\ step' = "strings" BY Zenon DEF AddString
<1>2. table \in Seq(Nat) /\ structures \in Seq(Structure) BY Zenon DEF TableInv
<1>3. n \in Nat /\ n > 0 /\ Len(table) = AreaEnd(s) + (IF s.texts = << >> THEN 0 ELSE 1)
  <2>1. n \in Nat BY <1>2 DEF latest
  <2>2. n > 0 /\ Len(table) = AreaEnd(s) + (IF s.texts = << >> THEN 0 ELSE 1) BY <1>1, Zenon DEF TableInv
  <2> QED BY <2>1, <2>2
<1>4. n \in 1..n BY <1>3
<1>5. PICK text \in FirmwareText :
         /\ table' = table \o Append(text, 0)
         /\ structures' = [structures EXCEPT ![n].texts = Append(@, text), ![n].ends = Append(@, Len(table) + Len(text))]
  BY Zenon DEF AddString
<1>6. text \in Seq(Nat) /\ text # << >> /\ \A i \in 1..Len(text) : text[i] # 0 BY FirmwareAssumption, Zenon
<1>7. s \in Structure /\ Described(s, table) BY <1>4, AtStructure, Zenon
<1>8. PICK t : IsExtended(t, table', s, table, text) /\ structures' = [structures EXCEPT ![n] = t]
  <2>1. DOMAIN structures = 1..n BY <1>2 DEF latest
  <2> DEFINE t == [s EXCEPT !.texts = Append(@, text), !.ends = Append(@, Len(table) + Len(text))]
  <2>2. IsExtended(t, table', s, table, text) BY <1>5, Zenon DEF IsExtended
  <2>3. structures' = [structures EXCEPT ![n] = t] BY <1>4, <1>5, <2>1, Zenon
  <2> QED BY <2>2, <2>3, Zenon
<1>9. /\ table' \in Seq(Nat) /\ Continues(table', table) /\ t \in Structure /\ Described(t, table') /\ t.at = s.at
      /\ t.texts # << >> /\ Len(table') = AreaEnd(t) + 1
  <2>1. IsOpen(s, table) /\ IsText(text) BY <1>3, <1>6, Zenon DEF IsOpen, IsText
  <2>2. IsNext(t, table', s, table) BY <1>2, <1>7, <1>8, <2>1, Extended, Zenon
  <2> QED BY <2>2, Zenon DEF IsNext
<1> HIDE DEF n
<1>10. /\ structures' \in Seq(Structure) /\ latest' = n /\ structures'[n] = t
       /\ \A k \in 1..n : k # n => structures'[k] = structures[k]
  BY <1>2, <1>4, <1>8, <1>9 DEF latest, n
<1>11. \A k \in 1..n : /\ k # n <=> k < n
                       /\ k # 1 => k - 1 \in 1..n /\ k - 1 # n
  BY <1>3
<1>12. ASSUME NEW k \in 1..n PROVE Place(k)' = Place(k) BY <1>10, <1>11, Zenon DEF Place
<1>13. ASSUME NEW k \in 1..n, k # n
       PROVE  /\ Described(structures[k], table') /\ structures[k].at = Place(k) /\ Closed(structures[k], table')
  <2>1. k \in 1..latest /\ k < latest BY <1>11, <1>13, Zenon DEF n
  <2>2. Closed(structures[k], table) BY <2>1, Zenon DEF TableInv
  <2>3. structures[k] \in Structure /\ Described(structures[k], table) /\ structures[k].at = Place(k) BY <2>1, AtStructure, Zenon
  <2> QED BY <1>2, <1>9, <2>2, <2>3, DescribedLonger, ClosedLonger, Zenon
<1>14. ASSUME NEW k \in 1..n PROVE Described(structures'[k], table') /\ structures'[k].at = Place(k)'
  <2>1. Place(k)' = Place(k) BY <1>12
  <2>2. CASE k # n BY <1>10, <1>13, <2>1, <2>2, Zenon
  <2>3. CASE k = n
    <3>1. s.at = Place(k) BY <2>3, AtStructure, Zenon DEF n
    <3> QED BY <1>9, <1>10, <2>1, <2>3, <3>1, Zenon
  <2> QED BY <2>2, <2>3
<1>15. ASSUME NEW k \in 1..n, k < n PROVE Closed(structures'[k], table') BY <1>10, <1>11, <1>13, <1>15, Zenon
<1>16. ASSUME NEW i \in 1..n, NEW k \in 1..n, i < k PROVE AreaEnd(structures'[i]) + 2 <= structures'[k].at
  <2>1. i # n BY <1>3, <1>16
  <2>2. AreaEnd(structures[i]) + 2 <= structures[k].at BY <1>16, Zenon DEF TableInv, n
  <2>3. structures'[k].at = structures[k].at BY <1>9, <1>10, Zenon
  <2> QED BY <1>10, <2>1, <2>2, <2>3, Zenon
<1>17. /\ latest' > 0
       /\ Len(table') = AreaEnd(structures'[latest']) + (IF structures'[latest'].texts = << >> THEN 0 ELSE 1)
  BY <1>3, <1>9, <1>10, Zenon
<1>18. \A k \in 1..latest' : k < latest' \/ step' # "strings" => Closed(structures'[k], table')
  BY <1>1, <1>10, <1>15, Zenon
<1>19. /\ \A k \in 1..latest' : Described(structures'[k], table') /\ structures'[k].at = Place(k)'
       /\ \A i, k \in 1..latest' : i < k => AreaEnd(structures'[i]) + 2 <= structures'[k].at
  BY <1>10, <1>14, <1>16, Zenon
<1> QED BY <1>1, <1>9, <1>10, <1>17, <1>18, <1>19, Zenon DEF TableInv

LEMMA EndStructureStep ==
  ASSUME TableInv, EndStructure
  PROVE  TableInv'
<1> DEFINE n == latest
           s == structures[n]
           e == IF s.texts = << >> THEN <<0, 0>> ELSE <<0>>
<1>1. /\ step = "strings" /\ step' = "firmware" /\ structures' = structures /\ table' = table \o e
  BY Zenon DEF EndStructure
<1>2. table \in Seq(Nat) /\ structures \in Seq(Structure) BY Zenon DEF TableInv
<1>3. n \in Nat /\ n > 0 /\ Len(table) = AreaEnd(s) + (IF s.texts = << >> THEN 0 ELSE 1)
  <2>1. n \in Nat BY <1>2 DEF latest
  <2>2. n > 0 /\ Len(table) = AreaEnd(s) + (IF s.texts = << >> THEN 0 ELSE 1) BY <1>1, Zenon DEF TableInv
  <2> QED BY <2>1, <2>2
<1>4. n \in 1..n BY <1>3
<1>5. s \in Structure /\ Described(s, table) /\ AreaEnd(s) \in Nat /\ Len(table) \in Nat BY <1>4, AtStructure, Zenon
<1>6. /\ e \in Seq(Nat) /\ (s.texts = << >> => Len(e) = 2 /\ e[1] = 0 /\ e[2] = 0) /\ (s.texts # << >> => Len(e) = 1 /\ e[1] = 0)
  <2>1. <<0, 0>> \in Seq(Nat) /\ <<0>> \in Seq(Nat) OBVIOUS
  <2>2. CASE s.texts = << >>
    <3>1. e = <<0, 0>> BY <2>2
    <3> QED BY <2>1, <2>2, <3>1
  <2>3. CASE s.texts # << >>
    <3>1. e = <<0>> BY <2>3
    <3> QED BY <2>1, <2>3, <3>1
  <2> QED BY <2>2, <2>3
<1> HIDE DEF e, n
<1>7. /\ table' \in Seq(Nat) /\ Continues(table', table) /\ Len(table') = Len(table) + Len(e) BY <1>1, <1>2, <1>6, Appended, Zenon
<1>8. \A i \in 1..Len(e) : table'[Len(table) + i] = e[i]
  <2>1. \A i \in 1..Len(e) : (table \o e)[Len(table) + i] = e[i] BY <1>2, <1>6
  <2> QED BY <1>1, <2>1, Zenon
<1>9. Len(table') = AreaEnd(s) + 2 /\ table'[AreaEnd(s) + 1] = 0 /\ table'[AreaEnd(s) + 2] = 0
  <2>1. CASE s.texts = << >>
    <3>1. Len(table) = AreaEnd(s) BY <1>3, <1>5, <2>1
    <3>2. 1 \in 1..Len(e) /\ 2 \in 1..Len(e)
      <4>1. Len(e) = 2 BY <1>6, <2>1, Zenon
      <4> QED BY <4>1
    <3> QED BY <1>6, <1>7, <1>8, <2>1, <3>1, <3>2, Zenon
  <2>2. CASE s.texts # << >>
    <3>1. Len(table) = AreaEnd(s) + 1 BY <1>3, <1>5, <2>2
    <3>2. 1 \in 1..Len(e) BY <1>6, <2>2
    <3>3. table'[Len(table) + 1] = 0 /\ Len(table') = Len(table) + 1 BY <1>6, <1>7, <1>8, <2>2, <3>2, Zenon
    <3>4. AreaEnd(s) + 1 + 1 = AreaEnd(s) + 2 BY <1>5
    <3>5. table[AreaEnd(s) + 1] = 0
      <4>1. Len(s.texts) \in 1..Len(s.texts) /\ AreaEnd(s) = s.ends[Len(s.texts)] BY <1>2, <1>5, <2>2, EndTyped, Zenon
      <4> QED BY <1>5, <4>1, Zenon DEF Described, TextIn
    <3>6. AreaEnd(s) + 1 \in Nat /\ 1 <= AreaEnd(s) + 1 /\ AreaEnd(s) + 1 <= Len(table) BY <1>5, <3>1
    <3>7. table'[AreaEnd(s) + 1] = table[AreaEnd(s) + 1] BY <1>2, <1>7, <3>6, SameByte, Zenon
    <3> QED BY <3>1, <3>3, <3>4, <3>5, <3>7, Zenon
  <2> QED BY <2>1, <2>2
<1>10. Closed(s, table')
  <2>1. ASSUME NEW x \in Nat PROVE x + 2 <= x + 2 OBVIOUS
  <2> QED BY <1>5, <1>9, <2>1, Zenon DEF Closed
<1>11. latest' = n /\ \A k : Place(k)' = Place(k) BY <1>1, Zenon DEF latest, n, Place
<1>12. ASSUME NEW k \in 1..n
       PROVE  Described(structures[k], table') /\ structures[k].at = Place(k) /\ Closed(structures[k], table')
  <2>1. structures[k] \in Structure /\ Described(structures[k], table) /\ structures[k].at = Place(k) BY AtStructure, Zenon DEF n
  <2>2. Described(structures[k], table') BY <1>2, <1>7, <2>1, DescribedLonger, Zenon
  <2>3. CASE k = n BY <1>10, <2>1, <2>2, <2>3, Zenon
  <2>4. CASE k # n
    <3>1. k \in 1..latest /\ k < latest BY <1>3, <2>4 DEF n
    <3>2. Closed(structures[k], table) BY <3>1, Zenon DEF TableInv
    <3> QED BY <1>2, <1>7, <2>1, <2>2, <3>2, ClosedLonger, Zenon
  <2> QED BY <2>3, <2>4
<1>13. Len(table') = Place(latest + 1)'
  <2>1. n + 1 # 1 /\ (n + 1) - 1 = n BY <1>3
  <2>2. Place(n + 1) = AreaEnd(s) + 2 BY <2>1, Zenon DEF Place
  <2>3. Place(latest + 1)' = Place(n + 1) BY <1>1, <1>11, Zenon DEF Place, latest
  <2> QED BY <1>9, <2>2, <2>3, Zenon
<1>14. step' # "strings" BY <1>1
<1>15. \A i, k \in 1..n : i < k => AreaEnd(structures[i]) + 2 <= structures[k].at BY Zenon DEF TableInv, n
<1> QED BY <1>1, <1>2, <1>7, <1>11, <1>12, <1>13, <1>14, <1>15, Zenon DEF TableInv

-----------------------------------------------------------------------------
(* The firmware's invariant.                                               *)

LEMMA FirmwareInitInv == FirmwareInit => FirmwareInv
<1>1. SUFFICES ASSUME FirmwareInit PROVE FirmwareInv OBVIOUS
<1>2. step = "firmware" /\ table = << >> /\ structures = << >> BY <1>1, Zenon DEF FirmwareInit
<1>3. latest = 0 /\ Len(table) = 0 /\ table \in Seq(Nat) /\ structures \in Seq(Structure) BY <1>2 DEF latest
<1>4. (\A k \in 1..latest : FALSE) /\ latest + 1 = 1 BY <1>3
<1>5. Len(table) = Place(latest + 1) BY <1>3, <1>4, Zenon DEF Place
<1>6. step # "strings" /\ step # "finding" /\ step # "scanning" /\ step # "reading" /\ step # "done" BY <1>2
<1>7. TableInv BY <1>3, <1>4, <1>5, <1>6, Zenon DEF TableInv
<1> QED BY <1>2, <1>6, <1>7, Zenon DEF FirmwareInv, SerialIsReferred

LEMMA FirmwareStutters ==
  ASSUME FirmwareInv, UNCHANGED firmware
  PROVE  FirmwareInv'
<1>1. /\ step' = step /\ table' = table /\ structures' = structures /\ size' = size /\ offset' = offset
      /\ reached' = reached /\ index' = index /\ start' = start /\ current' = current /\ serial' = serial
  BY Zenon DEF firmware, search, finder, picker
<1>2. latest' = latest /\ First' = First /\ (\A k : Place(k)' = Place(k)) /\ \A k : IsSystem(k)' = IsSystem(k)
  BY <1>1, Zenon DEF latest, First, Place, IsSystem
<1>3. TableInv' = TableInv BY <1>1, <1>2 DEF TableInv, Place, latest
<1>4. FinderInv => FinderInv' BY <1>1, FinderStays, Zenon
<1>5. ScannerInv' = ScannerInv BY <1>1, Zenon DEF ScannerInv, latest
<1>6. PickerInv' = PickerInv BY <1>1, Zenon DEF PickerInv, latest, IsSystem
<1>7. SerialIsReferred' = SerialIsReferred BY <1>1, <1>2, Zenon DEF SerialIsReferred, Referred
<1> QED BY <1>1, <1>3, <1>4, <1>5, <1>6, <1>7, Zenon DEF FirmwareInv

LEMMA FirmwareNextInv ==
  ASSUME FirmwareInv, FirmwareNext
  PROVE  FirmwareInv'
<1>1. ASSUME step' \in {"firmware", "strings"}, TableInv' PROVE FirmwareInv'
  <2>1. step' # "finding" /\ step' # "scanning" /\ step' # "reading" /\ step' # "done" BY <1>1
  <2> QED BY <1>1, <2>1, Zenon DEF FirmwareInv, SerialIsReferred
<1>2. ASSUME step' = "finding", TableInv', FinderInv' PROVE FirmwareInv'
  <2>1. step' # "scanning" /\ step' # "reading" /\ step' # "done" BY <1>2
  <2> QED BY <1>2, <2>1, Zenon DEF FirmwareInv, SerialIsReferred
<1>3. ASSUME step' = "scanning", TableInv', FinderInv', ScannerInv' PROVE FirmwareInv'
  <2>1. step' # "reading" /\ step' # "done" BY <1>3
  <2> QED BY <1>3, <2>1, Zenon DEF FirmwareInv, SerialIsReferred
<1>4. ASSUME step' = "reading", TableInv', FinderInv', PickerInv' PROVE FirmwareInv'
  <2>1. step' # "scanning" /\ step' # "done" BY <1>4
  <2> QED BY <1>4, <2>1, Zenon DEF FirmwareInv, SerialIsReferred
<1>5. ASSUME step' = "done", TableInv', SerialIsReferred' PROVE FirmwareInv'
  <2>1. step' # "finding" /\ step' # "scanning" /\ step' # "reading" BY <1>5
  <2> QED BY <1>5, <2>1, Zenon DEF FirmwareInv
<1>6. /\ TableInv /\ (step \in {"finding", "scanning", "reading"} => FinderInv)
      /\ (step = "scanning" => ScannerInv) /\ (step = "reading" => PickerInv)
  BY Zenon DEF FirmwareInv
<1>7. CASE AddStructure
  <2>1. step' = "strings" BY <1>7, Zenon DEF AddStructure
  <2> QED BY <1>1, <1>6, <1>7, <2>1, AddStructureStep, Zenon
<1>8. CASE AddString
  <2>1. step' = "strings" BY <1>8, Zenon DEF AddString
  <2> QED BY <1>1, <1>6, <1>8, <2>1, AddStringStep, Zenon
<1>9. CASE EndStructure
  <2>1. step' = "firmware" BY <1>9, Zenon DEF EndStructure
  <2> QED BY <1>1, <1>6, <1>9, <2>1, EndStructureStep, Zenon
<1>10. CASE ReadTable
  <2>1. step' = "finding" BY <1>10, Zenon DEF ReadTable
  <2> QED BY <1>2, <1>6, <1>10, <2>1, ReadTableStep, Zenon
<1>11. CASE FindStructure
  <2>1. step = "finding" /\ step' = "scanning" BY <1>11, Zenon DEF FindStructure
  <2> QED BY <1>3, <1>6, <1>11, <2>1, FindStructureStep, Zenon
<1>12. CASE FindNothing
  <2>1. step = "finding" /\ step' = "done" BY <1>12, Zenon DEF FindNothing, Answers
  <2> QED BY <1>5, <1>6, <1>12, <2>1, FindNothingStep, Zenon
<1>13. CASE ScanNext
  <2>1. step = "scanning" /\ step' = "scanning" BY <1>13, Zenon DEF ScanNext
  <2> QED BY <1>3, <1>6, <1>13, <2>1, ScanNextStep, Zenon
<1>14. CASE ScanNothing
  <2>1. step = "scanning" /\ step' = "done" BY <1>14, Zenon DEF ScanNothing, Answers
  <2> QED BY <1>5, <1>6, <1>14, <2>1, ScanNothingStep, Zenon
<1>15. CASE Skip
  <2>1. step = "scanning" /\ step' = "finding" BY <1>15, Zenon DEF Skip
  <2> QED BY <1>2, <1>6, <1>15, <2>1, SkipStep, Zenon
<1>16. CASE Found
  <2>1. step = "scanning" BY <1>16, Zenon DEF Found
  <2> QED BY <1>4, <1>5, <1>6, <1>16, <2>1, FoundStep, Zenon
<1>17. CASE ReadString
  <2>1. step = "reading" BY <1>17, Zenon DEF ReadString
  <2> QED BY <1>4, <1>5, <1>6, <1>17, <2>1, ReadStringStep, Zenon
<1>18. CASE ReadNothing
  <2>1. step = "reading" /\ step' = "done" BY <1>18, Zenon DEF ReadNothing, Answers
  <2> QED BY <1>5, <1>6, <1>18, <2>1, ReadNothingStep, Zenon
<1> QED BY <1>7, <1>8, <1>9, <1>10, <1>11, <1>12, <1>13, <1>14, <1>15, <1>16, <1>17, <1>18, Zenon DEF FirmwareNext

\* SerialIsReferred for every table, however long: smbios_system_serial
\* returns the string that the first system structure of the firmware's
\* table refers to, or none, also when it has only got a part of the table,
\* and finds every one but the last that is UTF-8.
THEOREM SerialsAreReferred == FirmwareSpec => []SerialIsReferred
<1>1. FirmwareInit => FirmwareInv BY FirmwareInitInv
<1>2. FirmwareInv /\ [FirmwareNext]_firmware => FirmwareInv'
  BY FirmwareNextInv, FirmwareStutters, Zenon
<1>3. FirmwareInv => SerialIsReferred BY Zenon DEF FirmwareInv
<1> QED BY <1>1, <1>2, <1>3, PTL DEF FirmwareSpec
=============================================================================
