--------------------------- MODULE HostPipeProofs ---------------------------
(***************************************************************************)
(* A store has one key, the key goes to the launched host, the letter that *)
(* is reported is the real one, and every step is one that SessionMonitor  *)
(* knows, for any users, logons and letters: proofs of what MCHostPipe     *)
(* checks on a small instance.                                             *)
(***************************************************************************)
EXTENDS HostPipeMonitor, TLAPS

LEMMA NoneIsNoGeneration == \A g \in Generation : g # None BY HostPipeAssumption DEF Generation

LEMMA InitInv == Init => Inv
<1> SUFFICES ASSUME Init PROVE Inv OBVIOUS
<1>1. Typed BY DEF Init, Typed
<1>2. LogonIsUnderWay BY DEF Init, LogonIsUnderWay
<1>3. KeyIsInFile BY DEF Init, KeyIsInFile
<1>4. ASSUME NEW g \in Generation PROVE Turns(g)
  BY HostPipeAssumption DEF Init, Turns, ClientOpen, Alive, HostStep
<1>5. LetterIsHeld BY DEF Init, LetterIsHeld
<1> QED BY <1>1, <1>2, <1>3, <1>4, <1>5 DEF Inv

-----------------------------------------------------------------------------
(* The thread in accept_and_authenticate.                                  *)

\* A generation whose thread, pipe and host are left alone.
Same(e) ==
    /\ auth'[e] = auth[e] /\ client'[e] = client[e] /\ version'[e] = version[e]
    /\ toHost'[e] = toHost[e] /\ toService'[e] = toService[e]
    /\ host'[e] = host[e] /\ letter'[e] = letter[e]

LEMMA SameKeepsTurns ==
  ASSUME NEW e \in Generation, Turns(e), Same(e)
  PROVE  Turns(e)'
  BY DEF Turns, Same, ClientOpen, Alive

\* A step of the thread of g changes its own state and the frames on its pipe.
AuthChanges(g) ==
    /\ UNCHANGED AuthFrame
    /\ auth[g] # "none"
    /\ \E to \in (AuthStep \cup {"done", "ended"}) : auth' = [auth EXCEPT ![g] = to]
    /\ toHost' \in [Generation -> Seq({"accepted", "bootstrap"})] /\ DOMAIN toService' = Generation
    /\ \A e \in Generation \ {g} : toHost'[e] = toHost[e] /\ toService'[e] = toService[e]

LEMMA AuthChangesKeepInv ==
  ASSUME Inv, NEW g \in Generation, AuthChanges(g), Turns(g)'
  PROVE  Inv'
<1>1. /\ UNCHANGED <<service, keyFile, cached, logon, step, actors, runtimes, logged, owner, key, client, version,
                     host, letter, volumes, used, lost>>
  BY DEF AuthChanges, AuthFrame, files, monitor
<1>2. /\ auth' \in [Generation -> AuthStep \cup {"none", "done", "ended"}]
      /\ \A e \in Generation : (auth'[e] = "none" <=> auth[e] = "none") /\ (e # g => auth'[e] = auth[e])
  BY DEF AuthChanges, AuthStep, Inv, Typed
<1>3. Typed' BY <1>1, <1>2 DEF Inv, Typed, AuthChanges
<1>4. LogonIsUnderWay' BY <1>1, <1>2 DEF Inv, LogonIsUnderWay
<1>5. KeyIsInFile' BY <1>1 DEF Inv, KeyIsInFile
<1>6. \A e \in Generation : Turns(e)'
  <2> TAKE e \in Generation
  <2>1. CASE e = g BY <2>1
  <2>2. CASE e # g
    <3>1. Same(e) BY <1>1, <1>2, <2>2 DEF Same, AuthChanges
    <3> QED BY <3>1, SameKeepsTurns DEF Inv
  <2> QED BY <2>1, <2>2
<1>7. LetterIsHeld' BY <1>1 DEF Inv, LetterIsHeld
<1> QED BY <1>3, <1>4, <1>5, <1>6, <1>7 DEF Inv

LEMMA AuthThreadChanges ==
  ASSUME Inv, NEW g \in Generation, AuthThread(g)
  PROVE  AuthChanges(g)
<1> USE DEF AuthChanges, AuthGoes, AuthStep, Inv, Typed
<1>1. CASE Connected(g) BY <1>1 DEF Connected
<1>2. CASE Identify(g) BY <1>2 DEF Identify
<1>3. CASE ReadRequest(g) BY <1>3 DEF ReadRequest
<1>4. CASE SendAcceptance(g) BY <1>4 DEF SendAcceptance, Write
<1>5. CASE SendBootstrap(g) BY <1>5 DEF SendBootstrap, Write
<1>6. CASE ReadAck(g) BY <1>6 DEF ReadAck
<1>7. CASE Refuse(g) BY <1>7 DEF Refuse
<1>8. CASE ResultDropped(g) BY <1>8 DEF ResultDropped
<1> QED BY <1>1, <1>2, <1>3, <1>4, <1>5, <1>6, <1>7, <1>8 DEF AuthThread

LEMMA AuthKeepsInv ==
  ASSUME Inv, NEW g \in Generation, AuthThread(g)
  PROVE  Inv'
<1>1. Turns(g) /\ Typed BY DEF Inv
<1>2. AuthChanges(g) BY AuthThreadChanges
<1>3. UNCHANGED <<client, version, host, letter>> BY <1>2, Zenon DEF AuthChanges, AuthFrame
<1>4. Turns(g)'
  <2> USE <1>1, <1>3 DEF AuthGoes, Turns, ClientOpen, Alive
  <2>1. CASE Connected(g) BY <2>1 DEF Connected, Typed
  <2>2. CASE Identify(g) BY <2>2 DEF Identify, Typed
  <2>3. CASE ReadRequest(g)
    <3>1. /\ auth[g] = "request" /\ auth'[g] = "respond" /\ toHost'[g] = toHost[g]
          /\ toService[g] # << >> /\ Head(toService[g]) = ServiceVersion /\ toService'[g] = Tail(toService[g])
      BY <2>3 DEF ReadRequest, ValidRequest, Typed
    <3>2. toService[g] = <<version[g]>> BY <3>1
    <3>3. version[g] = ServiceVersion /\ toService'[g] = << >> BY <3>1, <3>2
    <3>4. host[g] # "opened" /\ host[g] \notin {"none", "started"} BY <3>1
    <3> QED BY <3>1, <3>3, <3>4, Zenon
  <2>4. CASE SendAcceptance(g) BY <2>4 DEF SendAcceptance, Write, Typed
  <2>5. CASE SendBootstrap(g) BY <2>5 DEF SendBootstrap, Write, Typed
  <2>6. CASE ReadAck(g) BY <2>6 DEF ReadAck, Typed
  <2>7. CASE Refuse(g) BY <2>7 DEF Refuse, Typed
  <2>8. CASE ResultDropped(g) BY <2>8 DEF ResultDropped, Typed
  <2> QED BY <2>1, <2>2, <2>3, <2>4, <2>5, <2>6, <2>7, <2>8 DEF AuthThread
<1> QED BY <1>2, <1>4, AuthChangesKeepInv

-----------------------------------------------------------------------------
(* The host.                                                               *)

\* A step of the host of g changes its own state, its pipe, its letter and
\* its volume, and may use its key.
HostChanges(g) ==
    /\ UNCHANGED HostFrame
    /\ host[g] \in HostStep
    /\ \E to \in HostStep \cup {"exited"} : host' = [host EXCEPT ![g] = to]
    /\ host[g] = "serving" => host'[g] = "exited"
    /\ client' \in [Generation -> {None, "host", "other"}]
    /\ toHost' \in [Generation -> Seq({"accepted", "bootstrap"})] /\ DOMAIN toService' = Generation
    /\ letter' \in [Generation -> Letter \cup {None}]
    /\ volumes' \in [Letter -> Generation \cup {Other, None}]
    /\ \A e \in Generation \ {g} :
          /\ client'[e] = client[e] /\ toHost'[e] = toHost[e] /\ toService'[e] = toService[e]
          /\ letter'[e] = letter[e] /\ \A l \in Letter : volumes[l] = e => volumes'[l] = e
    /\ letter'[g] = letter[g] \/ host[g] = "stored"
    /\ host'[g] \in {"chosen", "mounted", "serving"} => letter'[g] \in Letter
    /\ host'[g] \in {"mounted", "serving"} => volumes'[letter'[g]] = g
    /\ used' = used \/ used' = [used EXCEPT ![owner[g]] = @ \cup {key[g]}]

LEMMA HostChangesKeepInv ==
  ASSUME Inv, NEW g \in Generation, HostChanges(g), Turns(g)'
  PROVE  Inv'
<1>1. UNCHANGED <<service, keyFile, cached, logon, step, actors, runtimes, logged, owner, key, version, auth, lost>>
  BY DEF HostChanges, HostFrame, files, monitor
<1>2. /\ host' \in [Generation -> HostStep \cup {"none", "exited"}] /\ host[g] # "none" /\ host'[g] # "none"
      /\ \A e \in Generation \ {g} : host'[e] = host[e]
  BY DEF HostChanges, HostStep, Inv, Typed
<1>3. owner[g] \in User /\ key[g] \in Generation /\ key[g] # None
  BY <1>2 DEF Inv, Typed, LogonIsUnderWay
<1>4. used' \in [User -> SUBSET Generation]
  <2>1. used \in [User -> SUBSET Generation] BY DEF Inv, Typed
  <2>2. used[owner[g]] \cup {key[g]} \in SUBSET Generation BY <1>3, <2>1
  <2>3. used' = used \/ used' = [used EXCEPT ![owner[g]] = @ \cup {key[g]}] BY DEF HostChanges
  <2> HIDE DEF HostChanges
  <2> QED BY <2>1, <2>2, <2>3
<1>5. Typed' BY <1>1, <1>2, <1>4 DEF Inv, Typed, HostChanges
<1>6. LogonIsUnderWay'
  <2>1. \A e \in Generation : host'[e] = "none" <=> host[e] = "none" BY <1>2
  <2>2. \A e \in Generation : owner[e] = None => client'[e] = None
    BY <1>2, HostPipeAssumption, SMTT(20) DEF HostChanges, Inv, LogonIsUnderWay
  <2> QED BY <1>1, <2>1, <2>2 DEF Inv, Typed, LogonIsUnderWay
<1>7. KeyIsInFile'
  <2>1. \A u \in User : used'[u] \subseteq used[u] \cup (IF u = owner[g] THEN {key[g]} ELSE {})
    BY <1>3 DEF HostChanges, Inv, Typed
  <2> QED BY <1>1, <1>3, <2>1 DEF Inv, KeyIsInFile
<1>8. \A e \in Generation : Turns(e)'
  <2> TAKE e \in Generation
  <2>1. CASE e = g BY <2>1
  <2>2. CASE e # g
    <3>1. Same(e) BY <1>1, <1>2, <2>2 DEF Same, HostChanges
    <3> QED BY <3>1, SameKeepsTurns DEF Inv
  <2> QED BY <2>1, <2>2
<1>9. LetterIsHeld'
  <2>1. ASSUME NEW e \in Generation
        PROVE  /\ host'[e] \in {"chosen", "mounted", "serving"} => letter'[e] \in Letter
               /\ host'[e] \in {"mounted", "serving"} => volumes'[letter'[e]] = e
    <3>1. CASE e = g BY <3>1 DEF HostChanges
    <3>2. CASE e # g
      <4>1. host'[e] = host[e] /\ letter'[e] = letter[e] BY <1>2, <3>2 DEF HostChanges
      <4>2. host[e] \in {"chosen", "mounted", "serving"} => letter[e] \in Letter BY DEF Inv, LetterIsHeld
      <4>3. host[e] \in {"mounted", "serving"} => volumes[letter[e]] = e BY DEF Inv, LetterIsHeld
      <4> QED BY <3>2, <4>1, <4>2, <4>3 DEF HostChanges
    <3> QED BY <3>1, <3>2
  <2>2. ASSUME NEW e \in Generation, host[e] \in {"serving", "exited"}
        PROVE  host'[e] \in {"serving", "exited"} /\ letter'[e] = letter[e]
    BY <1>2, <2>2 DEF HostChanges, HostStep
  <2>3. \A u \in User : actors[u] # None /\ actors[u].state = "Mounted" =>
            /\ actors[u].generation \in Generation
            /\ host[actors[u].generation] \in {"serving", "exited"}
            /\ actors[u].letter = letter[actors[u].generation]
    BY DEF Inv, LetterIsHeld
  <2>4. \A e \in runtimes : e \in Generation /\ host[e] \in {"serving", "exited"} BY DEF Inv, Typed, LetterIsHeld
  <2> QED BY <1>1, <2>1, <2>2, <2>3, <2>4 DEF LetterIsHeld
<1> QED BY <1>5, <1>6, <1>7, <1>8, <1>9 DEF Inv

\* The only frame of a pipe.
LEMMA AppendToEmpty == \A frame : Append(<< >>, frame) = <<frame>>
  OBVIOUS

LEMMA HostThreadChanges ==
  ASSUME Inv, NEW g \in Generation, HostThread(g) \/ Die(g)
  PROVE  HostChanges(g)
<1>1. Turns(g) /\ Typed /\ LetterIsHeld BY DEF Inv
<1>2. CASE Leave(g) \/ Die(g)
  <2>1. host[g] \in HostStep /\ Exit(g) BY <1>2 DEF Leave, Die, Alive, HostStep
  <2> QED BY <1>1, <2>1, HostPipeAssumption, Zenon DEF Exit, Unmounted, HostChanges, Typed, Generation
<1>3. CASE ~(Leave(g) \/ Die(g))
  <2> USE <1>1 DEF HostChanges, HostGoes, HostStep, Typed
  <2>1. CASE Open(g) BY <2>1 DEF Open
  <2>2. CASE SendRequest(g) BY <2>2 DEF SendRequest
  <2>3. CASE ReadAcceptance(g) BY <2>3 DEF ReadAcceptance, Read
  <2>4. CASE ReadBootstrap(g) BY <2>4 DEF ReadBootstrap, Read
  <2>5. CASE OpenStore(g) BY <2>5 DEF OpenStore
  <2>6. CASE SelectLetter(g)
    <3>1. \A i \in Letter : Candidate(i) \in Letter BY HostPipeAssumption DEF Candidate, Letter
    <3> QED BY <2>6, <3>1 DEF SelectLetter
  <2>7. CASE Mount(g)
    <3>1. letter[g] \in Letter /\ volumes[letter[g]] = None BY <2>7 DEF Mount, Free
    <3>2. \A e \in Generation : e # None BY HostPipeAssumption DEF Generation
    <3> QED BY <2>7, <3>1, <3>2 DEF Mount
  <2>8. CASE SendAck(g) BY <2>8 DEF SendAck, LetterIsHeld
  <2> QED BY <1>3, <2>1, <2>2, <2>3, <2>4, <2>5, <2>6, <2>7, <2>8, Zenon DEF HostThread
<1> QED BY <1>2, <1>3

LEMMA HostKeepsInv ==
  ASSUME Inv, NEW g \in Generation, HostThread(g) \/ Die(g)
  PROVE  Inv'
<1>1. Turns(g) /\ Typed BY DEF Inv
<1>2. HostChanges(g) BY HostThreadChanges
<1>3. Turns(g)'
  <2>1. UNCHANGED <<version, auth>> BY <1>2 DEF HostChanges, HostFrame
  <2> USE <1>1, <2>1 DEF HostGoes, Turns, ClientOpen, Alive, HostStep, Typed, AuthStep
  <2>2. CASE Open(g) BY <2>2, HostPipeAssumption, Zenon DEF Open
  <2>3. CASE SendRequest(g)
    <3>1. /\ host[g] = "opened" /\ host'[g] = "requested"
          /\ toService'[g] = Append(toService[g], version[g]) /\ UNCHANGED <<client, toHost, letter>>
      BY <2>3 DEF SendRequest
    <3>2. toService[g] = << >> BY <3>1
    <3>3. toService'[g] = <<version[g]>> BY <3>1, <3>2, AppendToEmpty
    <3> QED BY <3>1, <3>3, HostPipeAssumption
  <2>4. CASE ReadAcceptance(g) BY <2>4 DEF ReadAcceptance, Read
  <2>5. CASE ReadBootstrap(g) BY <2>5 DEF ReadBootstrap, Read
  <2>6. CASE OpenStore(g) BY <2>6 DEF OpenStore
  <2>7. CASE SelectLetter(g) BY <2>7 DEF SelectLetter
  <2>8. CASE Mount(g) BY <2>8, Zenon DEF Mount
  <2>9. CASE SendAck(g)
    <3>1. /\ host[g] = "mounted" /\ host'[g] = "serving"
          /\ toService'[g] = Append(toService[g], letter[g]) /\ UNCHANGED <<client, toHost, letter>>
      BY <2>9, Zenon DEF SendAck
    <3>2. auth[g] \in {"bootstrap", "ack", "done", "ended"} /\ client[g] = "host" BY <3>1
    <3>3. auth[g] # "ended" => toService'[g] = <<letter[g]>> /\ auth[g] # "done"
      BY <3>1, <3>2, AppendToEmpty, Zenon
    <3> QED BY <3>1, <3>2, <3>3, HostPipeAssumption
  <2>10. CASE Leave(g) \/ Die(g)
    <3>1. host'[g] = "exited" /\ UNCHANGED <<client, toHost, toService, letter>> BY <2>10 DEF Leave, Die, Exit
    <3> QED BY <3>1, Zenon
  <2> QED BY <2>2, <2>3, <2>4, <2>5, <2>6, <2>7, <2>8, <2>9, <2>10, Zenon DEF HostThread
<1> QED BY <1>2, <1>3, HostChangesKeepInv

-----------------------------------------------------------------------------
(* session_logon.                                                          *)

\* A key that the file has when it is None or Torn has not been used.
LEMMA NoKeyWithoutFile ==
  ASSUME Inv, NEW u \in User \ lost, keyFile[u] \in {None, Torn}
  PROVE  used[u] = {} /\ \A g \in Generation : owner[g] = u => key[g] = None
<1>1. \A k \in Generation : k # None /\ k # Torn BY HostPipeAssumption DEF Generation
<1>2. \A k \in used[u] : k \in Generation /\ k = keyFile[u] BY DEF Inv, Typed, KeyIsInFile
<1>3. \A g \in Generation : key[g] \in Generation \cup {None} /\ (owner[g] = u /\ key[g] # None => key[g] = keyFile[u])
  BY DEF Inv, Typed, KeyIsInFile
<1> QED BY <1>1, <1>2, <1>3

LEMMA BeginLogonKeepsInv ==
  ASSUME Inv, NEW u \in User, NEW g \in Generation, BeginLogon(u, g)
  PROVE  Inv'
<1>1. /\ UNCHANGED <<actors, runtimes, client, toHost, toService, version, auth, host, letter, volumes, used, lost>>
      /\ owner' = [owner EXCEPT ![g] = u] /\ logon' = g /\ owner[g] = None
  BY DEF BeginLogon, pipes
<1>2. /\ host[g] = "none" /\ key[g] = None /\ client[g] = None /\ u # None /\ g # None
  BY <1>1, HostPipeAssumption DEF Inv, LogonIsUnderWay, Generation
<1>3. \/ keyFile[u] = None /\ step' = "key" /\ keyFile' = [keyFile EXCEPT ![u] = Torn]
         /\ cached' = cached \cup {u} /\ key' = key
      \/ keyFile[u] \in Generation /\ step' = "launch" /\ key' = [key EXCEPT ![g] = keyFile[u]]
         /\ UNCHANGED <<keyFile, cached>>
  BY DEF BeginLogon, files, Inv, Typed
<1>4. Typed' BY <1>1, <1>3, Zenon DEF Inv, Typed
<1>5. LogonIsUnderWay'
  <2>1. /\ step' \in {"key", "launch"} /\ owner'[g] = u /\ (step' = "key" => keyFile'[u] = Torn)
        /\ (step' = "launch" => key'[g] \in Generation)
    BY <1>1, <1>3 DEF Inv, Typed
  <2>2. \A e \in Generation : e # g => owner'[e] = owner[e] /\ key'[e] = key[e] BY <1>1, <1>3 DEF Inv, Typed
  <2>3. \A e \in Generation : e # None BY HostPipeAssumption DEF Generation
  <2> QED BY <1>1, <1>2, <2>1, <2>2, <2>3 DEF Inv, LogonIsUnderWay
<1>6. KeyIsInFile'
  <2> SUFFICES ASSUME NEW v \in User \ lost
               PROVE  /\ \A k \in used[v] : k = keyFile'[v]
                      /\ \A e \in Generation : owner'[e] = v /\ key'[e] # None => key'[e] = keyFile'[v]
    BY <1>1 DEF KeyIsInFile
  <2>1. CASE v # u
    <3>1. keyFile'[v] = keyFile[v] /\ \A e \in Generation : owner'[e] = v => owner[e] = v /\ key'[e] = key[e]
      BY <1>1, <1>3, <2>1 DEF Inv, Typed
    <3> QED BY <3>1 DEF Inv, KeyIsInFile
  <2>2. CASE v = u /\ keyFile[u] = None
    <3>1. used[v] = {} /\ \A e \in Generation : owner[e] = v => key[e] = None BY <2>2, NoKeyWithoutFile
    <3>2. key' = key BY <1>3, <2>2, HostPipeAssumption DEF Generation
    <3> QED BY <1>1, <1>2, <3>1, <3>2 DEF Inv, Typed
  <2>3. CASE v = u /\ keyFile[u] # None
    <3>1. keyFile' = keyFile /\ key' = [key EXCEPT ![g] = keyFile[u]] BY <1>3, <2>3, Zenon
    <3> QED BY <1>1, <2>3, <3>1 DEF Inv, Typed, KeyIsInFile
  <2> QED BY <2>1, <2>2, <2>3
<1>7. ASSUME NEW e \in Generation PROVE Turns(e)' BY <1>1, SameKeepsTurns DEF Inv, Same
<1>8. LetterIsHeld' BY <1>1 DEF Inv, LetterIsHeld
<1> QED BY <1>4, <1>5, <1>6, <1>7, <1>8 DEF Inv

LEMMA WriteKeyKeepsInv ==
  ASSUME Inv, WriteKey
  PROVE  Inv'
<1>1. /\ UNCHANGED <<logon, actors, runtimes, owner, client, toHost, toService, version, auth, host, letter,
                     volumes, used, lost>>
      /\ step = "key" /\ step' = "launch"
      /\ key' = [key EXCEPT ![logon] = logon] /\ keyFile' = [keyFile EXCEPT ![owner[logon]] = logon]
      /\ cached' = cached \cup {owner[logon]}
  BY DEF WriteKey, pipes
<1>2. logon \in Generation /\ owner[logon] \in User /\ keyFile[owner[logon]] = Torn /\ host[logon] = "none"
  BY <1>1 DEF Inv, Typed, LogonIsUnderWay
<1>3. Typed' BY <1>1, <1>2, Zenon DEF Inv, Typed
<1>4. LogonIsUnderWay'
  <2>1. /\ key'[logon] = logon /\ \A e \in Generation : e # logon => key'[e] = key[e]
    BY <1>1, <1>2 DEF Inv, Typed
  <2>2. logon # None /\ owner[logon] # None BY <1>2, HostPipeAssumption DEF Generation
  <2> QED BY <1>1, <1>2, <2>1, <2>2 DEF Inv, LogonIsUnderWay
<1>5. KeyIsInFile'
  <2> SUFFICES ASSUME NEW v \in User \ lost
               PROVE  /\ \A k \in used[v] : k = keyFile'[v]
                      /\ \A e \in Generation : owner[e] = v /\ key'[e] # None => key'[e] = keyFile'[v]
    BY <1>1, Zenon DEF KeyIsInFile
  <2>1. CASE v # owner[logon]
    <3>1. keyFile'[v] = keyFile[v] /\ \A e \in Generation : owner[e] = v => key'[e] = key[e]
      BY <1>1, <1>2, <2>1 DEF Inv, Typed
    <3> QED BY <3>1 DEF Inv, KeyIsInFile
  <2>2. CASE v = owner[logon]
    <3>1. used[v] = {} /\ \A e \in Generation : owner[e] = v => key[e] = None BY <1>2, <2>2, NoKeyWithoutFile
    <3>2. keyFile'[v] = logon BY <1>1, <1>2, <2>2, Zenon DEF Inv, Typed
    <3> QED BY <1>1, <1>2, <2>2, <3>1, <3>2 DEF Inv, Typed
  <2> QED BY <2>1, <2>2, Zenon
<1>6. ASSUME NEW e \in Generation PROVE Turns(e)' BY <1>1, SameKeepsTurns DEF Inv, Same
<1>7. LetterIsHeld' BY <1>1 DEF Inv, LetterIsHeld
<1> QED BY <1>3, <1>4, <1>5, <1>6, <1>7 DEF Inv

\* What a logon gives back when it ends before there is a host.
GivesBack(g) ==
    /\ owner' = [owner EXCEPT ![g] = None] /\ key' = [key EXCEPT ![g] = None]
    /\ client' = [client EXCEPT ![g] = None] /\ toService' = [toService EXCEPT ![g] = << >>]

LEMMA LogonFailsKeepsInv ==
  ASSUME Inv, LogonFails
  PROVE  Inv'
<1>1. /\ UNCHANGED <<keyFile, cached, actors, runtimes, toHost, version, auth, host, letter, volumes, used, lost>>
      /\ step \in {"key", "launch"} /\ logon' = None /\ step' = "idle" /\ GivesBack(logon)
  BY DEF LogonFails, LogonEnds, files, GivesBack
<1>2. logon \in Generation /\ host[logon] = "none" /\ auth[logon] = "none"
  BY <1>1 DEF Inv, Typed, LogonIsUnderWay
<1>3. /\ owner'[logon] = None /\ key'[logon] = None /\ client'[logon] = None /\ toService'[logon] = << >>
      /\ \A e \in Generation : e # logon => /\ owner'[e] = owner[e] /\ key'[e] = key[e] /\ client'[e] = client[e]
                                            /\ toService'[e] = toService[e]
  BY <1>1, <1>2 DEF Inv, Typed, GivesBack
<1>4. Typed' BY <1>1, <1>2 DEF Inv, Typed, GivesBack
<1>5. LogonIsUnderWay' BY <1>1, <1>2, <1>3, Zenon DEF Inv, LogonIsUnderWay
<1>6. KeyIsInFile' BY <1>1, <1>3, HostPipeAssumption DEF Inv, KeyIsInFile
<1>7. ASSUME NEW e \in Generation PROVE Turns(e)'
  <2>1. CASE e = logon
    <3>1. Turns(e) BY Zenon DEF Inv
    <3> QED BY <1>1, <1>2, <1>3, <2>1, <3>1, HostPipeAssumption DEF Turns, ClientOpen, Alive, HostStep
  <2>2. CASE e # logon BY <1>1, <1>3, <2>2, SameKeepsTurns DEF Inv, Same
  <2> QED BY <2>1, <2>2, Zenon
<1>8. LetterIsHeld' BY <1>1 DEF Inv, LetterIsHeld
<1> QED BY <1>4, <1>5, <1>6, <1>7, <1>8 DEF Inv

LEMMA LaunchKeepsInv ==
  ASSUME Inv, Launch
  PROVE  Inv'
<1>1. /\ UNCHANGED <<keyFile, cached, logon, actors, runtimes, owner, key, client, toHost, toService, letter,
                     volumes, used, lost>>
      /\ step = "launch" /\ step' = "wait"
      /\ host' = [host EXCEPT ![logon] = "started"] /\ auth' = [auth EXCEPT ![logon] = "connect"]
      /\ \E v \in Version : version' = [version EXCEPT ![logon] = v]
  BY Zenon DEF Launch, files, pipes
<1>2. /\ logon \in Generation /\ logon # None /\ owner[logon] # None /\ key[logon] # None
      /\ host[logon] = "none" /\ auth[logon] = "none" /\ logon \notin runtimes
  BY <1>1 DEF Inv, Typed, LogonIsUnderWay
<1>3. Typed' BY <1>1, <1>2 DEF Inv, Typed, HostStep, AuthStep
<1>4. /\ host'[logon] = "started" /\ auth'[logon] = "connect"
      /\ \A e \in Generation : e # logon => host'[e] = host[e] /\ auth'[e] = auth[e] /\ version'[e] = version[e]
  BY <1>1, <1>2 DEF Inv, Typed
<1>5. LogonIsUnderWay' BY <1>1, <1>2, <1>4 DEF Inv, LogonIsUnderWay
<1>6. KeyIsInFile' BY <1>1, Zenon DEF Inv, KeyIsInFile
<1>7. ASSUME NEW e \in Generation PROVE Turns(e)'
  <2>1. CASE e = logon
    <3>1. Turns(e) BY DEF Inv
    <3> QED BY <1>1, <1>2, <1>4, <2>1, <3>1 DEF Turns, ClientOpen, Alive, HostStep
  <2>2. CASE e # logon BY <1>1, <1>4, <2>2, SameKeepsTurns DEF Inv, Same
  <2> QED BY <2>1, <2>2
<1>8. LetterIsHeld'
  <2>1. \A e \in Generation : host[e] \in {"serving", "exited"} => host'[e] = host[e] BY <1>2, <1>4
  <2>2. runtimes \subseteq Generation BY DEF Inv, Typed
  <2> QED BY <1>1, <1>2, <1>4, <2>1, <2>2 DEF Inv, LetterIsHeld
<1> QED BY <1>3, <1>5, <1>6, <1>7, <1>8 DEF Inv

LEMMA HandshakeSucceedsKeepsInv ==
  ASSUME Inv, HandshakeSucceeds
  PROVE  Inv'
<1>1. /\ UNCHANGED <<keyFile, cached, owner, key, client, toHost, toService, version, host, letter, volumes, used, lost>>
      /\ step = "wait" /\ auth[logon] = "done" /\ logon' = None /\ step' = "idle"
      /\ actors' = [actors EXCEPT ![owner[logon]] = Actor("Mounted", Head(toService[logon]))]
      /\ runtimes' = runtimes \cup {logon} /\ auth' = [auth EXCEPT ![logon] = "ended"]
  BY Zenon DEF HandshakeSucceeds, files, pipes
<1>2. logon \in Generation /\ owner[logon] \in User /\ host[logon] # "none"
  BY <1>1 DEF Inv, Typed, LogonIsUnderWay
<1>3. Typed' BY <1>1, <1>2 DEF Inv, Typed
<1>4. auth'[logon] = "ended" /\ \A e \in Generation : e # logon => auth'[e] = auth[e] BY <1>1, <1>2 DEF Inv, Typed
<1>5. toService[logon] = <<letter[logon]>> /\ host[logon] \in {"serving", "exited"}
  BY <1>1, <1>2, Zenon DEF Inv, Turns
<1>6. LogonIsUnderWay' BY <1>1, <1>2, <1>4, Zenon DEF Inv, LogonIsUnderWay
<1>7. KeyIsInFile' BY <1>1, Zenon DEF Inv, KeyIsInFile
<1>8. ASSUME NEW e \in Generation PROVE Turns(e)'
  <2>1. CASE e = logon
    <3>1. Turns(e) BY DEF Inv
    <3> QED BY <1>1, <1>4, <1>5, <2>1, <3>1, Zenon DEF Turns, ClientOpen, Alive
  <2>2. CASE e # logon BY <1>1, <1>4, <2>2, SameKeepsTurns, Zenon DEF Inv, Same
  <2> QED BY <2>1, <2>2
<1>9. LetterIsHeld'
  <2>1. Head(toService[logon]) = letter[logon] BY <1>5
  <2>2. actors' = [actors EXCEPT ![owner[logon]] = [generation |-> logon, state |-> "Mounted", letter |-> letter[logon]]]
    BY <1>1, <2>1, Zenon DEF Actor
  <2>3. DOMAIN actors = User BY DEF Inv, Typed
  <2>4. ASSUME NEW u \in User, actors'[u] # None, actors'[u].state = "Mounted"
        PROVE  /\ actors'[u].generation \in Generation
               /\ host[actors'[u].generation] \in {"serving", "exited"}
               /\ actors'[u].letter = letter[actors'[u].generation]
    <3>1. CASE u = owner[logon] BY <1>2, <1>5, <2>2, <2>3, <3>1
    <3>2. CASE u # owner[logon]
      <4>1. actors'[u] = actors[u] BY <2>2, <2>3, <3>2
      <4> QED BY <2>4, <4>1 DEF Inv, LetterIsHeld
    <3> QED BY <3>1, <3>2
  <2> QED BY <1>1, <1>5, <2>4 DEF Inv, LetterIsHeld
<1> QED BY <1>3, <1>6, <1>7, <1>8, <1>9 DEF Inv

LEMMA HandshakeFailsKeepsInv ==
  ASSUME Inv, HandshakeFails
  PROVE  Inv'
<1>1. /\ UNCHANGED <<keyFile, cached, runtimes, owner, key, client, toHost, toService, version, auth, letter, used, lost>>
      /\ step = "wait" /\ logon' = None /\ step' = "idle"
      /\ actors' = [actors EXCEPT ![owner[logon]] = Actor("Failed", None)]
      /\ \/ host' = [host EXCEPT ![logon] = "exited"] /\ volumes' = Unmounted(logon)
         \/ UNCHANGED <<host, volumes>>
  BY DEF HandshakeFails, files, pipes
<1>2. logon \in Generation /\ owner[logon] \in User /\ host[logon] # "none"
  BY <1>1 DEF Inv, Typed, LogonIsUnderWay
<1>3. Typed' BY <1>1, <1>2 DEF Inv, Typed, Unmounted
<1>4. /\ host'[logon] \in {host[logon], "exited"} /\ \A e \in Generation : e # logon => host'[e] = host[e]
      /\ host'[logon] # "exited" => volumes' = volumes
      /\ \A l \in Letter : volumes'[l] = volumes[l] \/ (volumes[l] = logon /\ host'[logon] = "exited")
  BY <1>1, <1>2, Zenon DEF Inv, Typed, Unmounted
<1>5. LogonIsUnderWay' BY <1>1, <1>2, <1>4 DEF Inv, LogonIsUnderWay
<1>6. KeyIsInFile' BY <1>1, Zenon DEF Inv, KeyIsInFile
<1>7. ASSUME NEW e \in Generation PROVE Turns(e)'
  <2>1. CASE e = logon /\ host'[logon] = "exited"
    <3>1. Turns(e) BY DEF Inv
    <3> QED BY <1>1, <1>2, <2>1, <3>1 DEF Turns, ClientOpen, Alive, HostStep
  <2>2. CASE host'[e] = host[e] BY <1>1, <2>2, SameKeepsTurns, Zenon DEF Inv, Same
  <2> QED BY <1>4, <2>1, <2>2, Zenon
<1>8. LetterIsHeld'
  <2>1. ASSUME NEW e \in Generation
        PROVE  /\ host'[e] \in {"chosen", "mounted", "serving"} => letter[e] \in Letter
               /\ host'[e] \in {"mounted", "serving"} => volumes'[letter[e]] = e
    BY <1>2, <1>4, Zenon DEF Inv, LetterIsHeld
  <2>2. \A e \in Generation : host[e] \in {"serving", "exited"} => host'[e] \in {"serving", "exited"} BY <1>4
  <2>3. ASSUME NEW u \in User, actors'[u] # None, actors'[u].state = "Mounted"
        PROVE  actors'[u] = actors[u]
    BY <1>1, <1>2, <2>3 DEF Inv, Typed, Actor
  <2>4. runtimes \subseteq Generation BY DEF Inv, Typed
  <2> QED BY <1>1, <2>1, <2>2, <2>3, <2>4, Zenon DEF Inv, LetterIsHeld
<1> QED BY <1>3, <1>5, <1>6, <1>7, <1>8 DEF Inv

LEMMA MonitorKeepsInv == Inv /\ Monitor => Inv'
  BY BeginLogonKeepsInv, WriteKeyKeepsInv, LogonFailsKeepsInv, LaunchKeepsInv, HandshakeSucceedsKeepsInv,
     HandshakeFailsKeepsInv DEF Monitor

-----------------------------------------------------------------------------
(* What interferes.                                                        *)

LEMMA OtherOpensKeepsInv ==
  ASSUME Inv, NEW g \in Generation, OtherOpens(g)
  PROVE  Inv'
<1>1. /\ UNCHANGED <<keyFile, cached, logon, step, actors, runtimes, owner, key, version, auth, toHost, host, letter,
                     volumes, used, lost>>
      /\ ServerOpen(g) /\ client[g] = None /\ client' = [client EXCEPT ![g] = "other"]
      /\ toService' \in {toService, [toService EXCEPT ![g] = <<ServiceVersion>>]}
  BY DEF OtherOpens, files, monitor
<1>2. Typed' BY <1>1 DEF Inv, Typed
<1>3. /\ client'[g] = "other"
      /\ \A e \in Generation : e # g => client'[e] = client[e] /\ toService'[e] = toService[e]
  BY <1>1 DEF Inv, Typed
<1>4. owner[g] # None
  <2>1. g # None BY HostPipeAssumption DEF Generation
  <2> QED BY <1>1, <2>1 DEF ServerOpen, AuthStep, Inv, LogonIsUnderWay
<1>5. LogonIsUnderWay' BY <1>1, <1>3, <1>4 DEF Inv, LogonIsUnderWay
<1>6. KeyIsInFile' BY <1>1, Zenon DEF Inv, KeyIsInFile
<1>7. ASSUME NEW e \in Generation PROVE Turns(e)'
  <2>1. CASE e = g
    <3>1. Turns(e) BY DEF Inv
    <3>2. client[e] # "host" /\ client'[e] # "host" /\ client'[e] # None BY <1>1, <1>3, <2>1, HostPipeAssumption, Zenon
    <3> QED BY <1>1, <2>1, <3>1, <3>2 DEF Turns, ClientOpen, Alive, HostStep
  <2>2. CASE e # g BY <1>1, <1>3, <2>2, SameKeepsTurns, Zenon DEF Inv, Same
  <2> QED BY <2>1, <2>2, Zenon
<1>8. LetterIsHeld' BY <1>1 DEF Inv, LetterIsHeld
<1> QED BY <1>2, <1>5, <1>6, <1>7, <1>8 DEF Inv

LEMMA OtherVolumeKeepsInv ==
  ASSUME Inv, NEW l \in Letter, OtherVolume(l)
  PROVE  Inv'
<1>1. /\ UNCHANGED <<keyFile, cached, logon, step, actors, runtimes, owner, key, client, toHost, toService, version,
                     auth, host, letter, used, lost>>
      /\ volumes[l] \in {None, Other} /\ volumes' \in {[volumes EXCEPT ![l] = v] : v \in {None, Other}}
  BY Zenon DEF OtherVolume, files, monitor, pipes
<1>2. Typed' BY <1>1, Zenon DEF Inv, Typed
<1>3. LogonIsUnderWay' BY <1>1, Zenon DEF Inv, LogonIsUnderWay
<1>4. KeyIsInFile' BY <1>1, Zenon DEF Inv, KeyIsInFile
<1>5. ASSUME NEW e \in Generation PROVE Turns(e)' BY <1>1, SameKeepsTurns, Zenon DEF Inv, Same
<1>6. LetterIsHeld'
  <2>1. \A e \in Generation : e # None /\ e # Other BY HostPipeAssumption DEF Generation, Other
  <2>2. \A e \in Generation, m \in Letter : volumes[m] = e => volumes'[m] = e BY <1>1, <2>1 DEF Inv, Typed
  <2> QED BY <1>1, <2>2 DEF Inv, LetterIsHeld
<1> QED BY <1>2, <1>3, <1>4, <1>5, <1>6 DEF Inv

\* The end of the service, with the hosts left running or gone with the power.
LEMMA DownKeepsInv ==
  ASSUME Inv, ServiceEnds \/ PowerLoss
  PROVE  Inv'
<1>1. /\ UNCHANGED <<toHost, version, letter, used>> /\ logon' = None /\ step' = "idle"
      /\ actors' = [u \in User |-> None] /\ runtimes' = {}
      /\ auth' = [g \in Generation |-> IF auth[g] = "none" THEN "none" ELSE "ended"]
      /\ \/ step \in {"key", "launch"} /\ GivesBack(logon)
         \/ UNCHANGED <<owner, key, client, toService>>
  BY Zenon DEF ServiceEnds, PowerLoss, Down, GivesBack
<1>2. step \in {"key", "launch"} => logon \in Generation /\ host[logon] = "none" /\ auth[logon] = "none"
  BY DEF Inv, Typed, LogonIsUnderWay
<1>3. ASSUME NEW e \in Generation
      PROVE  \/ owner'[e] = owner[e] /\ key'[e] = key[e] /\ client'[e] = client[e] /\ toService'[e] = toService[e]
             \/ /\ owner'[e] = None /\ key'[e] = None /\ client'[e] = None /\ toService'[e] = << >>
                /\ host[e] = "none" /\ auth[e] = "none"
  BY <1>1, <1>2 DEF Inv, Typed, GivesBack
<1>4. /\ keyFile' \in [User -> Generation \cup {None, Torn}] /\ cached' \subseteq User /\ lost' \subseteq User
      /\ lost \subseteq lost' /\ \A u \in User \ lost' : keyFile'[u] = keyFile[u]
  <2>1. CASE ServiceEnds BY <2>1 DEF ServiceEnds, files, Inv, Typed
  <2>2. CASE PowerLoss
    <3>1. PICK left \in [cached -> {None, Torn}], gone \in SUBSET cached :
            keyFile' = [u \in User |-> IF u \in gone THEN left[u] ELSE keyFile[u]] /\ lost' = lost \cup gone
      BY <2>2 DEF PowerLoss
    <3>2. cached' = {} BY <2>2 DEF PowerLoss
    <3> QED BY <3>1, <3>2 DEF Inv, Typed
  <2> QED BY <2>1, <2>2
<1>5. /\ host' \in [Generation -> HostStep \cup {"none", "exited"}]
      /\ volumes' \in [Letter -> Generation \cup {Other, None}]
      /\ \/ host' = host /\ volumes' = volumes
         \/ \A e \in Generation : host'[e] = IF host[e] = "none" THEN "none" ELSE "exited"
  <2>1. CASE ServiceEnds BY <2>1 DEF ServiceEnds, Inv, Typed
  <2>2. CASE PowerLoss BY <2>2 DEF PowerLoss, Inv, Typed
  <2> QED BY <2>1, <2>2
<1>6. Typed'
  <2>1. /\ owner' \in [Generation -> User \cup {None}] /\ key' \in [Generation -> Generation \cup {None}]
        /\ client' \in [Generation -> {None, "host", "other"}] /\ DOMAIN toService' = Generation
    BY <1>1, <1>2, Zenon DEF Inv, Typed, GivesBack
  <2> QED BY <1>1, <1>4, <1>5, <2>1 DEF Inv, Typed
<1>7. LogonIsUnderWay'
  <2>1. ASSUME NEW e \in Generation
        PROVE  /\ owner'[e] = None => key'[e] = None /\ client'[e] = None
               /\ host'[e] # "none" => owner'[e] # None /\ key'[e] # None
               /\ host'[e] = "none" => auth'[e] = "none"
    <3>1. /\ owner[e] = None => key[e] = None /\ client[e] = None
          /\ host[e] # "none" => owner[e] # None /\ key[e] # None
          /\ host[e] = "none" => auth[e] = "none"
      BY DEF Inv, LogonIsUnderWay
    <3>2. (host'[e] = "none" <=> host[e] = "none") /\ (auth[e] = "none" => auth'[e] = "none") BY <1>1, <1>5
    <3> QED BY <1>3, <3>1, <3>2, Zenon
  <2> QED BY <1>1, <2>1, Zenon DEF LogonIsUnderWay
<1>8. KeyIsInFile'
  <2> SUFFICES ASSUME NEW u \in User \ lost'
               PROVE  /\ \A k \in used[u] : k = keyFile'[u]
                      /\ \A e \in Generation : owner'[e] = u /\ key'[e] # None => key'[e] = keyFile'[u]
    BY <1>1 DEF KeyIsInFile
  <2>1. u \notin lost /\ keyFile'[u] = keyFile[u] BY <1>4
  <2> QED BY <1>3, <2>1, Zenon DEF Inv, KeyIsInFile
<1>9. ASSUME NEW e \in Generation PROVE Turns(e)'
  <2>1. Turns(e) BY DEF Inv
  <2>2. auth'[e] = IF auth[e] = "none" THEN "none" ELSE "ended" BY <1>1
  <2>3. host'[e] = host[e] \/ (host[e] # "none" /\ host'[e] = "exited") BY <1>5
  <2>4. host[e] = "none" => auth[e] = "none" BY DEF Inv, LogonIsUnderWay
  <2>5. toHost'[e] = toHost[e] /\ version'[e] = version[e] /\ letter'[e] = letter[e] BY <1>1, Zenon
  <2>6. CASE client'[e] = client[e] /\ toService'[e] = toService[e]
    BY <2>1, <2>2, <2>3, <2>4, <2>5, <2>6, Zenon DEF Turns, ClientOpen, Alive, HostStep
  <2>7. CASE client'[e] = None /\ toService'[e] = << >> /\ host[e] = "none"
    BY <2>1, <2>2, <2>3, <2>4, <2>5, <2>7, HostPipeAssumption, Zenon DEF Turns, ClientOpen, Alive, HostStep
  <2> QED BY <1>3, <2>6, <2>7
<1>10. LetterIsHeld'
  <2>1. \A e \in Generation :
          /\ host'[e] \in {"chosen", "mounted", "serving"} => letter[e] \in Letter
          /\ host'[e] \in {"mounted", "serving"} => volumes'[letter[e]] = e
    BY <1>5 DEF Inv, LetterIsHeld
  <2> QED BY <1>1, <2>1, Zenon DEF LetterIsHeld
<1> QED BY <1>6, <1>7, <1>8, <1>9, <1>10 DEF Inv

LEMMA StepKeepsInv == Inv /\ [Next]_vars => Inv'
<1> SUFFICES ASSUME Inv, [Next]_vars PROVE Inv' OBVIOUS
<1>1. CASE UNCHANGED vars \/ ServiceStarts \/ \E u \in User : ReachesDisk(u)
  <2>1. /\ UNCHANGED <<keyFile, logon, step, actors, runtimes, owner, key, client, toHost, toService, version, auth,
                       host, letter, volumes, used, lost>>
        /\ cached' \subseteq cached
    BY <1>1 DEF vars, ServiceStarts, ReachesDisk, files, monitor, pipes
  <2>2. Typed' BY <2>1 DEF Inv, Typed
  <2>3. LogonIsUnderWay' BY <2>1, Zenon DEF Inv, LogonIsUnderWay
  <2>4. KeyIsInFile' BY <2>1, Zenon DEF Inv, KeyIsInFile
  <2>5. ASSUME NEW e \in Generation PROVE Turns(e)' BY <2>1, SameKeepsTurns, Zenon DEF Inv, Same
  <2>6. LetterIsHeld' BY <2>1, Zenon DEF Inv, LetterIsHeld
  <2> QED BY <2>2, <2>3, <2>4, <2>5, <2>6 DEF Inv
<1> QED BY <1>1, MonitorKeepsInv, AuthKeepsInv, HostKeepsInv, OtherOpensKeepsInv, OtherVolumeKeepsInv,
           DownKeepsInv DEF Next

-----------------------------------------------------------------------------
(* Theorems.                                                               *)

\* The logon, the key file, the pipe and the letter stay in step with each
\* other, whatever ends, fails or interferes.
THEOREM Invariance == Spec => []Inv
  BY InitInv, StepKeepsInv, PTL DEF Spec

\* load_store_key: whatever is cut off, a store is opened with one key only,
\* unless power is lost while its key file is not on the disk.
THEOREM StoreKeepsItsKey == Spec => []OneKeyPerStore
<1>1. Inv => OneKeyPerStore BY Zenon DEF Inv, KeyIsInFile, OneKeyPerStore
<1> QED BY <1>1, Invariance, PTL

\* accept_and_authenticate: the bootstrap with the store key is written only
\* for the launched host, and only if it has the version of the service.
THEOREM KeyReachesHostOnly == Spec => []KeyGoesToHost
<1>1. Inv => KeyGoesToHost BY Zenon DEF Inv, Turns, KeyGoesToHost
<1> QED BY <1>1, Invariance, PTL

\* session_logon: the letter of a mounted actor is the one its host's volume
\* is on, as long as that host runs.
THEOREM LetterIsReal == Spec => []ReportedLetterIsReal
<1>1. Inv => ReportedLetterIsReal
  <2> SUFFICES ASSUME Inv, NEW u \in User, actors[u] # None, actors[u].state = "Mounted",
                      Alive(actors[u].generation)
               PROVE  volumes[actors[u].letter] = actors[u].generation
    BY DEF ReportedLetterIsReal
  <2>1. /\ actors[u].generation \in Generation /\ host[actors[u].generation] = "serving"
        /\ actors[u].letter = letter[actors[u].generation]
    BY DEF Inv, LetterIsHeld, Alive, HostStep
  <2> QED BY <2>1 DEF Inv, LetterIsHeld
<1> QED BY <1>1, Invariance, PTL

-----------------------------------------------------------------------------
(* The steps of the hosts and of the handshake in SessionMonitor.           *)

\* A generation that SessionMonitor sees no change of.
SameInMonitor(e) ==
    /\ MonitorHost(e)' = MonitorHost(e)
    /\ MonitorAuth(e)' = MonitorAuth(e)
    /\ MonitorOwner(e)' = MonitorOwner(e)

\* The service and the session thread are where they were.
MonitorRests ==
    UNCHANGED <<service, actors, runtimes, logged>> /\ MonitorLogon' = MonitorLogon

\* A step that SessionMonitor sees nothing of.
Unseen == MonitorRests /\ \A e \in Generation : SameInMonitor(e)

\* A step of the host of g or of its thread, as SessionMonitor sees it.
HostIsSeen(g, from, to) == MonitorHost(g) = from /\ MonitorHost(g)' = to
AuthIsSeen(g, from, to) == MonitorAuth(g) = from /\ MonitorAuth(g)' = to

SeenChange(g) ==
    \/ MonitorHost(g)' = MonitorHost(g) /\ MonitorAuth(g)' = MonitorAuth(g)
    \/ HostIsSeen(g, "launched", "connected") /\ AuthIsSeen(g, "connecting", "talking")
    \/ HostIsSeen(g, "connected", "bootstrapped") /\ AuthIsSeen(g, "talking", "talking")
    \/ HostIsSeen(g, "bootstrapped", "mounted") /\ MonitorAuth(g)' = MonitorAuth(g)
    \/ HostIsSeen(g, "mounted", "serving") /\ AuthIsSeen(g, "talking", "ok")
    \/ /\ MonitorHost(g) \notin {"none", "exited"} /\ MonitorHost(g)' = "exited"
       /\ MonitorAuth(g)' = MonitorAuth(g)
    \/ /\ MonitorHost(g)' = MonitorHost(g) /\ MonitorAuth(g)' = "closed"
       /\ \/ MonitorAuth(g) = "connecting"
          \/ MonitorAuth(g) = "talking" /\ MonitorHost(g) \in {"connected", "exited"}
          \/ MonitorAuth(g) = "ok" /\ MonitorLogon # g

SeenStep(g) ==
    /\ MonitorRests
    /\ MonitorOwner(g)' = MonitorOwner(g) /\ \A e \in Generation \ {g} : SameInMonitor(e)
    /\ SeenChange(g)

LEMMA MapsDepend ==
  ASSUME NEW e \in Generation
  PROVE  /\ host'[e] = host[e] /\ toHost'[e] = toHost[e] => MonitorHost(e)' = MonitorHost(e)
         /\ auth'[e] = auth[e] /\ client'[e] = client[e] /\ toService'[e] = toService[e] =>
               MonitorAuth(e)' = MonitorAuth(e)
         /\ host'[e] = host[e] /\ owner'[e] = owner[e] => MonitorOwner(e)' = MonitorOwner(e)
<1>1. ASSUME host'[e] = host[e], toHost'[e] = toHost[e] PROVE MonitorHost(e)' = MonitorHost(e)
  BY <1>1 DEF MonitorHost, BootstrapSent
<1>2. ASSUME auth'[e] = auth[e], client'[e] = client[e], toService'[e] = toService[e]
      PROVE  MonitorAuth(e)' = MonitorAuth(e)
  BY <1>2, Zenon DEF MonitorAuth
<1>3. ASSUME host'[e] = host[e], owner'[e] = owner[e] PROVE MonitorOwner(e)' = MonitorOwner(e)
  BY <1>3 DEF MonitorOwner
<1> QED BY <1>1, <1>2, <1>3, Zenon

\* What is in a pipe after a frame has been written, or read.
LEMMA FrameWritten ==
  ASSUME NEW g \in Generation, toHost[g] \in Seq({"accepted", "bootstrap"}),
         NEW frame, toHost'[g] = Append(toHost[g], frame)
  PROVE  /\ frame = "bootstrap" => BootstrapSent(g)'
         /\ ~BootstrapSent(g) /\ frame # "bootstrap" => ~BootstrapSent(g)'
<1> DEFINE s == toHost[g]
<1>1. /\ Append(s, frame)[Len(s) + 1] = frame /\ \A i \in 1 .. Len(s) : Append(s, frame)[i] = s[i]
      /\ DOMAIN Append(s, frame) = 1 .. Len(s) + 1 /\ DOMAIN s = 1 .. Len(s) /\ Len(s) \in Nat
  OBVIOUS
<1>2. BootstrapSent(g)' <=> \E i \in 1 .. Len(s) + 1 : Append(s, frame)[i] = "bootstrap"
  BY <1>1 DEF BootstrapSent
<1>3. BootstrapSent(g) <=> \E i \in 1 .. Len(s) : s[i] = "bootstrap" BY <1>1 DEF BootstrapSent
<1> QED BY <1>1, <1>2, <1>3

LEMMA FrameRead ==
  ASSUME NEW g \in Generation, toHost[g] \in Seq({"accepted", "bootstrap"}),
         toHost[g] # << >>, toHost'[g] = Tail(toHost[g])
  PROVE  /\ Head(toHost[g]) = "bootstrap" => BootstrapSent(g)
         /\ Head(toHost[g]) # "bootstrap" => (BootstrapSent(g)' <=> BootstrapSent(g))
<1> DEFINE s == toHost[g]
<1>1. /\ \A i \in 1 .. Len(s) - 1 : Tail(s)[i] = s[i + 1]
      /\ DOMAIN Tail(s) = 1 .. Len(s) - 1 /\ DOMAIN s = 1 .. Len(s) /\ Len(s) \in Nat \ {0} /\ Head(s) = s[1]
  OBVIOUS
<1>2. BootstrapSent(g)' <=> \E i \in 1 .. Len(s) - 1 : s[i + 1] = "bootstrap" BY <1>1, Zenon DEF BootstrapSent
<1>3. BootstrapSent(g) <=> \E i \in 1 .. Len(s) : s[i] = "bootstrap" BY <1>1 DEF BootstrapSent
<1>4. ASSUME NEW i \in 1 .. Len(s), s[i] = "bootstrap", i # 1 PROVE BootstrapSent(g)'
  <2>1. i - 1 \in 1 .. Len(s) - 1 /\ s[(i - 1) + 1] = "bootstrap" BY <1>1, <1>4
  <2> QED BY <1>2, <2>1, Zenon
<1>5. ASSUME NEW i \in 1 .. Len(s) - 1, s[i + 1] = "bootstrap" PROVE BootstrapSent(g)
  <2>1. i + 1 \in 1 .. Len(s) BY <1>1
  <2> QED BY <1>3, <1>5, <2>1
<1> QED BY <1>1, <1>2, <1>3, <1>4, <1>5

\* The logon has a user, who has no actor, and whose host, if there is one
\* yet, is the next.
LEMMA LogonFacts ==
  ASSUME Inv, step # "idle"
  PROVE  logon \in Generation /\ logon # None /\ owner[logon] \in User
<1>1. logon # None /\ logon \in Generation BY DEF Inv, Typed, LogonIsUnderWay
<1>2. owner[logon] # None BY <1>1, Zenon DEF Inv, LogonIsUnderWay
<1> QED BY <1>1, <1>2 DEF Inv, Typed

LEMMA AuthIsSeenStep ==
  ASSUME Inv, LaunchIsNext, NEW g \in Generation, AuthThread(g)
  PROVE  SeenStep(g)
<1>1. AuthChanges(g) BY AuthThreadChanges
<1>2. UNCHANGED <<service, logon, step, actors, runtimes, logged, owner, client, host>>
  BY <1>1, Zenon DEF AuthChanges, AuthFrame, monitor
<1>3. MonitorRests BY <1>2 DEF MonitorRests, MonitorLogon
<1>4. \A e \in Generation : MonitorOwner(e)' = MonitorOwner(e) BY <1>2, MapsDepend, Zenon
<1>5. \A e \in Generation \ {g} : auth'[e] = auth[e] /\ toHost'[e] = toHost[e] /\ toService'[e] = toService[e]
  BY <1>1, Zenon DEF AuthChanges, Inv, Typed
<1>6. \A e \in Generation \ {g} : MonitorHost(e)' = MonitorHost(e) /\ MonitorAuth(e)' = MonitorAuth(e)
  BY <1>2, <1>5, MapsDepend, Zenon
<1>7. ASSUME SeenChange(g) PROVE SeenStep(g)
  BY <1>3, <1>4, <1>6, <1>7, Zenon DEF SeenStep, SameInMonitor
<1>8. Turns(g) /\ Typed BY DEF Inv
<1>9. toHost'[g] = toHost[g] => MonitorHost(g)' = MonitorHost(g) BY <1>2, MapsDepend, Zenon
<1>10. CASE Connected(g) \/ Identify(g) \/ ReadAck(g)
  <2>1. toHost'[g] = toHost[g] /\ toService'[g] = toService[g] BY <1>10, Zenon DEF Connected, Identify, ReadAck
  <2>2. \/ auth[g] \in {"connect", "identify"} /\ auth'[g] \in {"identify", "request"}
        \/ auth[g] = "ack" /\ auth'[g] = "done" /\ toService[g] # << >>
    BY <1>8, <1>10 DEF Connected, Identify, ReadAck, AuthGoes, Typed
  <2>3. MonitorAuth(g)' = MonitorAuth(g)
    <3>1. CASE auth[g] = "ack" BY <2>1, <2>2, <3>1, Zenon DEF AuthStep, MonitorAuth
    <3>2. CASE auth[g] # "ack" BY <1>2, <2>2, <3>2, Zenon DEF AuthStep, MonitorAuth
    <3> QED BY <3>1, <3>2
  <2> QED BY <1>7, <1>9, <2>1, <2>3, Zenon DEF SeenChange, HostIsSeen, AuthIsSeen
<1>11. CASE ReadRequest(g)
  <2>1. toHost'[g] = toHost[g] BY <1>11, Zenon DEF ReadRequest
  <2>2. MonitorAuth(g)' = MonitorAuth(g)
    BY <1>2, <1>8, <1>11 DEF ReadRequest, AuthGoes, Typed, AuthStep, MonitorAuth, Turns
  <2> QED BY <1>7, <1>9, <2>1, <2>2, Zenon DEF SeenChange, HostIsSeen, AuthIsSeen
<1>12. CASE SendAcceptance(g)
  <2>1. /\ auth[g] = "respond" /\ auth'[g] = "bootstrap" /\ toService'[g] = toService[g]
        /\ toHost'[g] = Append(toHost[g], "accepted")
    BY <1>8, <1>12 DEF SendAcceptance, Write, AuthGoes, Typed
  <2>2. ~BootstrapSent(g) /\ ~BootstrapSent(g)'
    <3>1. toHost[g] = << >> BY <1>8, <2>1, Zenon DEF Turns
    <3>2. ~BootstrapSent(g) BY <3>1 DEF BootstrapSent
    <3>3. toHost[g] \in Seq({"accepted", "bootstrap"}) BY <1>8 DEF Typed
    <3>4. "accepted" # "bootstrap" BY Zenon
    <3>5. toHost'[g] = Append(toHost[g], "accepted") BY <2>1, Zenon
    <3>6. ~BootstrapSent(g)' BY <3>2, <3>3, <3>4, <3>5, FrameWritten, Zenon
    <3> QED BY <3>2, <3>6, Zenon
  <2>3. MonitorHost(g)' = MonitorHost(g) BY <1>2, <2>2 DEF MonitorHost
  <2>4. MonitorAuth(g)' = MonitorAuth(g) BY <1>2, <2>1 DEF MonitorAuth, AuthStep
  <2> QED BY <1>7, <2>3, <2>4, Zenon DEF SeenChange, HostIsSeen, AuthIsSeen
<1>13. CASE SendBootstrap(g)
  <2>1. /\ auth[g] = "bootstrap" /\ auth'[g] = "ack" /\ toService'[g] = toService[g]
        /\ toHost'[g] = Append(toHost[g], "bootstrap") /\ client[g] = "host" /\ ClientOpen(g)
    BY <1>8, <1>13, Zenon DEF SendBootstrap, Write, AuthGoes, Typed, Turns
  <2>2. BootstrapSent(g)' BY <1>8, <2>1, FrameWritten, Zenon DEF Typed
  <2>3. host[g] \in {"requested", "accepted"} /\ ~BootstrapSent(g)
    BY <2>1, Zenon DEF LaunchIsNext, ClientOpen, Alive, HostStep
  <2>4. MonitorHost(g) = "connected" /\ MonitorHost(g)' = "bootstrapped" BY <1>2, <2>2, <2>3 DEF MonitorHost
  <2>5. toService[g] = << >> BY <1>8, <2>1, <2>3, Zenon DEF Turns
  <2>6. MonitorAuth(g) = "talking" /\ MonitorAuth(g)' = "talking" BY <1>2, <2>1, <2>5 DEF MonitorAuth, AuthStep
  <2> QED BY <1>7, <2>4, <2>6, Zenon DEF SeenChange, HostIsSeen, AuthIsSeen
<1>14. CASE Refuse(g)
  <2>1. auth'[g] = "ended" /\ toHost'[g] = toHost[g] BY <1>8, <1>14, Zenon DEF Refuse, Typed
  <2>2. MonitorAuth(g)' = "closed" BY <2>1, Zenon DEF MonitorAuth, AuthStep
  <2>3. \/ MonitorAuth(g) = "connecting"
        \/ MonitorAuth(g) = "talking" /\ MonitorHost(g) \in {"connected", "exited"}
    <3>1. CASE auth[g] \in {"connect", "identify", "request"} /\ client[g] = "host"
      <4>1. toHost[g] = << >> /\ host[g] \in {"opened", "requested", "exited"} BY <1>8, <3>1 DEF Turns
      <4>2. ~BootstrapSent(g) BY <4>1 DEF BootstrapSent
      <4>3. MonitorHost(g) \in {"connected", "exited"} BY <4>1, <4>2 DEF MonitorHost
      <4> QED BY <3>1, <4>3 DEF MonitorAuth, AuthStep
    <3>2. CASE auth[g] \in {"connect", "identify"} /\ client[g] # "host" BY <3>2 DEF MonitorAuth, AuthStep
    <3>3. CASE auth[g] \in {"respond", "bootstrap", "ack"}
      <4>1. client[g] = "host" /\ host[g] \notin {"none", "started", "opened"} BY <1>8, <3>3, Zenon DEF Turns
      <4>2. ~ClientOpen(g) /\ (auth[g] = "ack" => toService[g] = << >>)
        BY <1>14, <3>3, <4>1 DEF Refuse, EndOfRequests
      <4>3. host[g] = "exited" BY <1>8, <4>1, <4>2 DEF ClientOpen, Alive, HostStep, Typed
      <4> QED BY <3>3, <4>1, <4>2, <4>3, Zenon DEF MonitorAuth, MonitorHost, AuthStep
    <3>4. auth[g] = "request" => client[g] = "host" BY <1>8, Zenon DEF Turns
    <3> QED BY <1>14, <3>1, <3>2, <3>3, <3>4, Zenon DEF Refuse
  <2> QED BY <1>7, <1>9, <2>1, <2>2, <2>3, Zenon DEF SeenChange, HostIsSeen, AuthIsSeen
<1>15. CASE ResultDropped(g)
  <2>1. auth[g] = "done" /\ auth'[g] = "ended" /\ toHost'[g] = toHost[g] /\ logon # g
    BY <1>8, <1>15, Zenon DEF ResultDropped, AuthGoes, Typed
  <2>2. MonitorAuth(g)' = "closed" BY <2>1, Zenon DEF MonitorAuth, AuthStep
  <2>3. toService[g] # << >>
    <3>1. toService[g] = <<letter[g]>> BY <1>8, <2>1, Zenon DEF Turns
    <3> QED BY <3>1
  <2>4. MonitorAuth(g) = "ok" BY <2>1, <2>3, Zenon DEF MonitorAuth, AuthStep
  <2>5. MonitorLogon # g BY <2>1, NoneIsNoGeneration, Zenon DEF MonitorLogon
  <2> QED BY <1>7, <1>9, <2>1, <2>2, <2>4, <2>5, Zenon DEF SeenChange, HostIsSeen, AuthIsSeen
<1> QED BY <1>10, <1>11, <1>12, <1>13, <1>14, <1>15 DEF AuthThread

LEMMA HostIsSeenStep ==
  ASSUME Inv, LaunchIsNext, NEW g \in Generation, HostThread(g) \/ Die(g)
  PROVE  SeenStep(g)
<1>1. HostChanges(g) BY HostThreadChanges
<1>2. UNCHANGED <<service, logon, step, actors, runtimes, logged, owner, version, auth>>
  BY <1>1, Zenon DEF HostChanges, HostFrame, monitor
<1>3. MonitorRests BY <1>2, Zenon DEF MonitorRests, MonitorLogon
<1>4. /\ host[g] # "none" /\ host'[g] # "none"
      /\ \A e \in Generation \ {g} : /\ host'[e] = host[e] /\ client'[e] = client[e] /\ toHost'[e] = toHost[e]
                                     /\ toService'[e] = toService[e]
  BY <1>1 DEF HostChanges, HostStep, Inv, Typed
<1>5. \A e \in Generation \ {g} : SameInMonitor(e) BY <1>2, <1>4, MapsDepend, Zenon DEF SameInMonitor
<1>6. MonitorOwner(g)' = MonitorOwner(g) BY <1>2, <1>4, Zenon DEF MonitorOwner
<1>7. ASSUME SeenChange(g) PROVE SeenStep(g)
  BY <1>3, <1>5, <1>6, <1>7, Zenon DEF SeenStep, SameInMonitor
<1>8. ASSUME client'[g] = client[g], toService'[g] = toService[g] PROVE MonitorAuth(g)' = MonitorAuth(g)
  BY <1>2, <1>8, MapsDepend, Zenon
<1>9. Turns(g) /\ Typed BY DEF Inv
<1>10. toHost[g] \in Seq({"accepted", "bootstrap"}) BY <1>9 DEF Typed
\* A host that has not been answered is one whose thread has the pipe.
<1>11. ASSUME ServerOpen(g), host[g] \in HostStep \ {"serving"} PROVE auth[g] \in AuthStep
  <2>1. g \notin runtimes BY <1>11, Zenon DEF Inv, LetterIsHeld, HostStep
  <2>2. ~(logon = g /\ step \in {"key", "launch"}) BY <1>11 DEF Inv, LogonIsUnderWay, HostStep
  <2>3. auth[g] # "done" BY <1>9, <1>11, Zenon DEF Turns, HostStep
  <2> QED BY <1>11, <2>1, <2>2, <2>3 DEF ServerOpen
<1>12. CASE Open(g)
  <2>1. /\ ServerOpen(g) /\ client[g] = None /\ host[g] = "started" /\ host'[g] = "opened" /\ client'[g] = "host"
        /\ toService'[g] = toService[g]
    BY <1>9, <1>12 DEF Open, HostGoes, Typed
  <2>2. auth[g] \in {"connect", "identify", "request"} BY <1>9, <1>11, <2>1, Zenon DEF Turns, HostStep, AuthStep
  <2>3. MonitorAuth(g) = "connecting" /\ MonitorAuth(g)' = "talking"
    BY <1>2, <2>1, <2>2, HostPipeAssumption, Zenon DEF MonitorAuth
  <2>4. MonitorHost(g) = "launched" /\ MonitorHost(g)' = "connected" BY <2>1 DEF MonitorHost
  <2> QED BY <1>7, <2>3, <2>4, Zenon DEF SeenChange, HostIsSeen, AuthIsSeen
<1>13. CASE SendRequest(g)
  <2>1. /\ ServerOpen(g) /\ host[g] = "opened" /\ host'[g] = "requested" /\ client'[g] = client[g]
        /\ toHost'[g] = toHost[g]
    BY <1>9, <1>13 DEF SendRequest, HostGoes, Typed
  <2>2. auth[g] \in {"connect", "identify", "request"} BY <1>9, <1>11, <2>1, Zenon DEF Turns, HostStep, AuthStep
  <2>3. toHost'[g] = << >> BY <1>9, <2>1, <2>2, Zenon DEF Turns
  <2>4. ~BootstrapSent(g)' BY <2>3 DEF BootstrapSent
  <2>5. MonitorHost(g) = "connected" /\ MonitorHost(g)' = "connected" BY <2>1, <2>4 DEF MonitorHost
  <2>6. MonitorAuth(g)' = MonitorAuth(g) BY <1>2, <2>1, <2>2, Zenon DEF MonitorAuth
  <2> QED BY <1>7, <2>5, <2>6, Zenon DEF SeenChange, HostIsSeen, AuthIsSeen
<1>14. CASE ReadAcceptance(g)
  <2>1. /\ host[g] = "requested" /\ host'[g] = "accepted" /\ client'[g] = client[g] /\ toService'[g] = toService[g]
        /\ toHost[g] # << >> /\ Head(toHost[g]) = "accepted" /\ toHost'[g] = Tail(toHost[g])
    BY <1>9, <1>14 DEF ReadAcceptance, Read, HostGoes, Typed
  <2>2. "accepted" # "bootstrap" BY Zenon
  <2>3. BootstrapSent(g)' <=> BootstrapSent(g) BY <1>10, <2>1, <2>2, FrameRead
  <2>4. MonitorHost(g)' = MonitorHost(g) BY <2>1, <2>3 DEF MonitorHost
  <2> QED BY <1>7, <1>8, <2>1, <2>4, Zenon DEF SeenChange, HostIsSeen, AuthIsSeen
<1>15. CASE ReadBootstrap(g)
  <2>1. /\ host[g] = "accepted" /\ host'[g] = "bootstrapped" /\ client'[g] = client[g]
        /\ toService'[g] = toService[g]
        /\ toHost[g] # << >> /\ Head(toHost[g]) = "bootstrap" /\ toHost'[g] = Tail(toHost[g])
    BY <1>9, <1>15, Zenon DEF ReadBootstrap, Read, HostGoes, Typed
  <2>2. BootstrapSent(g) BY <1>10, <2>1, FrameRead
  <2>3. MonitorHost(g)' = MonitorHost(g) BY <2>1, <2>2 DEF MonitorHost
  <2> QED BY <1>7, <1>8, <2>1, <2>3, Zenon DEF SeenChange, HostIsSeen, AuthIsSeen
<1>16. CASE OpenStore(g) \/ SelectLetter(g)
  <2>1. /\ host[g] \in {"bootstrapped", "stored"} /\ host'[g] \in {"stored", "chosen"} /\ client'[g] = client[g]
        /\ toService'[g] = toService[g]
    BY <1>9, <1>16, Zenon DEF OpenStore, SelectLetter, HostGoes, Typed
  <2>2. MonitorHost(g)' = MonitorHost(g) BY <2>1 DEF MonitorHost
  <2> QED BY <1>7, <1>8, <2>1, <2>2, Zenon DEF SeenChange, HostIsSeen, AuthIsSeen
<1>17. CASE Mount(g)
  <2>1. /\ host[g] = "chosen" /\ host'[g] = "mounted" /\ client'[g] = client[g] /\ toService'[g] = toService[g]
    BY <1>9, <1>17 DEF Mount, HostGoes, Typed
  <2>2. MonitorHost(g) = "bootstrapped" /\ MonitorHost(g)' = "mounted" BY <2>1 DEF MonitorHost
  <2> QED BY <1>7, <1>8, <2>1, <2>2, Zenon DEF SeenChange, HostIsSeen, AuthIsSeen
<1>18. CASE SendAck(g)
  <2>1. /\ ServerOpen(g) /\ host[g] = "mounted" /\ host'[g] = "serving" /\ client'[g] = client[g]
        /\ toService'[g] = Append(toService[g], letter[g])
    BY <1>9, <1>18 DEF SendAck, HostGoes, Inv, Typed
  <2>2. auth[g] = "ack" BY <1>9, <1>11, <2>1, Zenon DEF Turns, HostStep, AuthStep, LaunchIsNext
  <2>3. client[g] = "host" /\ toService[g] = << >> BY <1>9, <2>1, <2>2, Zenon DEF Turns
  <2>4. toService'[g] # << >>
    <3>1. toService'[g] = <<letter[g]>> BY <2>1, <2>3, AppendToEmpty, Zenon
    <3> QED BY <3>1
  <2>5. MonitorAuth(g) = "talking" /\ MonitorAuth(g)' = "ok" BY <1>2, <2>2, <2>3, <2>4, Zenon DEF MonitorAuth
  <2>6. MonitorHost(g) = "mounted" /\ MonitorHost(g)' = "serving" BY <2>1 DEF MonitorHost
  <2> QED BY <1>7, <2>5, <2>6, Zenon DEF SeenChange, HostIsSeen, AuthIsSeen
<1>19. CASE Leave(g) \/ Die(g)
  <2>1. /\ host[g] \in HostStep /\ host'[g] = "exited" /\ client'[g] = client[g] /\ toService'[g] = toService[g]
    BY <1>9, <1>19 DEF Leave, Die, Alive, Exit, HostStep, Typed
  <2>2. MonitorHost(g) \notin {"none", "exited"} /\ MonitorHost(g)' = "exited" BY <2>1 DEF MonitorHost, HostStep
  <2> QED BY <1>7, <1>8, <2>1, <2>2, Zenon DEF SeenChange, HostIsSeen, AuthIsSeen
<1> QED BY <1>12, <1>13, <1>14, <1>15, <1>16, <1>17, <1>18, <1>19 DEF HostThread

\* Until the host is launched, SessionMonitor sees nothing of a logon.
LEMMA QuietLogonIsUnseen ==
  ASSUME Inv, \/ \E u \in User, g \in Generation : BeginLogon(u, g)
              \/ WriteKey \/ LogonFails
  PROVE  Unseen
<1>1. UNCHANGED <<service, actors, runtimes, logged, auth, host, toHost>>
  BY Zenon DEF BeginLogon, WriteKey, LogonFails, LogonEnds, pipes
<1>2. step # "wait" /\ step' # "wait" BY DEF BeginLogon, WriteKey, LogonFails, LogonEnds, Inv, LogonIsUnderWay
<1>3. MonitorRests BY <1>1, <1>2 DEF MonitorRests, MonitorLogon
<1>4. ASSUME NEW e \in Generation, host[e] # "none"
      PROVE  owner'[e] = owner[e] /\ client'[e] = client[e] /\ toService'[e] = toService[e]
  <2>1. CASE WriteKey BY <2>1, Zenon DEF WriteKey, pipes
  <2>2. CASE LogonFails
    <3>1. step \in {"key", "launch"} BY <2>2 DEF LogonFails
    <3>2. logon # e BY <1>4, <3>1, Zenon DEF Inv, LogonIsUnderWay
    <3> QED BY <2>2, <3>2 DEF LogonFails, LogonEnds
  <2>3. ASSUME NEW u \in User, NEW g \in Generation, BeginLogon(u, g)
        PROVE  owner'[e] = owner[e] /\ client'[e] = client[e] /\ toService'[e] = toService[e]
    <3>1. g # e BY <1>4, <2>3 DEF BeginLogon, Inv, LogonIsUnderWay
    <3> QED BY <2>3, <3>1, SMTT(20) DEF BeginLogon, pipes
  <2> QED BY <2>1, <2>2, <2>3, Zenon
<1>5. ASSUME NEW e \in Generation PROVE SameInMonitor(e)
  <2>1. CASE host[e] # "none" BY <1>1, <1>4, <2>1, MapsDepend, Zenon DEF SameInMonitor
  <2>2. CASE host[e] = "none"
    <3>1. auth[e] = "none" BY <2>2, Zenon DEF Inv, LogonIsUnderWay
    <3>2. MonitorAuth(e)' = MonitorAuth(e) BY <1>1, <3>1, Zenon DEF MonitorAuth
    <3>3. MonitorOwner(e)' = MonitorOwner(e) BY <1>1, <2>2 DEF MonitorOwner
    <3> QED BY <1>1, <3>2, <3>3, MapsDepend, Zenon DEF SameInMonitor
  <2> QED BY <2>1, <2>2
<1> QED BY <1>3, <1>5 DEF Unseen

LEMMA OtherOpensIsUnseen ==
  ASSUME Inv, NEW g \in Generation, OtherOpens(g)
  PROVE  Unseen
<1>1. /\ UNCHANGED <<service, logon, step, actors, runtimes, logged, owner, auth, toHost, host>>
      /\ client[g] = None /\ client'[g] = "other"
      /\ \A e \in Generation \ {g} : client'[e] = client[e] /\ toService'[e] = toService[e]
  BY Zenon DEF OtherOpens, monitor, Inv, Typed
<1>2. MonitorRests BY <1>1 DEF MonitorRests, MonitorLogon
<1>3. auth[g] \notin {"ack", "done"} BY <1>1, HostPipeAssumption, Zenon DEF Inv, Turns
<1>4. MonitorAuth(g)' = MonitorAuth(g) BY <1>1, <1>3, HostPipeAssumption, Zenon DEF MonitorAuth
<1>5. \A e \in Generation : SameInMonitor(e) BY <1>1, <1>4, MapsDepend, Zenon DEF SameInMonitor
<1> QED BY <1>2, <1>5 DEF Unseen

LEMMA ElsewhereIsUnseen ==
  ASSUME \/ \E l \in Letter : OtherVolume(l)
         \/ \E u \in User : ReachesDisk(u)
         \/ UNCHANGED vars
  PROVE  Unseen
<1>1. UNCHANGED <<service, logon, step, actors, runtimes, logged, owner, auth, client, toHost, toService, host>>
  BY DEF OtherVolume, ReachesDisk, vars, monitor, pipes
<1>2. MonitorRests BY <1>1 DEF MonitorRests, MonitorLogon
<1>3. \A e \in Generation : SameInMonitor(e) BY <1>1, MapsDepend, Zenon DEF SameInMonitor
<1> QED BY <1>2, <1>3 DEF Unseen

\* What LaunchIsNext says of one generation.
LaunchedOrLogon(g) ==
    /\ owner[g] # None /\ logon # g => host[g] # "none"
    /\ auth[g] = "bootstrap" => host[g] \in {"requested", "accepted", "exited"} /\ ~BootstrapSent(g)

LEMMA LaunchIsNextHolds == Inv /\ LaunchIsNext /\ [Next]_vars => LaunchIsNext'
<1> SUFFICES ASSUME Inv, LaunchIsNext, [Next]_vars PROVE LaunchIsNext' OBVIOUS
<1>1. \A g \in Generation : LaunchedOrLogon(g) BY DEF LaunchIsNext, LaunchedOrLogon
<1>2. \A g \in Generation : g # None BY NoneIsNoGeneration, Zenon
\* A step that leaves the session thread and the owners alone.
<1>3. ASSUME UNCHANGED <<logon, actors, logged, owner>>, \A g \in Generation : LaunchedOrLogon(g)'
      PROVE  LaunchIsNext'
  BY <1>3 DEF LaunchIsNext, LaunchedOrLogon
\* A generation whose host and thread it leaves alone.
<1>4. ASSUME NEW e \in Generation, UNCHANGED <<logon, owner[e], host[e], auth[e], toHost[e]>>
      PROVE  LaunchedOrLogon(e)'
  BY <1>1, <1>4 DEF LaunchedOrLogon, BootstrapSent
<1>5. ASSUME NEW g \in Generation, AuthThread(g) PROVE LaunchIsNext'
  <2>1. AuthChanges(g) BY <1>5, AuthThreadChanges
  <2>2. UNCHANGED <<logon, actors, logged, owner, host>> BY <2>1, Zenon DEF AuthChanges, AuthFrame, monitor
  <2>3. \A e \in Generation \ {g} : auth'[e] = auth[e] /\ toHost'[e] = toHost[e] BY <2>1 DEF AuthChanges, Inv, Typed
  <2>4. \A e \in Generation \ {g} : LaunchedOrLogon(e)' BY <1>4, <2>2, <2>3, Zenon
  <2>5. ASSUME auth'[g] = "bootstrap"
        PROVE  host[g] \in {"requested", "accepted", "exited"} /\ ~BootstrapSent(g)'
    <3>1. SendAcceptance(g)
      BY <1>5, <2>5 DEF AuthThread, Connected, Identify, ReadRequest, SendBootstrap, Write, ReadAck, Refuse,
           ResultDropped, AuthGoes, Inv, Typed
    <3>2. auth[g] = "respond" /\ toHost'[g] = Append(toHost[g], "accepted")
      BY <3>1, Zenon DEF SendAcceptance, Write, AuthGoes, Inv, Typed
    <3>3. toHost[g] = << >> /\ host[g] \in {"requested", "exited"} BY <3>2 DEF Inv, Turns
    <3>4. ~BootstrapSent(g) BY <3>3 DEF BootstrapSent
    <3>5. "accepted" # "bootstrap" /\ toHost[g] \in Seq({"accepted", "bootstrap"}) BY DEF Inv, Typed
    <3>6. ~BootstrapSent(g)' BY <3>2, <3>4, <3>5, FrameWritten, Zenon
    <3> QED BY <3>3, <3>6, Zenon
  <2>6. LaunchedOrLogon(g)' BY <1>1, <2>2, <2>5, Zenon DEF LaunchedOrLogon
  <2> QED BY <1>3, <2>2, <2>4, <2>6
<1>6. ASSUME NEW g \in Generation, HostThread(g) \/ Die(g) PROVE LaunchIsNext'
  <2>1. HostChanges(g) BY <1>6, HostThreadChanges, Zenon
  <2>2. UNCHANGED <<logon, actors, logged, owner, auth>> BY <2>1, Zenon DEF HostChanges, HostFrame, monitor
  <2>3. /\ host'[g] # "none"
        /\ \A e \in Generation \ {g} : host'[e] = host[e] /\ toHost'[e] = toHost[e]
    BY <2>1 DEF HostChanges, HostStep, Inv, Typed
  <2>4. \A e \in Generation \ {g} : LaunchedOrLogon(e)' BY <1>4, <2>2, <2>3, Zenon
  <2>5. ASSUME auth[g] = "bootstrap"
        PROVE  host'[g] \in {"requested", "accepted", "exited"} /\ ~BootstrapSent(g)'
    <3>1. host[g] \in {"requested", "accepted", "exited"} /\ ~BootstrapSent(g) BY <1>1, <2>5 DEF LaunchedOrLogon
    <3>2. toHost[g] \in Seq({"accepted", "bootstrap"}) BY Zenon DEF Inv, Typed
    <3>3. CASE ReadAcceptance(g)
      <4>1. /\ host'[g] = "accepted" /\ toHost[g] # << >> /\ Head(toHost[g]) = "accepted"
            /\ toHost'[g] = Tail(toHost[g]) /\ "accepted" # "bootstrap"
        BY <3>3, Zenon DEF ReadAcceptance, Read, HostGoes, Inv, Typed
      <4> QED BY <3>1, <3>2, <4>1, FrameRead
    <3>4. CASE ReadBootstrap(g)
      <4>1. toHost[g] # << >> /\ Head(toHost[g]) = "bootstrap" /\ toHost'[g] = Tail(toHost[g])
        BY <3>4 DEF ReadBootstrap, Read, Inv, Typed
      <4> QED BY <3>1, <3>2, <4>1, FrameRead
    <3>5. CASE Leave(g) \/ Die(g)
      <4>1. host'[g] = "exited" /\ toHost'[g] = toHost[g] BY <3>5 DEF Leave, Die, Exit, Inv, Typed
      <4> QED BY <3>1, <4>1 DEF BootstrapSent
    <3>6. ~(Open(g) \/ SendRequest(g) \/ OpenStore(g) \/ SelectLetter(g) \/ Mount(g) \/ SendAck(g))
      BY <3>1, Zenon DEF Open, SendRequest, OpenStore, SelectLetter, Mount, SendAck, HostGoes
    <3> QED BY <1>6, <3>3, <3>4, <3>5, <3>6, Zenon DEF HostThread
  <2>6. LaunchedOrLogon(g)' BY <2>2, <2>3, <2>5, Zenon DEF LaunchedOrLogon
  <2> QED BY <1>3, <2>2, <2>4, <2>6
<1>7. CASE \/ \E g \in Generation : OtherOpens(g)
           \/ \E l \in Letter : OtherVolume(l)
           \/ \E u \in User : ReachesDisk(u)
           \/ ServiceStarts \/ UNCHANGED vars
  <2>1. UNCHANGED <<logon, actors, logged, owner, host, auth, toHost>>
    BY <1>7 DEF OtherOpens, OtherVolume, ReachesDisk, ServiceStarts, vars, monitor, pipes
  <2>2. \A e \in Generation : LaunchedOrLogon(e)' BY <1>4, <2>1
  <2> QED BY <1>3, <2>1, <2>2, Zenon
\* The logon ends, and the generation has its host or is given back.
<1>8. ASSUME logon' = None, logged' \subseteq Generation, toHost' = toHost,
             \A e \in Generation : /\ auth'[e] = auth[e] \/ auth'[e] # "bootstrap"
                                   /\ host'[e] = host[e] \/ (host'[e] = "exited" /\ host[e] # "none")
                                   /\ owner'[e] = owner[e] \/ owner'[e] = None
                                   /\ logon = e => owner'[e] = None \/ host[e] # "none"
      PROVE  LaunchIsNext'
  <2>1. ASSUME NEW e \in Generation PROVE LaunchedOrLogon(e)'
    <3>1. owner'[e] # None => host'[e] # "none" BY <1>1, <1>8, Zenon DEF LaunchedOrLogon
    <3>2. auth'[e] = "bootstrap" => host'[e] \in {"requested", "accepted", "exited"} /\ ~BootstrapSent(e)'
      BY <1>1, <1>8 DEF LaunchedOrLogon, BootstrapSent
    <3> QED BY <3>1, <3>2 DEF LaunchedOrLogon
  <2> QED BY <1>8, <2>1 DEF LaunchIsNext, LaunchedOrLogon
<1>9. CASE ServiceEnds \/ PowerLoss
  <2>1. logon' = None /\ logged' = {} /\ toHost' = toHost BY <1>9, Zenon DEF ServiceEnds, PowerLoss, Down
  <2>2. ASSUME NEW e \in Generation
        PROVE  /\ auth'[e] # "bootstrap"
               /\ host'[e] = host[e] \/ (host'[e] = "exited" /\ host[e] # "none")
               /\ owner'[e] = owner[e] \/ owner'[e] = None
               /\ logon = e => owner'[e] = None \/ host[e] # "none"
    BY <1>2, <1>9 DEF ServiceEnds, PowerLoss, Down, Inv, Typed, LogonIsUnderWay
  <2> QED BY <1>8, <2>1, <2>2, Zenon
<1>10. CASE HandshakeSucceeds \/ HandshakeFails
  <2>1. /\ logon' = None /\ toHost' = toHost /\ logged' \subseteq Generation /\ step = "wait" /\ logon \in Generation
        /\ owner' = owner
    BY <1>10, LogonFacts DEF HandshakeSucceeds, HandshakeFails, pipes, LaunchIsNext
  <2>2. host[logon] # "none" BY <2>1, Zenon DEF Inv, LogonIsUnderWay
  <2>3. ASSUME NEW e \in Generation
        PROVE  /\ auth'[e] = auth[e] \/ auth'[e] # "bootstrap"
               /\ host'[e] = host[e] \/ (host'[e] = "exited" /\ host[e] # "none")
    BY <1>10, <2>1, <2>2, Zenon DEF HandshakeSucceeds, HandshakeFails, Inv, Typed
  <2> QED BY <1>8, <2>1, <2>2, <2>3, Zenon
<1>11. CASE LogonFails
  <2>1. /\ logon' = None /\ UNCHANGED <<toHost, logged, auth, host>> /\ owner' = [owner EXCEPT ![logon] = None]
    BY <1>11 DEF LogonFails, LogonEnds
  <2>2. ASSUME NEW e \in Generation
        PROVE  (owner'[e] = owner[e] \/ owner'[e] = None) /\ (logon = e => owner'[e] = None)
    BY <2>1 DEF Inv, Typed
  <2> QED BY <1>8, <2>1, <2>2 DEF LaunchIsNext
<1>12. CASE WriteKey
  <2>1. UNCHANGED <<logon, actors, logged, owner, host, auth, toHost>> BY <1>12 DEF WriteKey, pipes
  <2>2. \A e \in Generation : LaunchedOrLogon(e)' BY <1>4, <2>1
  <2> QED BY <1>3, <2>1, <2>2
<1>13. CASE Launch
  <2>1. /\ logon \in Generation /\ UNCHANGED <<logon, actors, owner, toHost>> /\ logged' = logged \cup {logon}
        /\ host' = [host EXCEPT ![logon] = "started"] /\ auth' = [auth EXCEPT ![logon] = "connect"]
    BY <1>13, LogonFacts DEF Launch, pipes
  <2>2. ASSUME NEW e \in Generation PROVE LaunchedOrLogon(e)'
    <3>1. CASE e = logon BY <2>1, <3>1 DEF LaunchedOrLogon, Inv, Typed
    <3>2. CASE e # logon
      <4>1. host'[e] = host[e] /\ auth'[e] = auth[e] BY <2>1, <3>2 DEF Inv, Typed
      <4> QED BY <1>4, <2>1, <4>1, Zenon
    <3> QED BY <3>1, <3>2
  <2> QED BY <2>1, <2>2 DEF LaunchIsNext, LaunchedOrLogon
<1>14. ASSUME NEW u \in User, NEW g \in Generation, BeginLogon(u, g) PROVE LaunchIsNext'
  <2>1. /\ logon = None /\ logon' = g /\ owner[g] = None /\ owner' = [owner EXCEPT ![g] = u] /\ actors[u] = None
        /\ UNCHANGED <<actors, logged, host, auth, toHost>>
        /\ \A e \in Generation : e < g => owner[e] # None
    BY <1>14, Zenon DEF BeginLogon, pipes
  <2>2. owner'[g] = u /\ \A e \in Generation \ {g} : owner'[e] = owner[e] BY <2>1, Zenon DEF Inv, Typed
  <2>3. ASSUME NEW e \in Generation PROVE LaunchedOrLogon(e)'
    BY <1>1, <1>2, <2>1, <2>2, Zenon DEF LaunchedOrLogon, BootstrapSent
  <2>4. \A e \in Generation : e < g => owner'[e] # None BY <2>1, <2>2 DEF Generation
  <2> QED BY <2>1, <2>2, <2>3, <2>4 DEF LaunchIsNext, LaunchedOrLogon
<1> QED BY <1>5, <1>6, <1>7, <1>9, <1>10, <1>11, <1>12, <1>13, <1>14 DEF Next, Monitor

-----------------------------------------------------------------------------
SM == INSTANCE SessionMonitor WITH
    Session <- User,
    MaxEvents <- 0,
    users <- [u \in User |-> u],
    events <- 0,
    phase <- IF service = "up" THEN "running" ELSE "down",
    queue <- << >>,
    actors <- [k \in User \X User |-> MonitorActor(k)],
    logon <- MonitorLogon,
    relaunch <- {},
    hosts <- [g \in Generation |-> MonitorHost(g)],
    owner <- [g \in Generation |-> MonitorOwner(g)],
    auth <- [g \in Generation |-> MonitorAuth(g)]

\* The steps of SessionMonitor that are taken here, and two that it has in
\* another form: the start of the service, which it ties to the list of
\* sessions, and the loss of power.
MonitorStep ==
    \/ \E u \in User : SM!LogsOn(u)
    \/ SM!HandshakeSucceeds \/ SM!HandshakeFails
    \/ \E g \in Generation :
          \/ SM!HostConnects(g) \/ SM!AuthAccepts(g) \/ SM!HostMounts(g) \/ SM!HostAcknowledges(g)
          \/ SM!AuthFails(g) \/ SM!PipeTaken(g) \/ SM!ResultDropped(g) \/ SM!HostDies(g)
    \/ SM!Ends
    \/ ServiceStarts \/ PowerLoss

\* SessionMonitor leaves nothing out that matters to it: every step here is
\* one of its steps or changes nothing it knows of.
Monitored == [][MonitorStep]_(SM!vars)

LEMMA Stutters ==
  ASSUME Unseen
  PROVE  UNCHANGED SM!vars
<1>1. \A k \in User \X User : MonitorActor(k)' = MonitorActor(k) BY Zenon DEF Unseen, MonitorRests, MonitorActor
<1>2. UNCHANGED <<[k \in User \X User |-> MonitorActor(k)], [g \in Generation |-> MonitorHost(g)],
                  [g \in Generation |-> MonitorOwner(g)], [g \in Generation |-> MonitorAuth(g)]>>
  BY <1>1 DEF Unseen, SameInMonitor
<1> QED BY <1>2, Zenon DEF SM!vars, Unseen, MonitorRests

\* A step of the host of g, or of its thread.
LEMMA HostStepMaps ==
  ASSUME MonitorRests, NEW g \in Generation, NEW to,
         \A e \in Generation : MonitorOwner(e)' = MonitorOwner(e),
         \A e \in Generation : MonitorHost(e)' = IF e = g THEN to ELSE MonitorHost(e)
  PROVE  SM!HostStep(g, MonitorHost(g), to)
<1>1. \A k \in User \X User : MonitorActor(k)' = MonitorActor(k) BY Zenon DEF MonitorRests, MonitorActor
<1>2. UNCHANGED <<[k \in User \X User |-> MonitorActor(k)], [e \in Generation |-> MonitorOwner(e)]>> BY <1>1, Zenon
<1> QED BY <1>2, Zenon DEF SM!HostStep, SM!service, MonitorRests

\* A thread that ends.
LEMMA ThreadEndMaps ==
  ASSUME MonitorRests, NEW g \in Generation,
         \A e \in Generation : MonitorOwner(e)' = MonitorOwner(e) /\ MonitorHost(e)' = MonitorHost(e),
         \A e \in Generation : MonitorAuth(e)' = IF e = g THEN "closed" ELSE MonitorAuth(e)
  PROVE  /\ MonitorAuth(g) = "talking" /\ MonitorHost(g) \in {"connected", "exited"} => SM!AuthFails(g)
         /\ MonitorAuth(g) = "connecting" => SM!PipeTaken(g)
         /\ MonitorAuth(g) = "ok" /\ MonitorLogon # g => SM!ResultDropped(g)
<1>1. \A k \in User \X User : MonitorActor(k)' = MonitorActor(k) BY Zenon DEF MonitorRests, MonitorActor
<1>2. UNCHANGED <<[k \in User \X User |-> MonitorActor(k)], [e \in Generation |-> MonitorOwner(e)],
                  [e \in Generation |-> MonitorHost(e)]>> BY <1>1
<1>3. [e \in Generation |-> MonitorAuth(e)]' = [[e \in Generation |-> MonitorAuth(e)] EXCEPT ![g] = "closed"]
  BY Zenon
<1> QED BY <1>2, <1>3 DEF SM!AuthFails, SM!PipeTaken, SM!ResultDropped, SM!service, MonitorRests

\* What SessionMonitor sees of the hosts and their threads are its own steps.
LEMMA SeenStepMaps ==
  ASSUME NEW g \in Generation, SeenStep(g)
  PROVE  MonitorStep \/ UNCHANGED SM!vars
<1>1. MonitorRests /\ \A e \in Generation : MonitorOwner(e)' = MonitorOwner(e)
  BY Zenon DEF SeenStep, SameInMonitor
<1>2. \A e \in Generation : e # g => MonitorHost(e)' = MonitorHost(e) /\ MonitorAuth(e)' = MonitorAuth(e)
  BY Zenon DEF SeenStep, SameInMonitor
<1>3. ASSUME NEW to, MonitorHost(g)' = to PROVE SM!HostStep(g, MonitorHost(g), to)
  <2>1. \A e \in Generation : MonitorHost(e)' = IF e = g THEN to ELSE MonitorHost(e) BY <1>2, <1>3, Zenon
  <2> QED BY <1>1, <2>1, HostStepMaps
<1>4. ASSUME MonitorAuth(g)' = MonitorAuth(g) PROVE UNCHANGED [e \in Generation |-> MonitorAuth(e)]
  BY <1>2, <1>4, Zenon
<1>5. ASSUME NEW to, MonitorAuth(g)' = to
      PROVE  [e \in Generation |-> MonitorAuth(e)]' = [[e \in Generation |-> MonitorAuth(e)] EXCEPT ![g] = to]
  BY <1>2, <1>5, Zenon
<1>6. CASE MonitorHost(g)' = MonitorHost(g) /\ MonitorAuth(g)' = MonitorAuth(g)
  <2>1. Unseen BY <1>1, <1>2, <1>6, Zenon DEF Unseen, SameInMonitor
  <2> QED BY <2>1, Stutters
<1>7. CASE HostIsSeen(g, "launched", "connected") /\ AuthIsSeen(g, "connecting", "talking")
  <2>1. SM!HostConnects(g) BY <1>3, <1>5, <1>7, Zenon DEF SM!HostConnects, HostIsSeen, AuthIsSeen
  <2> QED BY <2>1 DEF MonitorStep
<1>8. CASE HostIsSeen(g, "connected", "bootstrapped") /\ AuthIsSeen(g, "talking", "talking")
  <2>1. SM!AuthAccepts(g) BY <1>3, <1>4, <1>8, Zenon DEF SM!AuthAccepts, HostIsSeen, AuthIsSeen
  <2> QED BY <2>1 DEF MonitorStep
<1>9. CASE HostIsSeen(g, "bootstrapped", "mounted") /\ MonitorAuth(g)' = MonitorAuth(g)
  <2>1. SM!HostMounts(g) BY <1>3, <1>4, <1>9, Zenon DEF SM!HostMounts, HostIsSeen
  <2> QED BY <2>1 DEF MonitorStep
<1>10. CASE HostIsSeen(g, "mounted", "serving") /\ AuthIsSeen(g, "talking", "ok")
  <2>1. SM!HostAcknowledges(g) BY <1>3, <1>5, <1>10, Zenon DEF SM!HostAcknowledges, HostIsSeen, AuthIsSeen
  <2> QED BY <2>1 DEF MonitorStep
<1>11. CASE /\ MonitorHost(g) \notin {"none", "exited"} /\ MonitorHost(g)' = "exited"
            /\ MonitorAuth(g)' = MonitorAuth(g)
  <2>1. SM!HostDies(g) BY <1>3, <1>4, <1>11, Zenon DEF SM!HostDies, SM!Alive
  <2> QED BY <2>1 DEF MonitorStep
<1>12. CASE /\ MonitorHost(g)' = MonitorHost(g) /\ MonitorAuth(g)' = "closed"
            /\ \/ MonitorAuth(g) = "connecting"
               \/ MonitorAuth(g) = "talking" /\ MonitorHost(g) \in {"connected", "exited"}
               \/ MonitorAuth(g) = "ok" /\ MonitorLogon # g
  <2>1. \A e \in Generation : MonitorOwner(e)' = MonitorOwner(e) /\ MonitorHost(e)' = MonitorHost(e)
    BY <1>1, <1>2, <1>12, Zenon
  <2>2. \A e \in Generation : MonitorAuth(e)' = IF e = g THEN "closed" ELSE MonitorAuth(e) BY <1>2, <1>12, Zenon
  <2> QED BY <1>1, <1>12, <2>1, <2>2, ThreadEndMaps DEF MonitorStep
<1> QED BY <1>6, <1>7, <1>8, <1>9, <1>10, <1>11, <1>12, Zenon DEF SeenStep, SeenChange

LEMMA LaunchMaps ==
  ASSUME Inv, LaunchIsNext, Launch
  PROVE  SM!LogsOn(owner[logon])
<1> DEFINE u == owner[logon]
<1>1. /\ service = "up" /\ step = "launch" /\ step' = "wait" /\ LogIsFree /\ logged' = logged \cup {logon}
      /\ host' = [host EXCEPT ![logon] = "started"] /\ auth' = [auth EXCEPT ![logon] = "connect"]
      /\ UNCHANGED <<service, logon, actors, runtimes, owner, client, toHost, toService>>
  BY DEF Launch, pipes
<1>2. logon \in Generation /\ logon # None /\ u \in User BY <1>1, LogonFacts, Zenon
<1>3. u # None /\ host[logon] = "none" BY <1>1, <1>2, HostPipeAssumption, Zenon DEF Inv, LogonIsUnderWay
<1>4. /\ host'[logon] = "started" /\ auth'[logon] = "connect"
      /\ \A e \in Generation \ {logon} : host'[e] = host[e] /\ auth'[e] = auth[e]
  BY <1>1, <1>2 DEF Inv, Typed
<1>5. client[logon] # "host" BY <1>2, <1>3, Zenon DEF Inv, Turns
<1>6. /\ MonitorHost(logon) = "none" /\ MonitorHost(logon)' = "launched" /\ MonitorAuth(logon)' = "connecting"
      /\ MonitorOwner(logon)' = <<u, u>>
  BY <1>1, <1>3, <1>4, <1>5 DEF MonitorHost, MonitorAuth, MonitorOwner
<1>7. \A e \in Generation \ {logon} : SameInMonitor(e) BY <1>1, <1>4, MapsDepend, Zenon DEF SameInMonitor
<1>8. \A e \in Generation : e < logon => MonitorHost(e) # "none"
  <2>1. \A e \in Generation : e < logon => host[e] # "none"
    <3> SUFFICES ASSUME NEW e \in Generation, e < logon PROVE host[e] # "none" OBVIOUS
    <3>1. owner[e] # None /\ e # logon BY <1>2 DEF LaunchIsNext, Generation
    <3> QED BY <3>1 DEF LaunchIsNext
  <2>2. \A e \in Generation : MonitorHost(e) = "none" => host[e] = "none" BY DEF MonitorHost
  <2> QED BY <2>1, <2>2
<1>9. \A e \in logged : e \in Generation /\ MonitorHost(e) \in {"none", "exited"}
  BY <1>1 DEF LogIsFree, Alive, HostStep, MonitorHost, Inv, Typed, LaunchIsNext
<1>10. UNCHANGED [k \in User \X User |-> MonitorActor(k)]
  <2>1. \A k \in User \X User : MonitorActor(k)' = MonitorActor(k) BY <1>1, Zenon DEF MonitorActor
  <2> QED BY <2>1
<1>11. MonitorActor(<<u, u>>) = None BY <1>2, Zenon DEF LaunchIsNext, MonitorActor
<1>12. SM!Launch(logon, <<u, u>>)
  <2>1. SM!LogIsFree BY <1>9 DEF SM!LogIsFree, SM!Alive
  <2>2. MonitorLogon' = logon BY <1>1 DEF MonitorLogon
  <2>3. [e \in Generation |-> MonitorHost(e)]' = [[e \in Generation |-> MonitorHost(e)] EXCEPT ![logon] = "launched"]
    BY <1>1, <1>2, <1>6, <1>7, Zenon DEF SameInMonitor
  <2>4. [e \in Generation |-> MonitorAuth(e)]' = [[e \in Generation |-> MonitorAuth(e)] EXCEPT ![logon] = "connecting"]
    BY <1>1, <1>2, <1>6, <1>7, Zenon DEF SameInMonitor
  <2>5. [e \in Generation |-> MonitorOwner(e)]' = [[e \in Generation |-> MonitorOwner(e)] EXCEPT ![logon] = <<u, u>>]
    BY <1>1, <1>2, <1>6, <1>7, Zenon DEF SameInMonitor
  <2> QED BY <1>1, <1>2, <1>6, <1>8, <2>1, <2>2, <2>3, <2>4, <2>5, Zenon DEF SM!Launch, SM!Generation, Generation
<1>13. SM!SessionLogon(u, [k \in User \X User |-> MonitorActor(k)])
  <2>1. [v \in User |-> v][u] = u BY <1>2
  <2>2. [k \in User \X User |-> MonitorActor(k)][<<u, u>>] = None BY <1>2, <1>11
  <2> QED BY <1>2, <1>3, <1>10, <1>12, <2>1, <2>2, Zenon DEF SM!SessionLogon, SM!Generation, Generation
<1> QED BY <1>1, <1>13 DEF SM!LogsOn

LEMMA HandshakeMaps ==
  ASSUME Inv, LaunchIsNext, HandshakeSucceeds \/ HandshakeFails
  PROVE  SM!HandshakeSucceeds \/ SM!HandshakeFails
<1> DEFINE u == owner[logon]
           g == logon
<1>1. /\ service = "up" /\ step = "wait" /\ logon' = None /\ step' = "idle"
      /\ UNCHANGED <<service, logged, owner, client, toHost, toService>>
  BY Zenon DEF HandshakeSucceeds, HandshakeFails, pipes
<1>2. g \in Generation /\ g # None /\ u \in User BY <1>1, LogonFacts, Zenon
<1>3. host[g] # "none" BY <1>1 DEF Inv, LogonIsUnderWay
<1>4. MonitorLogon = g /\ MonitorLogon' = None BY <1>1 DEF MonitorLogon
<1>5. MonitorOwner(g) = <<u, u>> BY <1>3 DEF MonitorOwner
<1>6. host' \in {host, [host EXCEPT ![g] = "exited"]} BY Zenon DEF HandshakeSucceeds, HandshakeFails
<1>7. \A e \in Generation : MonitorOwner(e)' = MonitorOwner(e) BY <1>1, <1>2, <1>3, <1>6 DEF MonitorOwner, Inv, Typed
<1>8. [e \in Generation |-> MonitorOwner(e)]' = [e \in Generation |-> MonitorOwner(e)] BY <1>7
<1>9. \/ [e \in Generation |-> MonitorHost(e)]' = [e \in Generation |-> MonitorHost(e)]
      \/ [e \in Generation |-> MonitorHost(e)]' = [[e \in Generation |-> MonitorHost(e)] EXCEPT ![g] = "exited"]
  <2>1. CASE host' = host
    <3>1. \A e \in Generation : MonitorHost(e)' = MonitorHost(e) BY <1>1, <2>1, MapsDepend, Zenon
    <3> QED BY <3>1
  <2>2. CASE host' = [host EXCEPT ![g] = "exited"]
    <3>1. \A e \in Generation \ {g} : host'[e] = host[e] BY <2>2 DEF Inv, Typed
    <3>2. \A e \in Generation \ {g} : MonitorHost(e)' = MonitorHost(e) BY <1>1, <3>1, MapsDepend, Zenon
    <3>3. \A e \in Generation : e = g => host'[e] = "exited" BY <1>2, <2>2 DEF Inv, Typed
    <3>4. \A e \in Generation : e = g => MonitorHost(e)' = "exited" BY <3>3 DEF MonitorHost
    <3>5. \A e \in Generation : MonitorHost(e)' = IF e = g THEN "exited" ELSE MonitorHost(e) BY <3>2, <3>4
    <3> QED BY <1>2, <3>5, Zenon
  <2> QED BY <1>6, <2>1, <2>2
\* The actor that session_logon makes.
<1>10. ASSUME NEW state \in {"Mounted", "Failed"}, NEW l \in Letter \cup {None},
              actors' = [actors EXCEPT ![u] = Actor(state, l)]
       PROVE  SM!FinishLogon(state)
  <2> DEFINE Made == [generation |-> g, state |-> state, rejectNewOpens |-> FALSE, diagnostic |-> state = "Failed"]
  <2>1. Actor(state, l) # None BY <1>2, ActorAssumption, SMTT(20) DEF Actor, MountActor
  <2>2. actors'[u] = Actor(state, l) /\ \A v \in User \ {u} : actors'[v] = actors[v]
    BY <1>2, <1>10 DEF Inv, Typed
  <2>3. ASSUME NEW v \in User, NEW w \in User
        PROVE  MonitorActor(<<v, w>>)' = IF <<v, w>> = <<u, u>> THEN Made ELSE MonitorActor(<<v, w>>)
    <3>1. CASE v # w BY <3>1, Zenon DEF MonitorActor
    <3>2. CASE v = w /\ v # u BY <2>2, <3>2, Zenon DEF MonitorActor
    <3>3. CASE v = w /\ v = u
      <4>1. actors'[v] # None /\ actors'[v].generation = g /\ actors'[v].state = state
        BY <2>1, <2>2, <3>3, SMTT(20) DEF Actor
      <4> QED BY <3>3, <4>1, Zenon DEF MonitorActor
    <3> QED BY <3>1, <3>2, <3>3, Zenon
  <2>4. \A k \in User \X User : MonitorActor(k)' = IF k = <<u, u>> THEN Made ELSE MonitorActor(k) BY <2>3
  <2>5. [k \in User \X User |-> MonitorActor(k)]' = [[k \in User \X User |-> MonitorActor(k)] EXCEPT ![<<u, u>>] = Made]
    BY <1>2, <2>4, Zenon
  <2>6. [e \in Generation |-> MonitorOwner(e)][g] = <<u, u>> BY <1>2, <1>5
  <2> QED BY <1>1, <1>4, <1>8, <2>5, <2>6, Zenon DEF SM!FinishLogon
<1>11. CASE HandshakeSucceeds
  <2>1. /\ auth[g] = "done" /\ auth' = [auth EXCEPT ![g] = "ended"] /\ host' = host /\ runtimes' = runtimes \cup {g}
        /\ actors' = [actors EXCEPT ![u] = Actor("Mounted", Head(toService[g]))]
    BY <1>11, Zenon DEF HandshakeSucceeds
  <2>2. toService[g] = <<letter[g]>> BY <1>2, <2>1, Zenon DEF Inv, Turns
  <2>3. toService[g] # << >> /\ Head(toService[g]) = letter[g] BY <2>2
  <2>4. letter[g] \in Letter \cup {None} BY <1>2 DEF Inv, Typed
  <2>5. SM!FinishLogon("Mounted") BY <1>10, <2>1, <2>3, <2>4, Zenon
  <2>6. MonitorAuth(g) = "ok" BY <2>1, <2>3 DEF MonitorAuth
  <2>7. [e \in Generation |-> MonitorAuth(e)]' = [[e \in Generation |-> MonitorAuth(e)] EXCEPT ![g] = "closed"]
    <3>1. \A e \in Generation \ {g} : auth'[e] = auth[e] BY <2>1 DEF Inv, Typed
    <3>2. \A e \in Generation \ {g} : MonitorAuth(e)' = MonitorAuth(e) BY <1>1, <3>1, MapsDepend, Zenon
    <3>3. \A e \in Generation : e = g => auth'[e] = "ended" BY <1>2, <2>1 DEF Inv, Typed
    <3>4. \A e \in Generation : e = g => MonitorAuth(e)' = "closed" BY <3>3, Zenon DEF MonitorAuth
    <3>5. \A e \in Generation : MonitorAuth(e)' = IF e = g THEN "closed" ELSE MonitorAuth(e) BY <3>2, <3>4
    <3> QED BY <1>2, <3>5, Zenon
  <2>8. UNCHANGED [e \in Generation |-> MonitorHost(e)]
    <3>1. \A e \in Generation : MonitorHost(e)' = MonitorHost(e) BY <1>1, <2>1, MapsDepend, Zenon
    <3> QED BY <3>1
  <2> QED BY <1>1, <1>2, <1>4, <2>1, <2>5, <2>6, <2>7, <2>8 DEF SM!HandshakeSucceeds
<1>12. CASE HandshakeFails
  <2>1. UNCHANGED <<auth, runtimes>> /\ actors' = [actors EXCEPT ![u] = Actor("Failed", None)]
    BY <1>12, Zenon DEF HandshakeFails
  <2>2. SM!FinishLogon("Failed") BY <1>10, <2>1, Zenon
  <2>3. UNCHANGED [e \in Generation |-> MonitorAuth(e)]
    <3>1. \A e \in Generation : MonitorAuth(e)' = MonitorAuth(e) BY <1>1, <2>1, MapsDepend, Zenon
    <3> QED BY <3>1
  <2> QED BY <1>1, <1>2, <1>4, <1>9, <2>1, <2>2, <2>3 DEF SM!HandshakeFails
<1> QED BY <1>11, <1>12

LEMMA ServiceEndMaps ==
  ASSUME Inv, ServiceEnds
  PROVE  SM!Ends
<1>1. /\ service' = "down" /\ logon' = None /\ step' = "idle" /\ actors' = [u \in User |-> None]
      /\ runtimes' = {} /\ logged' = {} /\ UNCHANGED <<host, toHost>>
      /\ auth' = [g \in Generation |-> IF auth[g] = "none" THEN "none" ELSE "ended"]
  BY DEF ServiceEnds, Down
<1>2. ASSUME NEW e \in Generation, host[e] # "none" PROVE owner'[e] = owner[e]
  <2>1. CASE step \in {"key", "launch"}
    <3>1. logon # e BY <1>2, <2>1, Zenon DEF Inv, LogonIsUnderWay
    <3> QED BY <1>2, <2>1, <3>1 DEF ServiceEnds, Down, Inv, Typed
  <2>2. CASE step \notin {"key", "launch"} BY <2>2 DEF ServiceEnds, Down
  <2> QED BY <2>1, <2>2, Zenon
<1>3. \A e \in Generation : MonitorOwner(e)' = MonitorOwner(e) BY <1>1, <1>2, Zenon DEF MonitorOwner
<1>4. \A e \in Generation : MonitorHost(e)' = MonitorHost(e) BY <1>1, MapsDepend, Zenon
<1>5. \A e \in Generation : MonitorAuth(e)' = IF MonitorAuth(e) = "none" THEN "none" ELSE "closed"
  BY <1>1 DEF MonitorAuth
<1>6. \A k \in User \X User : MonitorActor(k)' = None BY <1>1 DEF MonitorActor
<1>7. MonitorLogon' = None BY <1>1 DEF MonitorLogon
<1>8. /\ UNCHANGED <<[e \in Generation |-> MonitorOwner(e)], [e \in Generation |-> MonitorHost(e)]>>
      /\ [k \in User \X User |-> MonitorActor(k)]' = [k \in User \X User |-> None]
  BY <1>3, <1>4, <1>6
<1>9. [e \in Generation |-> MonitorAuth(e)]' =
          [e \in Generation |-> IF [h \in Generation |-> MonitorAuth(h)][e] = "none" THEN "none" ELSE "closed"]
  BY <1>5
<1> QED BY <1>1, <1>7, <1>8, <1>9 DEF SM!Ends, SM!Down, SM!Key, SM!Generation, Generation

\* One step of HostPipe is one of SessionMonitor's, or none.
LEMMA StepMaps ==
  ASSUME Inv, LaunchIsNext, [Next]_vars
  PROVE  [MonitorStep]_(SM!vars)
<1>1. CASE Monitor
  <2>1. CASE Launch
    <3>1. owner[logon] \in User BY <2>1, LogonFacts DEF Launch
    <3> QED BY <2>1, <3>1, LaunchMaps DEF MonitorStep
  <2>2. CASE HandshakeSucceeds \/ HandshakeFails BY <2>2, HandshakeMaps DEF MonitorStep
  <2>3. CASE ~(Launch \/ HandshakeSucceeds \/ HandshakeFails) BY <1>1, <2>3, QuietLogonIsUnseen, Stutters DEF Monitor
  <2> QED BY <2>1, <2>2, <2>3
<1>2. ASSUME NEW g \in Generation, AuthThread(g) PROVE [MonitorStep]_(SM!vars)
  BY <1>2, AuthIsSeenStep, SeenStepMaps
<1>3. ASSUME NEW g \in Generation, HostThread(g) \/ Die(g) PROVE [MonitorStep]_(SM!vars)
  BY <1>3, HostIsSeenStep, SeenStepMaps
<1>4. ASSUME NEW g \in Generation, OtherOpens(g) PROVE [MonitorStep]_(SM!vars)
  BY <1>4, OtherOpensIsUnseen, Stutters
<1>5. CASE (\E l \in Letter : OtherVolume(l)) \/ (\E u \in User : ReachesDisk(u)) \/ UNCHANGED vars
  BY <1>5, ElsewhereIsUnseen, Stutters
<1>6. CASE ServiceEnds BY <1>6, ServiceEndMaps DEF MonitorStep
<1>7. CASE ServiceStarts \/ PowerLoss BY <1>7 DEF MonitorStep
<1> QED BY <1>1, <1>2, <1>3, <1>4, <1>5, <1>6, <1>7 DEF Next

\* Every step of the handshake, of the hosts and of the service that HostPipe
\* takes is a step of SessionMonitor or one it does not see.
THEOREM PipeIsMonitored == Spec => Monitored
<1>1. Init => LaunchIsNext BY DEF Init, LaunchIsNext
<1>2. Spec => []Inv BY Invariance
<1>3. Inv /\ LaunchIsNext /\ [Next]_vars => LaunchIsNext' BY LaunchIsNextHolds
<1>4. Inv /\ LaunchIsNext /\ [Next]_vars => [MonitorStep]_(SM!vars) BY StepMaps
<1> QED BY <1>1, <1>2, <1>3, <1>4, PTL DEF Spec, Monitored
====
