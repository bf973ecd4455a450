-------------------------- MODULE EnrollmentProofs --------------------------
(***************************************************************************)
(* Tokens buy one credential and the tables agree for any number of        *)
(* tokens, serials and requests: proofs of what MCEnrollment checks on a   *)
(* small instance.  Behind them, what the readers of the credential file   *)
(* and of the other formats return is what was written, for values and     *)
(* damage of any length.                                                   *)
(***************************************************************************)
EXTENDS Enrollment, Formats, TLAPS

\* The part of the invariant that is about the server and its history.
ServerPart ==
    /\ token \in Token \cup {None}
    /\ tokenState \in {"none", "valid", "consumed", "expired"}
    /\ active \in Serial \cup {None}
    /\ routes \in [Serial -> {"none", "active", "revoked"}]
    /\ revoked \subseteq Serial
    /\ issuedFor \in [Serial -> Token \cup {None}]
    /\ recovered \subseteq Serial
    /\ TablesAgree
    /\ TokenIssuesOnce
    /\ tokenState = "valid" => token # None /\ \A s \in Serial : issuedFor[s] # token
    /\ \A s \in Serial : issuedFor[s] # None => token # None /\ issuedFor[s] <= token
    /\ \A s \in Serial : issuedFor[s] = None => routes[s] = "none"

\* The part that is about the network and the agent.
AgentPart ==
    /\ requests \subseteq Request
    /\ answers \subseteq Answer
    /\ given \in Token \cup {None}
    /\ file \in Blob \cup {None}
    /\ waiting \in Attempt \cup {None}
    /\ received \in CertificateSerial \cup {None}
    /\ identity \in CertificateSerial \cup {None}
    /\ attempts \in 0 .. MaxAttempt
    /\ padded \subseteq Serial
    /\ presented \subseteq CertificateSerial
    /\ \A r \in requests : r.prior # None => r.prior \in presented

LEMMA Parts == Inv <=> ServerPart /\ AgentPart /\ RevokedWasNamed
  BY DEF Inv, TypeOK, ServerPart, AgentPart

\* A certificate's serial is the serial issued or its padded form.
LEMMA SerialTyped ==
  ASSUME NEW s \in Serial
  PROVE  s \in CertificateSerial /\ Padded(s) \in CertificateSerial
  BY EnrollmentAssumption DEF Serial, CertificateSerial, Padded

LEMMA NoneIsNothing == None \notin Token /\ None \notin Serial /\ None \notin CertificateSerial
  BY EnrollmentAssumption DEF Token, Serial, CertificateSerial

LEMMA InitInv == Init => Inv
  BY EnrollmentAssumption, NoneIsNothing
  DEF Init, Inv, TypeOK, TablesAgree, TokenIssuesOnce, RevokedWasNamed

\* The rows after a revocation: only the row of s changes.
LEMMA RevokingRows ==
  ASSUME routes \in [Serial -> {"none", "active", "revoked"}], NEW s \in Serial \cup {None}
  PROVE  /\ Revoking(s) \in [Serial -> {"none", "active", "revoked"}]
         /\ \A e \in Serial : Revoking(s)[e] = IF e = s /\ routes[e] = "active" THEN "revoked" ELSE routes[e]
  BY DEF Revoking

\* A provisioning, with or without recovery, keeps the server's part: the
\* new token is greater than every token that has bought a credential.
LEMMA ProvisionKeeps ==
  ASSUME Inv, NEW recovery \in BOOLEAN, Provision(recovery)
  PROVE  Inv'
<1> USE EnrollmentAssumption, NoneIsNothing
<1>1. ServerPart /\ AgentPart /\ RevokedWasNamed BY Parts
<1>2. PICK t \in Token :
        /\ t = IF token = None THEN 1 ELSE token + 1
        /\ token' = t
        /\ tokenState' = "valid"
        /\ \/ /\ recovery /\ active # None
              /\ routes' = Revoking(active)
              /\ revoked' = revoked \cup {active}
              /\ recovered' = recovered \cup {active}
              /\ active' = None
           \/ /\ ~recovery \/ active = None
              /\ UNCHANGED <<active, routes, revoked, recovered>>
        /\ UNCHANGED <<requests, answers, given, agent, issuedFor, padded, presented>>
  BY DEF Provision
<1>3. \A s \in Serial : issuedFor[s] # None => issuedFor[s] < t
  BY <1>1, <1>2 DEF ServerPart, Token
<1>4. AgentPart' BY <1>1, <1>2 DEF AgentPart, agent
<1>5. ServerPart'
  <2>1. CASE recovery /\ active # None
    <3>1. active \in Serial BY <1>1, <2>1 DEF ServerPart
    <3>2. routes' = Revoking(active) /\ revoked' = revoked \cup {active} /\ active' = None
          /\ recovered' = recovered \cup {active}
      BY <1>2, <2>1
    <3>3. routes[active] = "active" BY <1>1, <3>1 DEF ServerPart, TablesAgree
    <3>4. TablesAgree'
      BY <1>1, <3>1, <3>2, <3>3, RevokingRows DEF ServerPart, TablesAgree
    <3>5. routes' \in [Serial -> {"none", "active", "revoked"}]
          /\ \A s \in Serial : issuedFor[s] = None => routes'[s] = "none"
      BY <1>1, <3>1, <3>2, RevokingRows DEF ServerPart
    <3> QED BY <1>1, <1>2, <1>3, <3>1, <3>2, <3>4, <3>5 DEF ServerPart, TokenIssuesOnce, Token
  <2>2. CASE ~(recovery /\ active # None)
    BY <1>1, <1>2, <1>3, <2>2 DEF ServerPart, TablesAgree, TokenIssuesOnce, Token
  <2> QED BY <2>1, <2>2
<1>6. RevokedWasNamed' BY <1>1, <1>2 DEF RevokedWasNamed
<1> QED BY <1>4, <1>5, <1>6, Parts DEF Inv, TypeOK, ServerPart, AgentPart

\* An answer is typed, and what is left of the requests stays as it was.
LEMMA ReplyKeeps ==
  ASSUME AgentPart, NEW r \in requests, NEW s \in CertificateSerial \cup {None}, Reply(r, s)
  PROVE  /\ requests' \subseteq requests
         /\ answers' \subseteq Answer
  BY DEF AgentPart, Reply, Request, Answer

\* The enrollment's transaction keeps the invariant: its token was valid and
\* had bought nothing, and what it revokes the request has named.
LEMMA EnrollKeeps ==
  ASSUME Inv, NEW r \in requests, Enroll(r)
  PROVE  Inv'
<1> USE EnrollmentAssumption, NoneIsNothing
<1>1. ServerPart /\ AgentPart /\ RevokedWasNamed BY Parts
<1>2. PICK s \in Serial :
        /\ r \in requests
        /\ Accepts(r)
        /\ issuedFor[s] = None /\ \A e \in Serial : e < s => issuedFor[e] # None
        /\ active \notin revoked /\ \A e \in Serial : Revoking(active)[e] # "active"
        /\ routes' = [Revoking(active) EXCEPT ![s] = "active"]
        /\ revoked' = revoked \cup ({active} \ {None})
        /\ Consume
        /\ active' = s
        /\ issuedFor' = [issuedFor EXCEPT ![s] = r.token]
        /\ \E certificate \in {s, Padded(s)} :
              /\ padded' = padded \cup ({s} \ {certificate})
              /\ Reply(r, certificate) \/ Reply(r, None)
        /\ UNCHANGED <<token, given, agent, recovered, presented>>
  BY Zenon DEF Enroll
<1>3. tokenState = "valid" /\ r.token = token /\ r.prior = active BY <1>2 DEF Accepts
<1>4. r \in Request BY <1>1 DEF AgentPart
<1>5. token \in Token /\ \A e \in Serial : issuedFor[e] # token
  BY <1>1, <1>3 DEF ServerPart
<1>6. active \in Serial \cup {None} BY <1>1 DEF ServerPart
<1>7. /\ Revoking(active) \in [Serial -> {"none", "active", "revoked"}]
      /\ \A e \in Serial : Revoking(active)[e] = IF e = active /\ routes[e] = "active" THEN "revoked" ELSE routes[e]
  BY <1>1, <1>6, RevokingRows DEF ServerPart
<1>8. routes[s] = "none" BY <1>1, <1>2 DEF ServerPart
<1>9. \A e \in Serial : routes'[e] = IF e = s THEN "active" ELSE Revoking(active)[e]
  BY <1>2, <1>7
<1>10. TablesAgree'
  <2>1. s # active BY <1>1, <1>8 DEF ServerPart, TablesAgree
  <2>2. \A e \in Serial : routes'[e] = "active" <=> e = s BY <1>2, <1>9
  <2>3. \A e \in Serial : e \in revoked' <=> e \in revoked \/ e = active BY <1>2
  <2>4. \A e \in Serial : routes'[e] = "revoked" <=> e \in revoked \/ e = active
    BY <1>1, <1>7, <1>8, <1>9, <2>1 DEF ServerPart, TablesAgree
  <2>5. revoked' \subseteq Serial BY <1>1, <1>2, <1>6 DEF ServerPart
  <2> QED BY <1>2, <2>2, <2>3, <2>4, <2>5 DEF TablesAgree
<1>11. TokenIssuesOnce'
  BY <1>1, <1>2, <1>3, <1>5 DEF ServerPart, TokenIssuesOnce
<1>12. ServerPart'
  <2>1. tokenState' = "consumed" BY <1>2 DEF Consume
  <2>2. routes' \in [Serial -> {"none", "active", "revoked"}] BY <1>2, <1>7
  <2>3. issuedFor' \in [Serial -> Token \cup {None}] BY <1>1, <1>2, <1>3, <1>5 DEF ServerPart
  <2>4. \A e \in Serial : issuedFor'[e] # None => token' # None /\ issuedFor'[e] <= token'
    BY <1>1, <1>2, <1>3, <1>5 DEF ServerPart, Token
  <2>5. \A e \in Serial : issuedFor'[e] = None => routes'[e] = "none"
    BY <1>1, <1>2, <1>3, <1>5, <1>7, <1>9 DEF ServerPart, TablesAgree
  <2>6. revoked' \subseteq Serial BY <1>1, <1>2, <1>6 DEF ServerPart
  <2> QED BY <1>1, <1>2, <1>10, <1>11, <2>1, <2>2, <2>3, <2>4, <2>5, <2>6 DEF ServerPart
<1>13. AgentPart'
  <2>1. PICK certificate \in {s, Padded(s)} :
          /\ padded' = padded \cup ({s} \ {certificate})
          /\ Reply(r, certificate) \/ Reply(r, None)
    BY <1>2
  <2>2. requests' \subseteq requests /\ answers' \subseteq Answer
    BY <1>1, <2>1, ReplyKeeps, SerialTyped
  <2> QED BY <1>1, <1>2, <2>1, <2>2 DEF AgentPart, agent
<1>14. RevokedWasNamed'
  BY <1>1, <1>2, <1>3 DEF RevokedWasNamed, AgentPart
<1> QED BY <1>12, <1>13, <1>14 DEF Inv, TypeOK, ServerPart, AgentPart

\* The other steps of the server and of the administrator.
LEMMA OthersKeep ==
  ASSUME Inv, TokenExpires \/ Configure \/ (\E r \in requests : Deny(r))
  PROVE  Inv'
<1> USE EnrollmentAssumption, NoneIsNothing
<1>1. ServerPart /\ AgentPart /\ RevokedWasNamed BY Parts
<1>2. CASE TokenExpires
  BY <1>2 DEF TokenExpires, Inv, TypeOK, TablesAgree, TokenIssuesOnce, RevokedWasNamed, agent
<1>3. CASE Configure
  BY <1>3 DEF Configure, Inv, TypeOK, TablesAgree, TokenIssuesOnce, RevokedWasNamed, agent, server
<1>4. CASE \E r \in requests : Deny(r)
  <2>1. PICK r \in requests : Deny(r) BY <1>4
  <2>2. requests' \subseteq requests /\ answers' \subseteq Answer
    BY <1>1, <2>1, ReplyKeeps DEF Deny
  <2> QED BY <2>1, <2>2
          DEF Deny, Inv, TypeOK, TablesAgree, TokenIssuesOnce, RevokedWasNamed, agent, server
<1> QED BY <1>2, <1>3, <1>4

\* What a read of device.dpapi yields is a serial or nothing.
LEMMA LoadsTyped == AgentPart => Loads \subseteq CertificateSerial \cup {None}
  BY DEF AgentPart, Loads, Blob, Decodes, AclIsValid

\* The agent's steps keep the invariant: a request is sent with what was
\* loaded, and that is recorded as presented.
LEMMA AgentKeeps ==
  ASSUME Inv, Start \/ (\E a \in answers : Receive(a)) \/ Save \/ Stop \/ Damage
  PROVE  Inv'
<1> USE EnrollmentAssumption, NoneIsNothing
<1>1. ServerPart /\ AgentPart /\ RevokedWasNamed BY Parts
<1>2. UNCHANGED <<server, issuedFor, padded, recovered, given>>
  BY Zenon DEF Start, Receive, Save, Stop, Damage
<1>3. ServerPart' BY <1>1, <1>2 DEF ServerPart, TablesAgree, TokenIssuesOnce, server
<1>4. presented \subseteq presented' BY Zenon DEF Start, Receive, Save, Stop, Damage
<1>5. RevokedWasNamed' BY <1>1, <1>2, <1>4 DEF RevokedWasNamed, server
<1>6. AgentPart'
  <2>1. CASE Start
    <3>1. CASE UNCHANGED <<requests, presented, waiting, attempts>> /\ identity' \in Loads
      BY <1>1, <1>2, <2>1, <3>1, LoadsTyped DEF Start, AgentPart
    <3>2. CASE /\ given # None /\ attempts < MaxAttempt
               /\ \E prior \in Loads :
                     /\ requests' = requests \cup
                            {[attempt |-> attempts + 1, token |-> given, prior |-> prior]}
                     /\ presented' = presented \cup ({prior} \ {None})
               /\ attempts' = attempts + 1 /\ waiting' = attempts + 1 /\ UNCHANGED identity
      <4>1. PICK prior \in Loads :
              /\ requests' = requests \cup {[attempt |-> attempts + 1, token |-> given, prior |-> prior]}
              /\ presented' = presented \cup ({prior} \ {None})
        BY <3>2
      <4>2. prior \in CertificateSerial \cup {None} BY <1>1, LoadsTyped
      <4>3. attempts + 1 \in Attempt /\ given \in Token BY <1>1, <3>2 DEF AgentPart, Attempt
      <4>4. requests' \subseteq Request BY <1>1, <4>1, <4>2, <4>3 DEF AgentPart, Request
      <4>5. \A q \in requests' : q.prior # None => q.prior \in presented'
        BY <1>1, <4>1 DEF AgentPart
      <4> QED BY <1>1, <1>2, <2>1, <3>2, <4>1, <4>2, <4>3, <4>4, <4>5 DEF Start, AgentPart, Attempt
    <3> QED BY <2>1, <3>1, <3>2, Zenon DEF Start
  <2>2. CASE \E a \in answers : Receive(a)
    BY <1>1, <1>2, <2>2 DEF Receive, AgentPart, Answer
  <2>3. CASE Save
    BY <1>1, <1>2, <2>3, Zenon DEF Save, AgentPart, Blob
  <2>4. CASE Stop
    BY <1>1, <1>2, <2>4 DEF Stop, AgentPart
  <2>5. CASE Damage
    BY <1>1, <1>2, <2>5, Zenon DEF Damage, AgentPart, Blob
  <2> QED BY <2>1, <2>2, <2>3, <2>4, <2>5
<1> QED BY <1>3, <1>5, <1>6 DEF Inv, TypeOK, ServerPart, AgentPart

\* Every step keeps the invariant.
LEMMA StepKeepsInv == Inv /\ [Next]_vars => Inv'
<1> SUFFICES ASSUME Inv, [Next]_vars PROVE Inv' OBVIOUS
<1>1. CASE AdminProvisions BY <1>1, ProvisionKeeps DEF AdminProvisions
<1>2. CASE \E r \in requests : Enroll(r) BY <1>2, EnrollKeeps
<1>3. CASE TokenExpires \/ Configure \/ (\E r \in requests : Deny(r)) BY <1>3, OthersKeep
<1>4. CASE Start \/ (\E a \in answers : Receive(a)) \/ Save \/ Stop \/ Damage BY <1>4, AgentKeeps
<1>5. CASE UNCHANGED vars
  BY <1>5 DEF vars, Inv, TypeOK, TablesAgree, TokenIssuesOnce, RevokedWasNamed
<1> QED BY <1>1, <1>2, <1>3, <1>4, <1>5 DEF Next

\* The invariant of the authority row, the tables, the network and the agent
\* holds in every state, for every bound.
THEOREM Invariance == Spec => []Inv
<1>1. Init => Inv BY InitInv
<1>2. Inv /\ [Next]_vars => Inv' BY StepKeepsInv
<1> QED BY <1>1, <1>2, PTL DEF Spec

\* The authority row and the table the routes consult agree: exactly the
\* active serial is accepted.
THEOREM TablesAlwaysAgree == Spec => []TablesAgree
<1>1. Inv => TablesAgree BY DEF Inv
<1> QED BY <1>1, Invariance, PTL

\* "Consumes a token exactly once": no token buys two credentials, whatever
\* is retried, delayed or lost.
THEOREM TokensIssueOnce == Spec => []TokenIssuesOnce
<1>1. Inv => TokenIssuesOnce BY DEF Inv
<1> QED BY <1>1, Invariance, PTL

\* No request revokes a credential that it does not name.
THEOREM RevokedWereNamed == Spec => []RevokedWasNamed
<1>1. Inv => RevokedWasNamed BY DEF Inv
<1> QED BY <1>1, Invariance, PTL

\* A revoked serial is never accepted again.
THEOREM RevocationIsFinal == Spec => RevokedStaysRevoked
<1> DEFINE Step == \A s \in revoked : s \in revoked' /\ routes'[s] # "active"
<1>1. ASSUME Inv, Inv', [Next]_vars PROVE Step
  <2>1. revoked \subseteq revoked'
    BY <1>1, Zenon DEF Next, vars, server, AdminProvisions, Provision, TokenExpires, Enroll, Deny, Configure,
                Start, Receive, Save, Stop, Damage
  <2>2. \A s \in revoked' : routes'[s] = "revoked" BY <1>1 DEF Inv, TablesAgree
  <2> QED BY <2>1, <2>2
<1>2. Inv /\ Inv' /\ [Next]_vars => [Step]_vars BY <1>1
<1> QED BY <1>2, Invariance, PTL DEF Spec, RevokedStaysRevoked

-----------------------------------------------------------------------------
(* Formats: the layouts.                                                   *)

IsKind(field) == field.kind \in {"byte", "bytes", "option"}

LEMMA LayoutFacts ==
  ASSUME NEW name \in FormatName
  PROVE  /\ Len(Layout(name)) \in Nat /\ DOMAIN Layout(name) = 1..Len(Layout(name))
         /\ \A k \in 1..Len(Layout(name)) :
               IsKind(Layout(name)[k]) /\ (Layout(name)[k].kind = "option" => name = "pointers")
<1> USE DEF IsKind, Byte, Bytes, OptionalDigest, Number, Constant, Text, AnyBytes, NonEmpty
<1>1. CASE name = "record" BY <1>1 DEF Layout, RecordFormat
<1>2. CASE name = "manifest" BY <1>2 DEF Layout, ManifestFormat
<1>3. CASE name = "commit" BY <1>3 DEF Layout, CommitFormat
<1>4. CASE name = "envelope" BY <1>4 DEF Layout, EnvelopeFormat
<1>5. CASE name = "bundle" BY <1>5 DEF Layout, BundleFormat
<1>6. CASE name = "pointers" BY <1>6 DEF Layout, PointersFormat
<1>7. CASE name = "credential" BY <1>7 DEF Layout, CredentialFormat
<1>8. CASE name = "frame" BY <1>8 DEF Layout, FrameFormat
<1> QED BY <1>1, <1>2, <1>3, <1>4, <1>5, <1>6, <1>7, <1>8 DEF FormatName

-----------------------------------------------------------------------------
(* One field.                                                              *)

LEMMA EncodedTyped ==
  ASSUME NEW field, IsKind(field), NEW v, IsValue(field, v)
  PROVE  Encoded(field, v) \in Seq(Nat)
BY DEF IsKind, IsValue, Encoded

LEMMA NotEmpty == \A s : Len(s) = 1 \/ Len(s) = 3 => s # << >>
<1>1. Len(<< >>) # 1 /\ Len(<< >>) # 3 OBVIOUS
<1> QED BY <1>1, Zenon

LEMMA Part ==
  ASSUME NEW b \in Seq(Nat), NEW at \in Nat, NEW n \in Nat, at + n <= Len(b)
  PROVE  /\ SubSeq(b, at + 1, at + n) \in Seq(Nat) /\ Len(SubSeq(b, at + 1, at + n)) = n
         /\ \A i \in 1..n : SubSeq(b, at + 1, at + n)[i] = b[at + i]
OBVIOUS

LEMMA Prefixed ==
  ASSUME NEW x \in Nat, NEW s \in Seq(Nat)
  PROVE  /\ <<x>> \o s \in Seq(Nat) /\ Len(<<x>> \o s) = 1 + Len(s) /\ (<<x>> \o s)[1] = x
         /\ \A i \in 1..Len(s) : (<<x>> \o s)[1 + i] = s[i]
OBVIOUS

\* A byte and what follows it.
LEMMA HasPrefixed ==
  ASSUME NEW b \in Seq(Nat), NEW at \in Nat, NEW x \in Nat, NEW s \in Seq(Nat), NEW to \in Nat
  PROVE  Has(b, at, to, <<x>> \o s) <=> to <= Len(b) /\ b[at + 1] = x /\ Has(b, at + 1, to, s)
<1> DEFINE t == <<x>> \o s
<1>1. t \in Seq(Nat) /\ Len(t) = 1 + Len(s) /\ t[1] = x /\ \A i \in 1..Len(s) : t[1 + i] = s[i] BY Prefixed
<1> HIDE DEF t
<1>2. to = at + Len(t) <=> to = (at + 1) + Len(s) BY <1>1
<1>3. (\A i \in 1..Len(t) : b[at + i] = t[i]) <=> b[at + 1] = x /\ \A i \in 1..Len(s) : b[(at + 1) + i] = s[i]
  <2>1. ASSUME \A i \in 1..Len(t) : b[at + i] = t[i] PROVE b[at + 1] = x BY <1>1, <2>1
  <2>2. ASSUME \A i \in 1..Len(t) : b[at + i] = t[i], NEW i \in 1..Len(s) PROVE b[(at + 1) + i] = s[i]
    <3>1. 1 + i \in 1..Len(t) /\ at + (1 + i) = (at + 1) + i BY <1>1
    <3>2. b[at + (1 + i)] = t[1 + i] /\ t[1 + i] = s[i] BY <1>1, <2>2, <3>1, Zenon
    <3> QED BY <3>1, <3>2
  <2>3. ASSUME b[at + 1] = x, \A i \in 1..Len(s) : b[(at + 1) + i] = s[i], NEW i \in 1..Len(t)
        PROVE  b[at + i] = t[i]
    <3>1. CASE i = 1 BY <1>1, <2>3, <3>1
    <3>2. CASE i # 1
      <4>1. i - 1 \in 1..Len(s) /\ (at + 1) + (i - 1) = at + i /\ 1 + (i - 1) = i BY <1>1, <3>2
      <4>2. t[1 + (i - 1)] = s[i - 1] /\ b[(at + 1) + (i - 1)] = s[i - 1] BY <1>1, <2>3, <4>1, Zenon
      <4> QED BY <4>1, <4>2
    <3> QED BY <3>1, <3>2
  <2> QED BY <2>1, <2>2, <2>3
<1>4. Has(b, at, to, t) <=> to <= Len(b) /\ b[at + 1] = x /\ Has(b, at + 1, to, s) BY <1>2, <1>3, Zenon DEF Has
<1> QED BY <1>4 DEF t

LEMMA PutBefore ==
  ASSUME NEW b \in Seq(Nat), NEW at \in Nat, NEW x \in Nat, NEW s \in Seq(Nat), NEW to \in Nat,
         to <= Len(b), b[at + 1] = x, Has(b, at + 1, to, s)
  PROVE  Has(b, at, to, <<x>> \o s)
BY HasPrefixed

LEMMA HasPart ==
  ASSUME NEW b \in Seq(Nat), NEW at \in Nat, NEW n \in Nat, at + n <= Len(b)
  PROVE  Has(b, at, at + n, SubSeq(b, at + 1, at + n))
<1> DEFINE s == SubSeq(b, at + 1, at + n)
<1>1. Len(s) = n /\ \A i \in 1..n : s[i] = b[at + i] BY Part, Zenon
<1> HIDE DEF s
<1>2. Has(b, at, at + n, s) BY <1>1 DEF Has
<1> QED BY <1>2 DEF s

LEMMA HasOne ==
  ASSUME NEW b \in Seq(Nat), NEW at \in Nat, NEW x \in Nat, at + 1 <= Len(b), b[at + 1] = x
  PROVE  Has(b, at, at + 1, <<x>>)
BY DEF Has

LEMMA HasTwo ==
  ASSUME NEW b \in Seq(Nat), NEW at \in Nat, NEW x \in Nat, NEW y \in Nat,
         at + 2 <= Len(b), b[at + 1] = x, b[at + 2] = y
  PROVE  Has(b, at, at + 2, <<x, y>>)
<1>1. Len(<<x, y>>) = 2 /\ <<x, y>>[1] = x /\ <<x, y>>[2] = y OBVIOUS
<1>2. \A i \in 1..2 : i = 1 \/ i = 2 OBVIOUS
<1> QED BY <1>1, <1>2 DEF Has

\* There is a digest, and less than a version behind it.
Short(field, b, at) == field.kind = "option" /\ at + 2 <= Len(b) /\ Len(b) < at + 4 /\ b[at + 1] = 1

\* What a reader takes is the encoding of the value, but for a version that
\* is missing.
Taken(field, b, at, v, size) ==
    /\ v \in Seq(Nat) /\ size \in Nat /\ at + size <= Len(b)
    /\ ~Short(field, b, at) => Has(b, at, at + size, Encoded(field, v))
    /\ Short(field, b, at) =>
          /\ Len(v) = 3 /\ v[2] = 0 /\ v[3] = 0
          /\ Len(b) - (at + size) < 2
          /\ Has(b, at, at + size, <<1, v[1]>>)

LEMMA ReadIsTaken ==
  ASSUME NEW field, IsKind(field), NEW b \in Seq(Nat), NEW at \in 0..Len(b), NEW read \in ReadField(field, b, at)
  PROVE  Taken(field, b, at, read.value, read.size)
<1> DEFINE v == read.value
           z == read.size
<1>0. at \in Nat /\ at + 1 \in Nat OBVIOUS
<1>1. CASE field.kind = "byte"
  <2>1. read \in ReadByte(b, at, field.allowed) BY <1>1 DEF ReadField
  <2>2. at + 1 <= Len(b) /\ v = SubSeq(b, at + 1, at + 1) /\ z = 1 BY <2>1 DEF ReadByte, Take
  <2> HIDE DEF v, z
  <2>3. v \in Seq(Nat) /\ Has(b, at, at + 1, v) BY <1>0, <2>2, Part, HasPart, Zenon
  <2>4. Encoded(field, v) = v BY <1>1 DEF Encoded
  <2>5. 1 \in Nat OBVIOUS
  <2>6. ~Short(field, b, at) BY <1>1 DEF Short
  <2>7. Taken(field, b, at, v, z) BY <2>2, <2>3, <2>4, <2>5, <2>6, Zenon DEF Taken
  <2> QED BY <2>7 DEF v, z
<1>2. CASE field.kind = "bytes"
  <2>1. read \in ReadBytes(b, at, field.lengths, field.content) BY <1>2 DEF ReadField
  <2>2. at < Len(b) /\ b[at + 1] \in Nat BY <2>1 DEF ReadBytes
  <2>3. PICK n \in Nat : n = b[at + 1] BY <2>2
  <2>4. (at + 1) + n <= Len(b) /\ v = SubSeq(b, (at + 1) + 1, (at + 1) + n) /\ z = 1 + n
    <3>1. PICK t \in Take(b, at + 1, n) : read = [value |-> t, size |-> 1 + n] BY <2>1, <2>3, Zenon DEF ReadBytes
    <3> QED BY <3>1 DEF Take
  <2> HIDE DEF v, z
  <2>5. v \in Seq(Nat) /\ Len(v) = n /\ Has(b, at + 1, (at + 1) + n, v)
    BY <1>0, <2>4, Part, HasPart, Zenon
  <2>6. Encoded(field, v) = <<n>> \o v BY <1>2, <2>5 DEF Encoded
  <2>7. (at + 1) + n = at + (1 + n) /\ at + (1 + n) \in Nat OBVIOUS
  <2>8. Has(b, at, at + (1 + n), <<n>> \o v)
    <3>1. Has(b, at + 1, at + (1 + n), v) /\ at + (1 + n) <= Len(b) /\ b[at + 1] = n BY <2>3, <2>4, <2>5, <2>7, Zenon
    <3> QED BY <1>0, <2>5, <2>7, <3>1, PutBefore, Zenon
  <2>9. 1 + n \in Nat OBVIOUS
  <2>10. ~Short(field, b, at) BY <1>2 DEF Short
  <2>11. Taken(field, b, at, v, z) BY <2>4, <2>5, <2>6, <2>7, <2>8, <2>9, <2>10, Zenon DEF Taken
  <2> QED BY <2>11 DEF v, z
<1>3. CASE field.kind = "option"
  <2>1. read \in ReadOption(b, at) BY <1>3 DEF ReadField
  <2>2. at < Len(b) BY <2>1 DEF ReadOption
  <2>3. CASE b[at + 1] = 0
    <3>1. v = << >> /\ z = 1 BY <2>1, <2>2, <2>3 DEF ReadOption
    <3>2. Encoded(field, v) = <<0>> BY <1>3, <3>1 DEF Encoded
    <3>3. Has(b, at, at + 1, <<0>>) BY <2>2, <2>3, HasOne
    <3>4. ~Short(field, b, at) BY <2>3 DEF Short
    <3> QED BY <2>2, <3>1, <3>2, <3>3, <3>4 DEF Taken
  <2>4. CASE b[at + 1] = 1 /\ at + 4 <= Len(b)
    <3>1. v = SubSeq(b, (at + 1) + 1, (at + 1) + 3) /\ z = 4 BY <2>1, <2>2, <2>4 DEF ReadOption
    <3> HIDE DEF v, z
    <3>2. v \in Seq(Nat) /\ Len(v) = 3 /\ Has(b, at + 1, (at + 1) + 3, v)
      <4>1. (at + 1) + 3 <= Len(b) /\ 3 \in Nat BY <2>4
      <4> QED BY <1>0, <3>1, <4>1, Part, HasPart, Zenon
    <3>3. Encoded(field, v) = <<1>> \o v
      <4>1. v # << >> BY <3>2, NotEmpty, Zenon
      <4> QED BY <1>3, <4>1 DEF Encoded
    <3>4. (at + 1) + 3 = at + 4 /\ at + 4 \in Nat OBVIOUS
    <3>5. Has(b, at, at + 4, <<1>> \o v)
      <4>1. 1 \in Nat OBVIOUS
      <4>2. Has(b, at + 1, at + 4, v) BY <3>2, <3>4, Zenon
      <4> QED BY <1>0, <2>4, <3>2, <3>4, <4>1, <4>2, PutBefore, Zenon
    <3>6. 4 \in Nat OBVIOUS
    <3>7. ~Short(field, b, at) BY <2>4 DEF Short
    <3>8. Taken(field, b, at, v, z) BY <2>4, <3>1, <3>2, <3>3, <3>5, <3>6, <3>7, Zenon DEF Taken
    <3> QED BY <3>8 DEF v, z
  <2>5. CASE b[at + 1] = 1 /\ at + 4 > Len(b)
    <3>1. at + 2 <= Len(b) /\ v = <<b[at + 2], 0, 0>> /\ z = 2 BY <2>1, <2>2, <2>5 DEF ReadOption
    <3> HIDE DEF v, z
    <3>2. b[at + 2] \in Nat BY <3>1
    <3>3. v \in Seq(Nat) /\ Len(v) = 3 /\ v[1] = b[at + 2] /\ v[2] = 0 /\ v[3] = 0 BY <3>1, <3>2
    <3>4. Has(b, at, at + 2, <<1, v[1]>>) BY <2>5, <3>1, <3>2, <3>3, HasTwo
    <3>5. Len(b) - (at + 2) < 2 BY <2>5
    <3>6. Short(field, b, at) BY <1>3, <2>5, <3>1 DEF Short
    <3>7. Taken(field, b, at, v, z) BY <3>1, <3>3, <3>4, <3>5, <3>6 DEF Taken
    <3> QED BY <3>7 DEF v, z
  <2> QED BY <2>1, <2>2, <2>3, <2>4, <2>5 DEF ReadOption
<1> QED BY <1>1, <1>2, <1>3 DEF IsKind

-----------------------------------------------------------------------------
(* One field again: a reader of undamaged bytes gets what was written.     *)

LEMMA AgreeAt ==
  ASSUME NEW b \in Seq(Nat), NEW w \in Seq(Nat), Agree(b, w), NEW j \in Nat, 1 <= j, j <= Len(b), j <= Len(w)
  PROVE  b[j] = w[j]
<1>1. j \in DOMAIN b \cap DOMAIN w OBVIOUS
<1> QED BY <1>1, Zenon DEF Agree

LEMMA HasSame ==
  ASSUME NEW b \in Seq(Nat), NEW w \in Seq(Nat), NEW at \in Nat, NEW to \in Nat, NEW s \in Seq(Nat),
         Has(w, at, to, s), to <= Len(b), Agree(b, w)
  PROVE  Has(b, at, to, s)
<1>1. to = at + Len(s) /\ to <= Len(w) BY DEF Has
<1>2. ASSUME NEW i \in 1..Len(s) PROVE b[at + i] = s[i]
  <2>1. at + i \in Nat /\ 1 <= at + i /\ at + i <= Len(b) /\ at + i <= Len(w)
    <3>1. ASSUME NEW m \in Nat, NEW l \in Nat, i \in 1..m, at + m <= l PROVE at + i <= l BY <3>1
    <3>2. at + Len(s) <= Len(b) /\ at + Len(s) <= Len(w) BY <1>1, Zenon
    <3>3. Len(b) \in Nat /\ Len(w) \in Nat /\ Len(s) \in Nat OBVIOUS
    <3>4. at + i <= Len(b) /\ at + i <= Len(w) BY <3>1, <3>2, <3>3, Zenon
    <3>5. at + i \in Nat /\ 1 <= at + i OBVIOUS
    <3> QED BY <3>4, <3>5
  <2>2. b[at + i] = w[at + i] BY <2>1, AgreeAt, Zenon
  <2>3. w[at + i] = s[i] BY Zenon DEF Has
  <2> QED BY <2>2, <2>3, Zenon
<1> QED BY <1>1, <1>2, Zenon DEF Has

LEMMA HasIsPart ==
  ASSUME NEW b \in Seq(Nat), NEW at \in Nat, NEW to \in Nat, NEW s \in Seq(Nat), Has(b, at, to, s)
  PROVE  SubSeq(b, at + 1, to) = s
<1> DEFINE t == SubSeq(b, at + 1, at + Len(s))
<1>1. to = at + Len(s) /\ to <= Len(b) /\ Len(s) \in Nat BY DEF Has
<1>2. t \in Seq(Nat) /\ Len(t) = Len(s) /\ \A i \in 1..Len(s) : t[i] = b[at + i] BY <1>1, Part
<1>3. \A i \in 1..Len(s) : t[i] = s[i] BY <1>2, Zenon DEF Has
<1> HIDE DEF t
<1>4. t = s
  <2>1. t = [i \in 1..Len(t) |-> t[i]] /\ s = [i \in 1..Len(s) |-> s[i]] BY <1>2
  <2> QED BY <1>2, <1>3, <2>1, Zenon
<1> QED BY <1>1, <1>4 DEF t

LEMMA ReadBack ==
  ASSUME NEW field, IsKind(field), NEW v, IsValue(field, v),
         NEW b \in Seq(Nat), NEW w \in Seq(Nat), NEW at \in 0..Len(b), NEW to \in Nat,
         Has(w, at, to, Encoded(field, v)), Agree(b, w)
  PROVE  IF to <= Len(b) THEN ReadField(field, b, at) = {[value |-> v, size |-> to - at]} /\ ~Short(field, b, at)
         ELSE ReadField(field, b, at) = {} \/ Short(field, b, at)
<1>1. at \in Nat /\ at + 1 \in Nat /\ v \in Seq(Nat) BY DEF IsValue
<1>2. CASE field.kind = "byte"
  <2>1. Len(v) = 1 /\ v[1] \in field.allowed BY <1>2 DEF IsValue
  <2>2. Encoded(field, v) = v BY <1>2 DEF Encoded
  <2>3. to = at + 1 /\ Has(w, at, to, v) BY <2>1, <2>2, Zenon DEF Has
  <2>4. CASE to <= Len(b)
    <3>1. Has(b, at, to, v) BY <1>1, <2>3, <2>4, HasSame
    <3>2. Take(b, at, 1) = {v}
      <4>1. SubSeq(b, at + 1, at + 1) = v BY <1>1, <2>3, <3>1, HasIsPart, Zenon
      <4> QED BY <2>3, <2>4, <4>1 DEF Take
    <3>3. v # << >> BY <2>1, NotEmpty, Zenon
    <3>4. ReadField(field, b, at) = {[value |-> v, size |-> 1]} BY <1>2, <2>1, <3>2, <3>3 DEF ReadField, ReadByte
    <3>5. ~Short(field, b, at) BY <1>2 DEF Short
    <3> QED BY <2>3, <2>4, <3>4, <3>5
  <2>5. CASE to > Len(b)
    <3>1. Take(b, at, 1) = {} BY <2>3, <2>5 DEF Take
    <3>2. ReadField(field, b, at) = {} BY <1>2, <3>1 DEF ReadField, ReadByte
    <3> QED BY <2>3, <2>5, <3>2
  <2> QED BY <2>4, <2>5
<1>3. CASE field.kind = "bytes"
  <2> DEFINE n == Len(v)
  <2>1. n \in Nat /\ n \in field.lengths /\ \A i \in DOMAIN v : v[i] \in field.content BY <1>1, <1>3 DEF IsValue
  <2>2. Encoded(field, v) = <<n>> \o v BY <1>3 DEF Encoded
  <2>3. to <= Len(w) /\ w[at + 1] = n /\ Has(w, at + 1, to, v) BY <1>1, <2>1, <2>2, HasPrefixed
  <2>4. to = (at + 1) + n BY <2>3 DEF Has
  <2>5. at < Len(b) => b[at + 1] = n
    <3>1. at < Len(b) => at + 1 <= Len(b) BY <1>1
    <3>2. 1 <= at + 1 /\ at + 1 <= Len(w) BY <1>1, <2>1, <2>3, <2>4
    <3> QED BY <1>1, <2>3, <3>1, <3>2, AgreeAt, Zenon
  <2>6. ~Short(field, b, at) BY <1>3 DEF Short
  <2> HIDE DEF n
  <2>7. CASE to <= Len(b)
    <3>1. Has(b, at + 1, to, v) BY <1>1, <2>3, <2>7, HasSame
    <3>2. Take(b, at + 1, n) = {v}
      <4>1. SubSeq(b, (at + 1) + 1, (at + 1) + n) = v BY <1>1, <2>4, <3>1, HasIsPart, Zenon
      <4> QED BY <2>4, <2>7, <4>1, Zenon DEF Take
    <3>3. at # Len(b) /\ b[at + 1] = n BY <2>1, <2>4, <2>5, <2>7
    <3>4. ReadBytes(b, at, field.lengths, field.content) = {[value |-> v, size |-> 1 + n]}
      BY <2>1, <3>2, <3>3 DEF ReadBytes
    <3>5. to - at = 1 + n BY <2>1, <2>4
    <3> QED BY <1>3, <2>6, <2>7, <3>4, <3>5 DEF ReadField
  <2>8. CASE to > Len(b)
    <3>1. Take(b, at + 1, n) = {} BY <2>1, <2>4, <2>8 DEF Take
    <3>2. at # Len(b) => b[at + 1] = n BY <2>5
    <3>3. ReadBytes(b, at, field.lengths, field.content) = {} BY <3>1, <3>2 DEF ReadBytes
    <3> QED BY <1>3, <2>1, <2>4, <2>8, <3>3 DEF ReadField
  <2> QED BY <2>1, <2>4, <2>7, <2>8
<1>4. CASE field.kind = "option"
  <2>1. ReadField(field, b, at) = ReadOption(b, at) BY <1>4 DEF ReadField
  <2>2. CASE v = << >>
    <3>1. Encoded(field, v) = <<0>> BY <1>4, <2>2 DEF Encoded
    <3>2. to = at + 1 /\ to <= Len(w) /\ w[at + 1] = 0 BY <3>1 DEF Has
    <3>3. CASE to <= Len(b)
      <4>1. 1 <= at + 1 /\ at + 1 <= Len(b) /\ at + 1 <= Len(w) /\ at # Len(b) BY <1>1, <3>2, <3>3
      <4>2. b[at + 1] = 0 BY <1>1, <3>2, <4>1, AgreeAt, Zenon
      <4>3. ReadOption(b, at) = {[value |-> << >>, size |-> 1]} BY <4>1, <4>2 DEF ReadOption
      <4>4. ~Short(field, b, at) BY <4>2 DEF Short
      <4> QED BY <2>1, <2>2, <3>2, <3>3, <4>3, <4>4
    <3>4. CASE to > Len(b)
      <4>1. at = Len(b) BY <3>2, <3>4
      <4>2. ReadOption(b, at) = {} BY <4>1 DEF ReadOption
      <4> QED BY <2>1, <3>2, <3>4, <4>2
    <3> QED BY <3>2, <3>3, <3>4
  <2>3. CASE v # << >>
    <3>1. Encoded(field, v) = <<1>> \o v BY <1>4, <2>3 DEF Encoded
    <3>2. Len(v) = 3
      <4>1. Len(v) = 0 => v = << >> BY <1>1
      <4> QED BY <1>4, <2>3, <4>1 DEF IsValue
    <3>3. to <= Len(w) /\ w[at + 1] = 1 /\ Has(w, at + 1, to, v)
      <4>1. 1 \in Nat OBVIOUS
      <4> QED BY <1>1, <3>1, <4>1, HasPrefixed
    <3>4. to = at + 4 BY <3>2, <3>3 DEF Has
    <3>5. at < Len(b) => b[at + 1] = 1
      <4>1. at < Len(b) => at + 1 <= Len(b) BY <1>1
      <4>2. 1 <= at + 1 /\ at + 1 <= Len(w) BY <1>1, <3>3, <3>4
      <4> QED BY <1>1, <3>3, <4>1, <4>2, AgreeAt, Zenon
    <3>6. CASE to <= Len(b)
      <4>1. Has(b, at + 1, to, v) BY <1>1, <3>3, <3>6, HasSame
      <4>2. SubSeq(b, at + 2, at + 4) = v
        <5>1. SubSeq(b, (at + 1) + 1, to) = v BY <1>1, <4>1, HasIsPart, Zenon
        <5> QED BY <3>4, <5>1
      <4>3. at # Len(b) /\ b[at + 1] = 1 /\ at + 4 <= Len(b) BY <3>4, <3>5, <3>6
      <4>4. ReadOption(b, at) = {[value |-> v, size |-> 4]}
        <5>1. b[at + 1] # 0 BY <4>3
        <5> QED BY <4>2, <4>3, <5>1, Zenon DEF ReadOption
      <4>5. ~Short(field, b, at) BY <4>3 DEF Short
      <4> QED BY <2>1, <3>4, <3>6, <4>4, <4>5
    <3>7. CASE to > Len(b)
      <4>1. CASE at = Len(b)
        <5>1. ReadOption(b, at) = {} BY <4>1 DEF ReadOption
        <5> QED BY <2>1, <3>4, <3>7, <5>1
      <4>2. CASE at # Len(b) /\ at + 2 <= Len(b)
        <5>1. Short(field, b, at) BY <1>4, <3>4, <3>5, <3>7, <4>2 DEF Short
        <5> QED BY <3>4, <3>7, <5>1
      <4>3. CASE at # Len(b) /\ at + 2 > Len(b)
        <5>1. b[at + 1] = 1 /\ ~(at + 4 <= Len(b)) /\ ~(at + 2 <= Len(b)) BY <3>5, <4>3
        <5>2. ReadOption(b, at) = {} BY <5>1 DEF ReadOption
        <5> QED BY <2>1, <3>4, <3>7, <5>2
      <4> QED BY <4>1, <4>2, <4>3
    <3> QED BY <3>4, <3>6, <3>7
  <2> QED BY <2>2, <2>3
<1> QED BY <1>2, <1>3, <1>4 DEF IsKind

-----------------------------------------------------------------------------
(* Writing.                                                                *)

LEMMA Joined ==
  ASSUME NEW b \in Seq(Nat), NEW e \in Seq(Nat)
  PROVE  /\ b \o e \in Seq(Nat) /\ Len(b \o e) = Len(b) + Len(e)
         /\ \A i \in 1..Len(b) : (b \o e)[i] = b[i]
         /\ \A i \in 1..Len(e) : (b \o e)[Len(b) + i] = e[i]
OBVIOUS

LEMMA HasLonger ==
  ASSUME NEW b \in Seq(Nat), NEW e \in Seq(Nat), NEW from \in Nat, NEW to \in Nat, NEW s \in Seq(Nat),
         Has(b, from, to, s)
  PROVE  Has(b \o e, from, to, s)
<1> DEFINE c == b \o e
<1>1. Len(c) = Len(b) + Len(e) /\ \A i \in 1..Len(b) : c[i] = b[i] BY Joined, Zenon
<1> HIDE DEF c
<1>2. to = from + Len(s) /\ to <= Len(b) BY DEF Has
<1>3. ASSUME NEW i \in 1..Len(s) PROVE c[from + i] = s[i]
  <2>1. from + i \in 1..Len(b)
    <3>1. Len(b) \in Nat /\ Len(s) \in Nat OBVIOUS
    <3> QED BY <1>2, <3>1
  <2>2. b[from + i] = s[i] BY Zenon DEF Has
  <2> QED BY <1>1, <2>1, <2>2, Zenon
<1>4. to <= Len(c)
  <2>1. Len(b) \in Nat /\ Len(e) \in Nat OBVIOUS
  <2> QED BY <1>1, <1>2, <2>1
<1>5. Has(c, from, to, s) BY <1>2, <1>3, <1>4, Zenon DEF Has
<1> QED BY <1>5 DEF c

LEMMA HasAppended ==
  ASSUME NEW b \in Seq(Nat), NEW e \in Seq(Nat)
  PROVE  Has(b \o e, Len(b), Len(b \o e), e)
<1>1. Len(b \o e) = Len(b) + Len(e) /\ \A i \in 1..Len(e) : (b \o e)[Len(b) + i] = e[i] BY Joined, Zenon
<1>2. Len(b \o e) <= Len(b \o e) BY Joined
<1> QED BY <1>1, <1>2, Zenon DEF Has

LEMMA WrittenFacts ==
  ASSUME FormatsInv, phase # "idle"
  PROVE  /\ Len(layout) \in Nat /\ written \in Seq(Seq(Nat)) /\ Len(written) = Len(layout)
         /\ \A k \in 1..Len(layout) :
               /\ IsKind(layout[k]) /\ (layout[k].kind = "option" => format = "pointers")
               /\ IsValue(layout[k], written[k]) /\ Encoded(layout[k], written[k]) \in Seq(Nat)
<1>1. format \in FormatName /\ written \in Value[format] BY Zenon DEF FormatsInv, WriterInv
<1>2. /\ written \in Seq(Seq(Nat)) /\ Len(written) = Len(layout)
      /\ \A k \in DOMAIN written : IsValue(layout[k], written[k])
  BY <1>1, FormatsAssumption, Zenon DEF layout
<1>3. Len(layout) \in Nat /\ \A k \in 1..Len(layout) :
          IsKind(layout[k]) /\ (layout[k].kind = "option" => format = "pointers")
  BY <1>1, LayoutFacts, Zenon DEF layout
<1>4. DOMAIN written = 1..Len(layout) BY <1>2
<1>5. \A k \in 1..Len(layout) : Encoded(layout[k], written[k]) \in Seq(Nat)
  BY <1>2, <1>3, <1>4, EncodedTyped, Zenon
<1> QED BY <1>2, <1>3, <1>4, <1>5, Zenon

LEMMA WritingGoesOn ==
  ASSUME FormatsInv, WriteField
  PROVE  FormatsInv'
<1> DEFINE n == Len(marks)
           e == Encoded(layout[n], written[n])
<1>1. phase = "writing" /\ phase' = phase /\ n <= Len(layout) /\ bytes' = bytes \o e /\ marks' = Append(marks, Len(bytes'))
  BY DEF WriteField
<1>2. /\ format' = format /\ written' = written /\ input' = input /\ stops' = stops /\ fields' = fields
      /\ layout' = layout
  BY DEF WriteField, reader, layout
<1>3. bytes \in Seq(Nat) /\ marks \in Seq(Nat) /\ WriterInv BY <1>1 DEF FormatsInv
<1>4. n \in 1..Len(layout) /\ Len(layout) \in Nat /\ e \in Seq(Nat)
  <2>1. n \in Nat /\ n >= 1 BY <1>3 DEF WriterInv
  <2>2. Len(layout) \in Nat BY <1>1, WrittenFacts
  <2>3. n \in 1..Len(layout) BY <1>1, <2>1, <2>2
  <2> QED BY <1>1, <2>2, <2>3, WrittenFacts, Zenon
<1>5. bytes' \in Seq(Nat) /\ Len(bytes') \in Nat BY <1>1, <1>3, <1>4, Joined
<1>6. /\ marks' \in Seq(Nat) /\ Len(marks') = n + 1 /\ marks'[n + 1] = Len(bytes')
      /\ \A k \in 1..n : marks'[k] = marks[k]
  BY <1>1, <1>3, <1>5
<1>7. ASSUME NEW k \in 1..n PROVE Has(bytes', marks'[k], marks'[k + 1], Encoded(layout[k], written[k]))
  <2>1. CASE k = n
    <3>1. marks'[k] = Len(bytes) /\ marks'[k + 1] = Len(bytes') BY <1>3, <1>6, <2>1, Zenon DEF WriterInv
    <3>2. Has(bytes \o e, Len(bytes), Len(bytes \o e), e) BY <1>3, <1>4, HasAppended, Zenon
    <3> QED BY <1>1, <2>1, <3>1, <3>2, Zenon
  <2>2. CASE k # n
    <3>1. k \in 1..n - 1 /\ k + 1 \in 1..n /\ k \in 1..Len(layout) BY <1>4, <2>2
    <3>2. Has(bytes, marks[k], marks[k + 1], Encoded(layout[k], written[k])) BY <1>3, <3>1, Zenon DEF WriterInv
    <3>3. marks'[k] = marks[k] /\ marks'[k + 1] = marks[k + 1] BY <1>6, <3>1, Zenon
    <3>4. marks[k] \in Nat /\ marks[k + 1] \in Nat
      <4>1. DOMAIN marks = 1..n BY <1>3
      <4> QED BY <1>3, <3>1, <4>1
    <3>5. Encoded(layout[k], written[k]) \in Seq(Nat)
      <4>1. phase # "idle" BY <1>1
      <4> QED BY <3>1, <4>1, WrittenFacts, Zenon
    <3>6. Has(bytes \o e, marks[k], marks[k + 1], Encoded(layout[k], written[k]))
      BY <1>3, <1>4, <3>2, <3>4, <3>5, HasLonger, Zenon
    <3> QED BY <1>1, <3>3, <3>6, Zenon
  <2> QED BY <2>1, <2>2
<1> HIDE DEF n, e
<1>8. WriterInv'
  <2>1. written' \in Value[format'] BY <1>2, <1>3, Zenon DEF WriterInv
  <2>2. Len(marks') \in 1..Len(layout') + 1 BY <1>2, <1>4, <1>6
  <2>3. marks'[1] = 0 /\ marks'[Len(marks')] = Len(bytes')
    <3>1. 1 \in 1..n BY <1>4
    <3> QED BY <1>3, <1>6, <3>1, Zenon DEF WriterInv
  <2>4. Len(marks') - 1 = n BY <1>4, <1>6
  <2>5. phase' = "writing" BY <1>1
  <2>6. \A k \in 1..Len(marks') - 1 : Has(bytes', marks'[k], marks'[k + 1], Encoded(layout'[k], written'[k]))
    BY <1>2, <1>7, <2>4, Zenon
  <2> QED BY <2>1, <2>2, <2>3, <2>5, <2>6, Zenon DEF WriterInv
<1>9. phase' = "writing" BY <1>1
<1>10. phase' # "reading" /\ phase' # "read" BY <1>9
<1>11. DecodedIsEncoded' BY <1>10, Zenon DEF DecodedIsEncoded
<1>12. /\ format \in FormatName /\ input \in Seq(Nat) /\ stops \in Seq(Nat) /\ fields \in Seq(Seq(Nat))
  BY Zenon DEF FormatsInv
<1> QED BY <1>2, <1>5, <1>6, <1>8, <1>9, <1>10, <1>11, <1>12, Zenon DEF FormatsInv
-----------------------------------------------------------------------------
(* Reading.                                                                *)

LEMMA ReaderFacts ==
  ASSUME FormatsInv, phase = "reading"
  PROVE  /\ WriterInv /\ ReaderInv /\ Len(layout) \in Nat /\ Len(marks) = Len(layout) + 1
         /\ bytes \in Seq(Nat) /\ marks \in Seq(Nat)
         /\ input \in Seq(Nat) /\ stops \in Seq(Nat) /\ fields \in Seq(Seq(Nat))
         /\ Len(stops) \in 1..Len(layout) + 1 /\ Len(fields) = Len(stops) - 1
         /\ Cursor \in 0..Len(input)
<1>1. WriterInv /\ ReaderInv BY Zenon DEF FormatsInv
<1>2. Len(layout) \in Nat BY WrittenFacts, Zenon
<1>3. /\ bytes \in Seq(Nat) /\ marks \in Seq(Nat)
      /\ input \in Seq(Nat) /\ stops \in Seq(Nat) /\ fields \in Seq(Seq(Nat))
  BY Zenon DEF FormatsInv
<1>4. Len(stops) \in 1..Len(layout) + 1 /\ Len(stops) = Len(fields) + 1 /\ Cursor <= Len(input)
  BY <1>1, Zenon DEF ReaderInv
<1>5. Cursor \in Nat BY <1>2, <1>3, <1>4 DEF Cursor
<1>6. Len(marks) = Len(layout) + 1 BY <1>1 DEF WriterInv
<1>7. Len(fields) = Len(stops) - 1 BY <1>2, <1>3, <1>4
<1>8. Cursor \in 0..Len(input) BY <1>3, <1>4, <1>5
<1> QED BY <1>1, <1>2, <1>3, <1>4, <1>6, <1>7, <1>8, Zenon

\* The reader is in step: what it finds next is what was written there.
LEMMA NextIsWritten ==
  ASSUME FormatsInv, phase = "reading", Len(stops) <= Len(layout), Undamaged, InStep(fields, stops),
         NEW k, k = Len(stops)
  PROVE  /\ marks[k + 1] \in Nat /\ marks[k + 1] <= Len(bytes)
         /\ IF marks[k + 1] <= Len(input)
            THEN NextField = {[value |-> written[k], size |-> marks[k + 1] - Cursor]} /\ ~Short(layout[k], input, Cursor)
            ELSE NextField = {} \/ Short(layout[k], input, Cursor)
<1>1. k \in 1..Len(layout) /\ k + 1 \in 1..Len(layout) + 1 /\ k \in 1..Len(marks) - 1 BY ReaderFacts
<1>2. Cursor = marks[k]
  <2>1. k \in 1..Len(stops) BY <1>1
  <2> QED BY <2>1, Zenon DEF InStep, Cursor
<1>3. Has(bytes, Cursor, marks[k + 1], Encoded(layout[k], written[k]))
  BY <1>1, <1>2, ReaderFacts, Zenon DEF WriterInv
<1>4. marks[k + 1] \in Nat
  <2>1. marks \in Seq(Nat) /\ Len(marks) = Len(layout) + 1 BY ReaderFacts, Zenon
  <2> QED BY <1>1, <2>1
<1>5. marks[k + 1] <= Len(bytes) BY <1>3, Zenon DEF Has
<1>6. IsKind(layout[k]) /\ IsValue(layout[k], written[k])
  <2>1. phase # "idle" OBVIOUS
  <2> QED BY <1>1, <2>1, WrittenFacts, Zenon
<1>7. input \in Seq(Nat) /\ bytes \in Seq(Nat) /\ Cursor \in 0..Len(input) BY ReaderFacts, Zenon
<1>8. Agree(input, bytes) BY Zenon DEF Undamaged
<1>9. NextField = ReadField(layout[k], input, Cursor) BY Zenon DEF NextField
<1>10. IF marks[k + 1] <= Len(input)
       THEN ReadField(layout[k], input, Cursor) = {[value |-> written[k], size |-> marks[k + 1] - Cursor]}
               /\ ~Short(layout[k], input, Cursor)
       ELSE ReadField(layout[k], input, Cursor) = {} \/ Short(layout[k], input, Cursor)
  BY <1>3, <1>4, <1>6, <1>7, <1>8, ReadBack
<1> QED BY <1>4, <1>5, <1>9, <1>10, Zenon

\* The reader takes one more field.
LEMMA ReadOn ==
  ASSUME FormatsInv, phase = "reading", Len(stops) <= Len(layout), NEW read \in NextField,
         NEW value, value = Append(fields, read.value), NEW at, at = Append(stops, Cursor + read.size)
  PROVE  /\ value \in Seq(Seq(Nat)) /\ at \in Seq(Nat)
         /\ Len(at) \in 1..Len(layout) + 1 /\ Len(at) = Len(value) + 1
         /\ at[1] = 0 /\ at[Len(at)] <= Len(input)
         /\ \E lost \in 0..Len(value) : ReadSoFar(value, at, lost)
<1> DEFINE k == Len(stops)
           v == read.value
           z == read.size
<1>1. k \in 1..Len(layout) /\ k \in Nat /\ Len(layout) \in Nat BY ReaderFacts
<1>2. input \in Seq(Nat) /\ Len(input) \in Nat /\ Cursor \in 0..Len(input) /\ Cursor \in Nat BY ReaderFacts
<1>3. Taken(layout[k], input, Cursor, v, z)
  <2>1. phase # "idle" OBVIOUS
  <2>2. IsKind(layout[k]) BY <1>1, <2>1, WrittenFacts, Zenon
  <2>3. read \in ReadField(layout[k], input, Cursor) BY DEF NextField
  <2> QED BY <1>2, <2>2, <2>3, ReadIsTaken, Zenon
<1>4. v \in Seq(Nat) /\ z \in Nat /\ Cursor + z \in Nat /\ Cursor + z <= Len(input)
  <2>1. v \in Seq(Nat) /\ z \in Nat /\ Cursor + z <= Len(input) BY <1>3, Zenon DEF Taken
  <2> QED BY <1>2, <2>1
<1> HIDE DEF v, z
<1>5. /\ value \in Seq(Seq(Nat)) /\ Len(value) = k /\ value[k] = v
      /\ \A i \in 1..k - 1 : value[i] = fields[i]
  <2>1. fields \in Seq(Seq(Nat)) /\ Len(fields) = k - 1 BY ReaderFacts, Zenon
  <2>2. value = Append(fields, v) BY DEF v
  <2> QED BY <1>1, <1>4, <2>1, <2>2
<1>6. /\ at \in Seq(Nat) /\ Len(at) = k + 1 /\ at[k + 1] = Cursor + z
      /\ \A i \in 1..k : at[i] = stops[i]
  <2>1. stops \in Seq(Nat) BY ReaderFacts, Zenon
  <2>2. at = Append(stops, Cursor + z) BY DEF z
  <2> QED BY <1>1, <1>4, <2>1, <2>2
<1>7. at[k] = Cursor
  <2>1. k \in 1..k BY <1>1
  <2> QED BY <1>6, <2>1, Zenon DEF Cursor
<1>8. PICK lost \in 0..Len(fields) : ReadSoFar(fields, stops, lost) BY ReaderFacts, Zenon DEF ReaderInv
<1>9. lost \in 0..k - 1 /\ lost \in Nat /\ DOMAIN fields = 1..k - 1 /\ DOMAIN value = 1..k
  <2>1. Len(fields) = k - 1 /\ fields \in Seq(Seq(Nat)) BY ReaderFacts, Zenon
  <2> QED BY <1>1, <1>5, <1>8, <2>1
<1>10. ASSUME NEW i \in 1..k - 1
       PROVE  Has(input, at[i], at[i + 1], IF i = lost THEN <<1, value[i][1]>> ELSE Encoded(layout[i], value[i]))
  <2>1. i \in 1..k /\ i + 1 \in 1..k BY <1>1
  <2>2. value[i] = fields[i] /\ at[i] = stops[i] /\ at[i + 1] = stops[i + 1] BY <1>5, <1>6, <2>1, Zenon
  <2>3. Has(input, stops[i], stops[i + 1], IF i = lost THEN <<1, fields[i][1]>> ELSE Encoded(layout[i], fields[i]))
    BY <1>8, <1>9, Zenon DEF ReadSoFar, Encodes
  <2> QED BY <2>2, <2>3, Zenon
<1>11. at[Len(at)] = Cursor + z BY <1>6, Zenon
<1>12. Len(at) \in 1..Len(layout) + 1 /\ Len(at) = Len(value) + 1 BY <1>1, <1>5, <1>6
<1>13. at[1] = 0
  <2>1. 1 \in 1..k BY <1>1
  <2> QED BY <1>6, <2>1, ReaderFacts, Zenon DEF ReaderInv
<1>14. \E l \in 0..Len(value) : ReadSoFar(value, at, l)
  <2>1. CASE Short(layout[k], input, Cursor)
    <3>1. /\ Len(v) = 3 /\ v[2] = 0 /\ v[3] = 0 /\ Len(input) - (Cursor + z) < 2
          /\ Has(input, Cursor, Cursor + z, <<1, v[1]>>)
      BY <1>3, <2>1, Zenon DEF Taken
    <3>2. lost = 0
      <4>1. lost # 0 => Len(input) - Cursor < 2 BY <1>8, Zenon DEF ReadSoFar, Cursor
      <4>2. Cursor + 2 <= Len(input) BY <2>1, Zenon DEF Short
      <4> QED BY <1>2, <4>1, <4>2
    <3>3. Lacks(value, input, at, k)
      <4>1. layout[k].kind = "option" BY <2>1, Zenon DEF Short
      <4> QED BY <1>5, <1>6, <3>1, <4>1, Zenon DEF Lacks
    <3>4. Encodes(value, input, at, k)
      <4>1. SUFFICES ASSUME NEW i \in 1..k
                     PROVE  Has(input, at[i], at[i + 1], IF i = k THEN <<1, value[i][1]>> ELSE Encoded(layout[i], value[i]))
        BY <1>9, Zenon DEF Encodes
      <4>2. CASE i = k BY <1>5, <1>6, <1>7, <3>1, <4>2, Zenon
      <4>3. CASE i # k
        <5>1. i \in 1..k - 1 /\ i # 0 BY <1>1, <4>3
        <5> QED BY <1>10, <3>2, <4>3, <5>1, Zenon
      <4> QED BY <4>2, <4>3, Zenon
    <3>5. Undamaged => Len(input) < Len(bytes)
      <4>1. SUFFICES ASSUME Undamaged PROVE Len(input) < Len(bytes) OBVIOUS
      <4>2. InStep(fields, stops) BY <1>8, <3>2, <4>1, Zenon DEF ReadSoFar
      <4>3. marks[k + 1] \in Nat /\ marks[k + 1] <= Len(bytes) /\ ~(marks[k + 1] <= Len(input))
        BY <2>1, <4>1, <4>2, NextIsWritten, Zenon
      <4>4. Len(bytes) \in Nat BY ReaderFacts
      <4> QED BY <1>2, <4>3, <4>4
    <3>6. k # 0 BY <1>1
    <3>7. ReadSoFar(value, at, k) BY <1>11, <3>1, <3>3, <3>4, <3>5, <3>6, Zenon DEF ReadSoFar
    <3>8. k \in 0..Len(value) BY <1>1, <1>5
    <3> QED BY <3>7, <3>8, Zenon
  <2>2. CASE ~Short(layout[k], input, Cursor)
    <3>1. Has(input, Cursor, Cursor + z, Encoded(layout[k], v)) BY <1>3, <2>2, Zenon DEF Taken
    <3>2. k # lost BY <1>1, <1>9
    <3>3. lost # 0 => Lacks(value, input, at, lost) /\ Len(input) - at[Len(at)] < 2
      <4>1. SUFFICES ASSUME lost # 0 PROVE Lacks(value, input, at, lost) /\ Len(input) - at[Len(at)] < 2 OBVIOUS
      <4>2. Lacks(fields, input, stops, lost) /\ Len(input) - Cursor < 2 BY <1>8, <4>1, Zenon DEF ReadSoFar, Cursor
      <4>3. lost \in 1..k - 1 /\ lost + 1 \in 1..k BY <1>1, <1>9, <4>1
      <4>4. value[lost] = fields[lost] /\ at[lost + 1] = stops[lost + 1] BY <1>5, <1>6, <4>3, Zenon
      <4>5. Lacks(value, input, at, lost) BY <4>2, <4>4, Zenon DEF Lacks
      <4>6. Len(input) - (Cursor + z) < 2 BY <1>2, <1>4, <4>2
      <4> QED BY <1>11, <4>5, <4>6, Zenon
    <3>4. Encodes(value, input, at, lost)
      <4>1. SUFFICES ASSUME NEW i \in 1..k
                     PROVE  Has(input, at[i], at[i + 1], IF i = lost THEN <<1, value[i][1]>> ELSE Encoded(layout[i], value[i]))
        BY <1>9, Zenon DEF Encodes
      <4>2. CASE i = k BY <1>5, <1>6, <1>7, <3>1, <3>2, <4>2, Zenon
      <4>3. CASE i # k
        <5>1. i \in 1..k - 1 BY <1>1, <4>3
        <5> QED BY <1>10, <5>1, Zenon
      <4> QED BY <4>2, <4>3, Zenon
    <3>5. Undamaged /\ lost = 0 => InStep(value, at)
      <4>1. SUFFICES ASSUME Undamaged, lost = 0 PROVE InStep(value, at) OBVIOUS
      <4>2. InStep(fields, stops) BY <1>8, <4>1, Zenon DEF ReadSoFar
      <4>3. NextField # {} OBVIOUS
      <4>4. NextField = {[value |-> written[k], size |-> marks[k + 1] - Cursor]} /\ marks[k + 1] \in Nat
        BY <2>2, <4>1, <4>2, <4>3, NextIsWritten, Zenon
      <4>5. v = written[k] /\ z = marks[k + 1] - Cursor BY <4>4 DEF v, z
      <4>6. Cursor + z = marks[k + 1] BY <1>2, <4>4, <4>5
      <4>7. ASSUME NEW i \in 1..Len(at) PROVE at[i] = marks[i]
        <5>1. CASE i = k + 1 BY <1>6, <4>6, <5>1, Zenon
        <5>2. CASE i # k + 1
          <6>1. i \in 1..k BY <1>1, <1>6, <5>2
          <6> QED BY <1>6, <4>2, <6>1, Zenon DEF InStep
        <5> QED BY <5>1, <5>2
      <4>8. ASSUME NEW i \in 1..Len(value) PROVE value[i] = written[i]
        <5>1. CASE i = k BY <1>5, <4>5, <5>1, Zenon
        <5>2. CASE i # k
          <6>1. i \in 1..k - 1 /\ Len(fields) = k - 1 BY <1>1, <1>5, <5>2, ReaderFacts
          <6> QED BY <1>5, <4>2, <6>1, Zenon DEF InStep
        <5> QED BY <5>1, <5>2
      <4> QED BY <4>7, <4>8, Zenon DEF InStep
    <3>6. Undamaged /\ lost # 0 => Len(input) < Len(bytes) BY <1>8, Zenon DEF ReadSoFar
    <3>7. ReadSoFar(value, at, lost) BY <3>3, <3>4, <3>5, <3>6, Zenon DEF ReadSoFar
    <3>8. lost \in 0..Len(value) BY <1>1, <1>5, <1>9
    <3> QED BY <3>7, <3>8, Zenon
  <2> QED BY <2>1, <2>2
<1> QED BY <1>4, <1>5, <1>6, <1>11, <1>12, <1>13, <1>14, Zenon

LEMMA ReadNextKeeps ==
  ASSUME FormatsInv, ReadNext
  PROVE  FormatsInv'
<1>1. phase = "reading" /\ Len(stops) <= Len(layout) /\ phase' = phase BY DEF ReadNext
<1>2. PICK read \in NextField : fields' = Append(fields, read.value) /\ stops' = Append(stops, Cursor + read.size)
  BY DEF ReadNext
<1>3. format' = format /\ written' = written /\ bytes' = bytes /\ marks' = marks /\ input' = input BY DEF ReadNext, writer
<1>4. layout' = layout BY <1>3 DEF layout
<1>5. /\ fields' \in Seq(Seq(Nat)) /\ stops' \in Seq(Nat)
      /\ Len(stops') \in 1..Len(layout) + 1 /\ Len(stops') = Len(fields') + 1
      /\ stops'[1] = 0 /\ stops'[Len(stops')] <= Len(input)
      /\ \E lost \in 0..Len(fields') : ReadSoFar(fields', stops', lost)
  BY <1>1, <1>2, ReadOn, Zenon
<1>6. ReaderInv'
  <2>1. PICK lost \in 0..Len(fields') : ReadSoFar(fields', stops', lost) BY <1>5, Zenon
  <2>2. ReadSoFar(fields, stops, lost)'
    BY <1>3, <1>4, <2>1, Zenon DEF ReadSoFar, Lacks, Encodes, Undamaged, InStep
  <2> QED BY <1>3, <1>4, <1>5, <2>1, <2>2, Zenon DEF ReaderInv, Cursor
<1>7. WriterInv'
  <2>1. WriterInv BY <1>1, ReaderFacts, Zenon
  <2> QED BY <1>1, <1>3, <1>4, <2>1, Zenon DEF WriterInv
<1>8. DecodedIsEncoded'
  <2>1. phase' # "read" BY <1>1
  <2> QED BY <2>1, Zenon DEF DecodedIsEncoded
<1> QED BY <1>1, <1>3, <1>5, <1>6, <1>7, <1>8, Zenon DEF FormatsInv

\* What an undamaged input that is not cut short gives.
LEMMA InStepOfAll ==
  ASSUME FormatsInv, phase = "reading", input = bytes
  PROVE  Undamaged /\ InStep(fields, stops)
<1>1. Undamaged BY DEF Undamaged, Agree
<1>2. PICK lost \in 0..Len(fields) : ReadSoFar(fields, stops, lost) BY ReaderFacts, Zenon DEF ReaderInv
<1>3. ~(Len(input) < Len(bytes)) BY ReaderFacts
<1> QED BY <1>1, <1>2, <1>3, Zenon DEF ReadSoFar

LEMMA AtTheEnd ==
  ASSUME FormatsInv, phase = "reading", Len(stops) > Len(layout), InStep(fields, stops)
  PROVE  Cursor = Len(bytes) /\ fields = written
<1>0. Len(stops) \in 1..Len(layout) + 1 /\ Len(fields) = Len(stops) - 1 /\ Len(layout) \in Nat BY ReaderFacts, Zenon
<1>1. Len(stops) = Len(layout) + 1 /\ Len(fields) = Len(layout) /\ Len(layout) \in Nat BY <1>0
<1>2. Cursor = Len(bytes)
  <2>1. Len(stops) \in 1..Len(stops) BY <1>1
  <2>2. Cursor = marks[Len(marks)] BY <1>1, <2>1, ReaderFacts, Zenon DEF InStep, Cursor
  <2> QED BY <2>2, ReaderFacts, Zenon DEF WriterInv
<1>3. written \in Seq(Seq(Nat)) /\ Len(written) = Len(layout) BY WrittenFacts
<1>4. fields = [i \in 1..Len(fields) |-> fields[i]] /\ written = [i \in 1..Len(written) |-> written[i]]
  BY <1>3, ReaderFacts
<1>5. fields = written BY <1>1, <1>3, <1>4, Zenon DEF InStep
<1> QED BY <1>2, <1>5

LEMMA ReadFailsKeeps ==
  ASSUME FormatsInv, ReadFails
  PROVE  FormatsInv'
<1>1. phase = "reading" /\ Len(stops) <= Len(layout) /\ NextField = {} /\ phase' = "read" /\ returned' = {}
  BY DEF ReadFails, ReadReturns
<1>2. /\ format' = format /\ written' = written /\ bytes' = bytes /\ marks' = marks
      /\ input' = input /\ stops' = stops /\ fields' = fields
  BY DEF ReadFails, ReadReturns, writer
<1>3. input # bytes
  <2>1. SUFFICES ASSUME input = bytes PROVE FALSE OBVIOUS
  <2>2. Undamaged /\ InStep(fields, stops) BY <1>1, <2>1, InStepOfAll, Zenon
  <2>3. NextField # {}
    <3> DEFINE k == Len(stops)
    <3>1. marks[k + 1] <= Len(input) BY <1>1, <2>1, <2>2, NextIsWritten, Zenon
    <3>2. NextField = {[value |-> written[k], size |-> marks[k + 1] - Cursor]} BY <1>1, <2>2, <3>1, NextIsWritten, Zenon
    <3> QED BY <3>2, Zenon
  <2> QED BY <1>1, <2>3
<1>4. DecodedIsEncoded' BY <1>1, <1>2, <1>3, Zenon DEF DecodedIsEncoded
<1>5. WriterInv'
  <2>1. WriterInv BY <1>1, ReaderFacts, Zenon
  <2>2. Len(marks) = Len(layout) + 1 BY <1>1, ReaderFacts, Zenon
  <2> QED BY <1>1, <1>2, <2>1, <2>2, Zenon DEF WriterInv, layout
<1>6. phase' # "reading" BY <1>1
<1>7. /\ format \in FormatName /\ bytes \in Seq(Nat) /\ marks \in Seq(Nat)
      /\ input \in Seq(Nat) /\ stops \in Seq(Nat) /\ fields \in Seq(Seq(Nat))
  BY Zenon DEF FormatsInv
<1> QED BY <1>1, <1>2, <1>4, <1>5, <1>6, <1>7, Zenon DEF FormatsInv

LEMMA AcceptedStays ==
  ASSUME format' = format, bytes' = bytes, input' = input, stops' = stops, NEW value, Accepted(value)
  PROVE  Accepted(value)'
<1>1. layout' = layout /\ Cursor' = Cursor /\ (Undamaged' <=> Undamaged) BY Zenon DEF layout, Cursor, Undamaged
<1>2. PICK lost \in {0} \cup {k \in 1..Len(layout) : Lacks(value, input, stops, k)} :
          /\ Encodes(value, input, stops, lost)
          /\ lost # 0 => format = "pointers"
          /\ Undamaged /\ Len(input) < Len(bytes) => lost # 0
  BY Zenon DEF Accepted
<1>3. Encodes(value, input, stops, lost)' BY <1>1, <1>2, Zenon DEF Encodes
<1>4. ASSUME NEW k, Lacks(value, input, stops, k) PROVE Lacks(value, input, stops, k)'
  BY <1>1, <1>4, Zenon DEF Lacks
<1>5. lost \in {0} \cup {k \in 1..Len(layout') : Lacks(value, input, stops, k)'} BY <1>1, <1>2, <1>4, Zenon
<1>6. /\ Len(value) = Len(layout') /\ Len(stops') = Len(layout') + 1
      /\ format' = "frame" \/ Cursor' = Len(input')
  BY <1>1, Zenon DEF Accepted
<1> QED BY <1>1, <1>2, <1>3, <1>5, <1>6, Zenon DEF Accepted

LEMMA ReadEndsKeeps ==
  ASSUME FormatsInv, ReadEnds
  PROVE  FormatsInv'
<1>1. /\ phase = "reading" /\ Len(stops) > Len(layout) /\ phase' = "read"
      /\ returned' = IF format = "frame" \/ Cursor = Len(input) THEN {fields} ELSE {}
  BY DEF ReadEnds, ReadReturns
<1>2. /\ format' = format /\ written' = written /\ bytes' = bytes /\ marks' = marks
      /\ input' = input /\ stops' = stops /\ fields' = fields
  BY DEF ReadEnds, ReadReturns, writer
<1>3. layout' = layout /\ Cursor' = Cursor BY <1>2 DEF layout, Cursor
<1>4. input = bytes => returned' = {written}
  <2>1. SUFFICES ASSUME input = bytes PROVE returned' = {written} OBVIOUS
  <2>2. InStep(fields, stops) BY <1>1, <2>1, InStepOfAll, Zenon
  <2>3. Cursor = Len(input) /\ fields = written BY <1>1, <2>1, <2>2, AtTheEnd, Zenon
  <2> QED BY <1>1, <2>3, Zenon
<1>5. ASSUME NEW value \in returned' PROVE Accepted(value)
  <2>1. value = fields /\ (format = "frame" \/ Cursor = Len(input)) BY <1>1, <1>5
  <2>2. Len(fields) = Len(layout) /\ Len(stops) = Len(layout) + 1 /\ Len(layout) \in Nat BY <1>1, ReaderFacts
  <2>3. PICK lost \in 0..Len(fields) : ReadSoFar(fields, stops, lost) BY <1>1, ReaderFacts, Zenon DEF ReaderInv
  <2>4. lost \in {0} \cup {k \in 1..Len(layout) : Lacks(fields, input, stops, k)}
    <3>1. lost = 0 \/ lost \in 1..Len(layout) BY <2>2
    <3>2. lost # 0 => Lacks(fields, input, stops, lost) BY <2>3, Zenon DEF ReadSoFar
    <3> QED BY <3>1, <3>2, Zenon
  <2>5. lost # 0 => format = "pointers"
    <3>1. lost # 0 => lost \in 1..Len(layout) /\ layout[lost].kind = "option" BY <2>4, Zenon DEF Lacks
    <3>2. phase # "idle" BY <1>1
    <3> QED BY <3>1, <3>2, WrittenFacts, Zenon
  <2>6. Undamaged /\ Len(input) < Len(bytes) => lost # 0
    <3>1. SUFFICES ASSUME Undamaged, Len(input) < Len(bytes), lost = 0 PROVE FALSE OBVIOUS
    <3>2. InStep(fields, stops) BY <2>3, <3>1, Zenon DEF ReadSoFar
    <3>3. Cursor = Len(bytes) BY <1>1, <3>2, AtTheEnd, Zenon
    <3>4. Cursor \in 0..Len(input) /\ input \in Seq(Nat) BY <1>1, ReaderFacts, Zenon
    <3> QED BY <3>1, <3>3, <3>4
  <2>7. Encodes(fields, input, stops, lost) BY <2>3, Zenon DEF ReadSoFar
  <2> QED BY <2>1, <2>2, <2>4, <2>5, <2>6, <2>7, Zenon DEF Accepted
<1>6. DecodedIsEncoded'
  <2>1. ASSUME NEW value \in returned' PROVE Accepted(value)' BY <1>2, <1>5, AcceptedStays, Zenon
  <2> QED BY <1>2, <1>4, <2>1, Zenon DEF DecodedIsEncoded
<1>7. WriterInv'
  <2>1. WriterInv BY <1>1, ReaderFacts, Zenon
  <2>2. Len(marks) = Len(layout) + 1 BY <1>1, ReaderFacts, Zenon
  <2> QED BY <1>1, <1>2, <2>1, <2>2, Zenon DEF WriterInv, layout
<1>8. phase' # "reading" BY <1>1
<1>9. /\ format \in FormatName /\ bytes \in Seq(Nat) /\ marks \in Seq(Nat)
      /\ input \in Seq(Nat) /\ stops \in Seq(Nat) /\ fields \in Seq(Seq(Nat))
  BY Zenon DEF FormatsInv
<1> QED BY <1>1, <1>2, <1>6, <1>7, <1>8, <1>9, Zenon DEF FormatsInv

-----------------------------------------------------------------------------
(* The beginnings.                                                         *)

LEMMA DamagedTyped ==
  ASSUME NEW b \in Seq(Nat), NEW c \in Damaged(b)
  PROVE  c \in Seq(Nat)
<1>1. ASSUME NEW more \in Added PROVE more \in Seq(Nat)
  <2>1. PICK n \in 0..MaxNoise : more \in [1..n -> Noise] BY <1>1, Zenon DEF Added
  <2>2. n \in Nat BY <2>1, FormatsAssumption
  <2>3. more \in [1..n -> Nat] BY <2>1, FormatsAssumption
  <2> QED BY <2>2, <2>3
<1>2. ASSUME NEW n \in 0..Len(b) PROVE SubSeq(b, 1, n) \in Seq(Nat) OBVIOUS
<1>3. ASSUME NEW i \in DOMAIN b, NEW x \in Noise PROVE [b EXCEPT ![i] = x] \in Seq(Nat)
  <2>1. x \in Nat BY FormatsAssumption, Zenon
  <2> QED BY <2>1
<1>4. ASSUME NEW more \in Added PROVE b \o more \in Seq(Nat) BY <1>1
<1>5. CASE c \in {SubSeq(b, 1, n) : n \in 0..Len(b)} BY <1>2, <1>5, Zenon
<1>6. CASE c \in {[b EXCEPT ![i] = x] : i \in DOMAIN b, x \in Noise}
  <2>1. PICK i \in DOMAIN b, x \in Noise : c = [b EXCEPT ![i] = x] BY <1>6
  <2> QED BY <1>3, <2>1, Zenon
<1>7. CASE c \in {b \o more : more \in Added} BY <1>4, <1>7, Zenon
<1>8. CASE c \in Added BY <1>1, <1>8, Zenon
<1>9. \/ c \in {SubSeq(b, 1, n) : n \in 0..Len(b)} \/ c \in {[b EXCEPT ![i] = x] : i \in DOMAIN b, x \in Noise}
      \/ c \in {b \o more : more \in Added} \/ c \in Added
  BY DEF Damaged
<1> QED BY <1>5, <1>6, <1>7, <1>8, <1>9, SMTT(30)

LEMMA BeginWritingKeeps ==
  ASSUME FormatsInv, BeginWriting
  PROVE  FormatsInv'
<1>1. /\ phase' = "writing" /\ format' \in FormatName /\ written' \in Value[format']
      /\ bytes' = << >> /\ marks' = <<0>> /\ input' = input /\ stops' = stops /\ fields' = fields
  BY DEF BeginWriting, reader
<1>2. bytes' \in Seq(Nat) /\ marks' \in Seq(Nat) /\ Len(bytes') = 0 /\ Len(marks') = 1 /\ marks'[1] = 0 BY <1>1
<1>3. Len(layout') \in Nat BY <1>1, LayoutFacts, Zenon DEF layout
<1>4. WriterInv'
  <2>1. Len(marks') \in 1..Len(layout') + 1 /\ \A k : k \notin 1..Len(marks') - 1 BY <1>2, <1>3
  <2> QED BY <1>1, <1>2, <2>1, Zenon DEF WriterInv
<1>5. phase' # "reading" /\ phase' # "read" BY <1>1
<1>6. DecodedIsEncoded' BY <1>5, Zenon DEF DecodedIsEncoded
<1>7. input \in Seq(Nat) /\ stops \in Seq(Nat) /\ fields \in Seq(Seq(Nat)) BY Zenon DEF FormatsInv
<1> QED BY <1>1, <1>2, <1>4, <1>5, <1>6, <1>7, Zenon DEF FormatsInv

LEMMA BeginReadingKeeps ==
  ASSUME FormatsInv, BeginReading
  PROVE  FormatsInv'
<1>1. /\ phase = "writing" /\ Len(marks) > Len(layout) /\ phase' = "reading" /\ input' \in Damaged(bytes)
      /\ stops' = <<0>> /\ fields' = << >>
      /\ format' = format /\ written' = written /\ bytes' = bytes /\ marks' = marks
  BY DEF BeginReading, writer
<1>2. layout' = layout BY <1>1 DEF layout
<1>3. WriterInv /\ format \in FormatName /\ bytes \in Seq(Nat) /\ marks \in Seq(Nat) BY <1>1 DEF FormatsInv
<1>4. Len(layout) \in Nat BY <1>1, WrittenFacts
<1>5. input' \in Seq(Nat) BY <1>1, <1>3, DamagedTyped, Zenon
<1>6. stops' \in Seq(Nat) /\ Len(stops') = 1 /\ stops'[1] = 0 BY <1>1
<1>7. fields' \in Seq(Seq(Nat)) /\ Len(fields') = 0 /\ \A k : k \notin DOMAIN fields' /\ k \notin 1..Len(fields') BY <1>1
<1>8. WriterInv'
  <2>1. Len(marks) = Len(layout) + 1 BY <1>1, <1>3, <1>4 DEF WriterInv
  <2> QED BY <1>1, <1>2, <1>3, <2>1, Zenon DEF WriterInv
<1>9. ReaderInv'
  <2>1. Len(stops') \in 1..Len(layout') + 1 /\ Len(stops') = Len(fields') + 1 BY <1>2, <1>4, <1>6, <1>7
  <2>2. Cursor' = 0 /\ 0 <= Len(input') BY <1>5, <1>6 DEF Cursor
  <2>3. \A k \in 1..Len(stops') : stops'[k] = marks'[k]
    <3>1. marks'[1] = 0 BY <1>8, Zenon DEF WriterInv
    <3>2. \A k \in 1..Len(stops') : k = 1 BY <1>6
    <3> QED BY <1>6, <3>1, <3>2, Zenon
  <2>4. ReadSoFar(fields, stops, 0)' BY <1>7, <2>3, Zenon DEF ReadSoFar, Encodes, InStep
  <2>5. 0 \in 0..Len(fields') BY <1>7
  <2> QED BY <1>6, <2>1, <2>2, <2>4, <2>5, Zenon DEF ReaderInv
<1>10. phase' # "read" BY <1>1
<1>11. DecodedIsEncoded' BY <1>10, Zenon DEF DecodedIsEncoded
<1> QED BY <1>1, <1>3, <1>5, <1>6, <1>7, <1>8, <1>9, <1>11, Zenon DEF FormatsInv

\* The reader of each of the eight formats gives back what its writer wrote,
\* and accepts nothing but the encoding of what it returns, whatever was done
\* to the bytes, but for the missing version of a pointers file.
THEOREM DecodedAreEncoded == FormatsSpec => []DecodedIsEncoded
<1>1. FormatsInit => FormatsInv
  <2>1. ASSUME FormatsInit PROVE FormatsInv
    <3>1. phase = "idle" /\ format \in FormatName BY <2>1 DEF FormatsInit, FormatName
    <3>2. /\ bytes \in Seq(Nat) /\ marks \in Seq(Nat)
          /\ input \in Seq(Nat) /\ stops \in Seq(Nat) /\ fields \in Seq(Seq(Nat))
      BY <2>1 DEF FormatsInit
    <3>3. phase # "reading" /\ phase # "read" BY <3>1
    <3> QED BY <3>1, <3>2, <3>3, Zenon DEF FormatsInv, DecodedIsEncoded
  <2> QED BY <2>1
<1>2. FormatsInv /\ [FormatsNext]_<<phase, writer, reader>> => FormatsInv'
  <2>1. SUFFICES ASSUME FormatsInv, [FormatsNext]_<<phase, writer, reader>> PROVE FormatsInv' OBVIOUS
  <2>2. CASE FormatsNext
    BY <2>1, <2>2, BeginWritingKeeps, WritingGoesOn, BeginReadingKeeps, ReadNextKeeps, ReadFailsKeeps, ReadEndsKeeps, Zenon
       DEF FormatsNext
  <2>3. CASE UNCHANGED <<phase, writer, reader>>
    <3>1. /\ phase' = phase /\ format' = format /\ written' = written /\ bytes' = bytes /\ marks' = marks
          /\ input' = input /\ stops' = stops /\ fields' = fields /\ returned' = returned
      BY <2>3 DEF writer, reader
    <3>2. layout' = layout /\ Cursor' = Cursor /\ (Undamaged' <=> Undamaged) BY <3>1 DEF layout, Cursor, Undamaged
    <3>3. WriterInv => WriterInv' BY <3>1, <3>2, Zenon DEF WriterInv
    <3>4. ASSUME NEW lost, ReadSoFar(fields, stops, lost) PROVE ReadSoFar(fields, stops, lost)'
      BY <3>1, <3>2, <3>4, Zenon DEF ReadSoFar, InStep, Lacks, Encodes
    <3>5. ReaderInv => ReaderInv' BY <3>1, <3>2, <3>4, Zenon DEF ReaderInv
    <3>6. DecodedIsEncoded => DecodedIsEncoded' BY <3>1, AcceptedStays, Zenon DEF DecodedIsEncoded
    <3> QED BY <2>1, <3>1, <3>3, <3>5, <3>6, Zenon DEF FormatsInv
  <2> QED BY <2>1, <2>2, <2>3
<1>3. FormatsInv => DecodedIsEncoded BY DEF FormatsInv
<1> QED BY <1>1, <1>2, <1>3, PTL DEF FormatsSpec
=============================================================================
