------------------------ MODULE ConfigurationProofs ------------------------
(***************************************************************************)
(* The cache of a device is sound for any number of versions, calls and    *)
(* mounts: proofs of what MCConfiguration checks on a small instance.      *)
(* Then Paths, for inputs of any length and any limits: what MCAlgorithms  *)
(* checks of the keys that the store looks its files up by.                *)
(***************************************************************************)
EXTENDS Configuration, Paths, TLAPS

\* Version 1 exists, so that Select has something to make.
LEMMA OneIsVersion == 1 \in Version
  BY ConfigurationAssumption DEF Version

LEMMA InitInv == Init => Inv
  BY ConfigurationAssumption
  DEF Init, Inv, TypeOK, SelectedIsStaged, LkgIsOlder, CallState, Pointers

\* What the server gets is a report.
LEMMA PostTyped ==
  ASSUME Inv, NEW n \in 0 .. MaxMounts, Post(n)
  PROVE  report' \in [said : 0 .. MaxMounts, mounts : 0 .. MaxMounts, recorded : BOOLEAN]
<1>1. Recordable(n) \in BOOLEAN BY Zenon DEF Recordable
<1> QED BY <1>1 DEF Post, Inv, TypeOK

\* Rejected leaves the loop idle, with a report that has its type.
LEMMA RejectedTyped ==
  ASSUME Inv, Rejected
  PROVE  /\ pc' = "idle" /\ waiting' = None /\ bundle' = None
         /\ report' \in [said : 0 .. MaxMounts, mounts : 0 .. MaxMounts, recorded : BOOLEAN] \cup {None}
<1>1. 0 \in 0 .. MaxMounts BY ConfigurationAssumption
<1>2. CASE Post(0) BY <1>1, <1>2, PostTyped DEF Rejected
<1>3. CASE UNCHANGED report BY <1>3 DEF Rejected, Inv, TypeOK
<1> QED BY <1>2, <1>3 DEF Rejected

\* The server's queries keep the invariant: they touch neither the agent nor
\* the reports.
LEMMA ServerKeepsInv ==
  ASSUME Inv, NEW c \in Call,
         Select(c) \/ Check(c) \/ Insert(c) \/ Poll(c) \/ (\E v \in Version : Publish(c, v))
  PROVE  Inv'
<1> USE ConfigurationAssumption, OneIsVersion
    DEF Inv, TypeOK, SelectedIsStaged, LkgIsOlder, Fresh, CallState, Pointers, Goes, agent
<1>1. CASE Select(c) BY <1>1 DEF Select
<1>2. CASE Check(c) BY <1>2 DEF Check
<1>3. CASE Insert(c) BY <1>3 DEF Insert
<1>4. CASE Poll(c) BY <1>4 DEF Poll
<1>5. CASE \E v \in Version : Publish(c, v)
  <2>1. PICK v \in Version : Publish(c, v) BY <1>5
  <2>2. v # None BY DEF Version
  <2> QED BY <2>1, <2>2 DEF Publish
<1> QED BY <1>1, <1>2, <1>3, <1>4, <1>5

\* The steps of the service loop and of the session monitor keep it.
LEMMA AgentKeepsInv ==
  ASSUME Inv,
         \/ ReportHealth \/ PollFails \/ Stage \/ Point \/ Clean \/ IoError \/ Restart \/ Mount
         \/ Restored
         \/ \E received \in Version \cup {Bad} : Verify(received)
  PROVE  Inv'
<1> USE ConfigurationAssumption
    DEF Inv, TypeOK, SelectedIsStaged, LkgIsOlder, Fresh, CallState, Pointers, agent, Version
<1>1. CASE ReportHealth BY <1>1, PostTyped DEF ReportHealth
<1>2. CASE PollFails BY <1>2, RejectedTyped DEF PollFails
<1>3. CASE Stage BY <1>3, Zenon DEF Stage
<1>4. CASE Point BY <1>4 DEF Point
<1>5. CASE Clean BY <1>5 DEF Clean, Referenced
<1>6. CASE IoError BY <1>6, RejectedTyped DEF IoError
<1>7. CASE Restart BY <1>7 DEF Restart
<1>8. CASE Mount BY <1>8 DEF Mount
<1>9. CASE Restored BY <1>9 DEF Restored
<1>10. CASE \E received \in Version \cup {Bad} : Verify(received)
  <2>1. PICK received \in Version \cup {Bad} : Verify(received) BY <1>10
  <2>2. CASE Rejected BY <2>1, <2>2, RejectedTyped DEF Verify
  <2>3. CASE ~Rejected BY <2>1, <2>3 DEF Verify, Received
  <2> QED BY <2>2, <2>3
<1> QED BY <1>1, <1>2, <1>3, <1>4, <1>5, <1>6, <1>7, <1>8, <1>9, <1>10

\* Every step keeps the invariant.
LEMMA StepKeepsInv == Inv /\ [Next]_vars => Inv'
<1> SUFFICES ASSUME Inv, [Next]_vars PROVE Inv' OBVIOUS
<1>1. CASE Next BY <1>1, ServerKeepsInv, AgentKeepsInv DEF Next
<1>2. CASE UNCHANGED vars
  BY <1>2 DEF vars, Inv, TypeOK, SelectedIsStaged, LkgIsOlder, Fresh
<1> QED BY <1>1, <1>2

\* The invariant of the cache and of the calls holds in every state, for
\* every bound on the versions, calls and mounts.
THEOREM Invariance == Spec => []Inv
<1>1. Init => Inv BY InitInv
<1>2. Inv /\ [Next]_vars => Inv' BY StepKeepsInv
<1> QED BY <1>1, <1>2, PTL DEF Spec

\* "Retain the current and last-known-good configurations": wherever an
\* activation or a clean-up stops, what the pointers name is staged.
THEOREM PointedIsStaged == Spec => []SelectedIsStaged
<1>1. Inv => SelectedIsStaged BY DEF Inv
<1> QED BY <1>1, Invariance, PTL

\* The last known good bundle is older than the current one.
THEOREM LkgStaysOlder == Spec => []LkgIsOlder
<1>1. Inv => LkgIsOlder BY DEF Inv
<1> QED BY <1>1, Invariance, PTL

\* Whatever the server answers, and whatever copy its database was restored
\* from, the device never goes back to an older bundle.
THEOREM VersionsIncrease == Spec => VersionNeverGoesBack
<1> DEFINE Step == pointers.current # None =>
                       pointers'.current # None /\ pointers'.current >= pointers.current
<1>1. ASSUME Inv, [Next]_vars PROVE Step
  <2>1. CASE Point
    BY <1>1, <2>1, ConfigurationAssumption DEF Point, Inv, TypeOK, Fresh, Pointers, Version
  <2>2. CASE ~Point
    <3>1. UNCHANGED pointers
      BY <1>1, <2>2
      DEF Next, vars, agent, Select, Check, Insert, Poll, Publish, Restored, ReportHealth, PollFails,
          Stage, Clean, IoError, Restart, Mount, Verify
    <3> QED BY <1>1, <3>1, ConfigurationAssumption DEF Inv, TypeOK, Pointers, Version
  <2> QED BY <2>1, <2>2
<1>2. Inv /\ [Next]_vars => [Step]_vars BY <1>1
<1> QED BY <1>2, Invariance, PTL DEF Spec, VersionNeverGoesBack

-----------------------------------------------------------------------------
(* VirtualPath.  Why what is joined parses to its pieces: the names have   *)
(* no separator in them, so the first cut behind the start of a name is    *)
(* where it ends; and it is not too long, because the names of the input   *)
(* took as much room there.                                                *)

\* Lower case is canonical, and as valid.
LEMMA LowerCharacter ==
  /\ \A c : c \notin Separator \cup {":"} => Lower(c) \notin Separator \cup {":"} /\ Canonical(c) = Lower(c)
  /\ \A c : c \in PathCharacter => Lower(c) \in PathCharacter
  /\ \A c : \A d \in {"*", ".", "N"} : Lower(c) = d => c = d
BY DEF Canonical, Lower, Separator, PathCharacter

LEMMA CanonicalTwice == \A c : Canonical(Canonical(c)) = Canonical(c)
BY DEF Canonical, Lower, Separator

LEMMA LowerName ==
  ASSUME NEW p \in Word, IsPart(p)
  PROVE  /\ LowerAll(p) \in Word /\ Len(LowerAll(p)) = Len(p)
         /\ IsPart(LowerAll(p)) /\ IsCanonical(LowerAll(p)) /\ Alike(LowerAll(p), p) /\ Alike(p, LowerAll(p))
         /\ ValidComponent(p) => ValidComponent(LowerAll(p))
<1> DEFINE q == LowerAll(p)
<1>1. q \in Word /\ Len(q) = Len(p) /\ DOMAIN q = DOMAIN p BY LowerCharacter DEF LowerAll, Word
<1>2. DOMAIN p = 1..Len(p) /\ Len(p) \in Nat /\ DOMAIN q = 1..Len(p) BY <1>1 DEF Word
<1>3. \A i \in 1..Len(p) : q[i] = Lower(p[i]) BY <1>2 DEF LowerAll
<1>4. Len(p) > 0 BY DEF IsPart, Word
<1> HIDE DEF q
<1>5. q # << >> BY <1>1, <1>4
<1>6. ASSUME NEW i \in 1..Len(p) PROVE q[i] \notin Separator \cup {":"} /\ Canonical(p[i]) = q[i]
  <2>1. p[i] \notin Separator \cup {":"} BY Zenon DEF IsPart
  <2>2. q[i] = Lower(p[i]) BY <1>3, Zenon
  <2> HIDE DEF Separator
  <2> QED BY <2>1, <2>2, LowerCharacter
<1>7. IsPart(q) BY <1>1, <1>5, <1>6, Zenon DEF IsPart
<1>8. \A i \in 1..Len(p) : Canonical(q[i]) = q[i] BY <1>6, CanonicalTwice, Zenon
<1>9. IsCanonical(q) /\ Alike(q, p) /\ Alike(p, q) BY <1>1, <1>6, <1>8, Zenon DEF IsCanonical, Alike
<1>10. ASSUME ValidComponent(p) PROVE ValidComponent(q)
  <2>1. q[Len(q)] # "." BY <1>1, <1>2, <1>3, <1>4, <1>10, LowerCharacter DEF ValidComponent
  <2>2. \A i \in 1..Len(p) : p[i] # "*" BY <1>2, <1>10, Zenon DEF ValidComponent
  <2>3. \A i \in DOMAIN q : q[i] # "*" BY <1>2, <1>3, <2>2, LowerCharacter
  <2>4. q[1] = "N" => p[1] = "N" BY <1>2, <1>3, <1>4, LowerCharacter
  <2>5. Len(p) # 1 /\ q[2] = "." => p[2] = "." BY <1>2, <1>3, <1>4, LowerCharacter
  <2> QED BY <1>1, <1>5, <1>10, <2>1, <2>3, <2>4, <2>5, Zenon DEF ValidComponent
<1> QED BY <1>1, <1>7, <1>9, <1>10, Zenon DEF q

LEMMA LookupFacts ==
  ASSUME NEW names \in Seq(Word), AreNames(names)
  PROVE  LET low == LookupNames(names)
         IN  /\ low \in Seq(Word) /\ Len(low) = Len(names) /\ AreNames(low)
             /\ \A k \in 1..Len(names) :
                   /\ Len(low[k]) = Len(names[k]) /\ IsCanonical(low[k])
                   /\ Alike(low[k], names[k]) /\ Alike(names[k], low[k])
<1> DEFINE low == LookupNames(names)
<1>1. DOMAIN names = 1..Len(names) /\ Len(names) \in Nat /\ \A k \in 1..Len(names) : names[k] \in Word OBVIOUS
<1>2. \A k \in 1..Len(names) : IsPart(names[k]) /\ ValidComponent(names[k]) BY DEF AreNames
<1>3. \A k \in 1..Len(names) : LowerAll(names[k]) \in Word BY <1>1, <1>2, LowerName, Zenon
<1>4. low \in Seq(Word) /\ Len(low) = Len(names) /\ \A k \in 1..Len(names) : low[k] = LowerAll(names[k])
  BY <1>1, <1>3 DEF LookupNames
<1> HIDE DEF low
<1>5. \A k \in 1..Len(names) : IsPart(low[k]) /\ ValidComponent(low[k])
  BY <1>1, <1>2, <1>4, LowerName, Zenon
<1>6. \A k \in 1..Len(names) :
         /\ Len(low[k]) = Len(names[k]) /\ IsCanonical(low[k])
         /\ Alike(low[k], names[k]) /\ Alike(names[k], low[k])
  BY <1>1, <1>2, <1>4, LowerName, Zenon
<1>7. AreNames(low) BY <1>4, <1>5, Zenon DEF AreNames
<1> QED BY <1>4, <1>6, <1>7, Zenon DEF low

-----------------------------------------------------------------------------
(* Joining.                                                                *)

\* t is s, a separator unless s is empty, and a piece.
Extends(t, s, glue, piece, start) ==
  /\ Len(t) = start + Len(piece) /\ Len(s) <= start
  /\ \A i \in 1..Len(s) : t[i] = s[i]
  /\ \A i \in 1..Len(piece) : t[start + i] = piece[i]
  /\ start # 0 => start = Len(s) + 1 /\ t[start] = glue
  /\ start = 0 => Len(s) = 0

LEMMA Glued ==
  ASSUME NEW s \in Word, NEW glue \in PathCharacter, NEW piece \in Word, NEW at \in Seq(Nat), Len(s) = Reach(at)
  PROVE  LET t == (IF at = << >> THEN << >> ELSE Append(s, glue)) \o piece
         IN  t \in Word /\ Extends(t, s, glue, piece, Start(at, Len(at) + 1))
<1> DEFINE t == (IF at = << >> THEN << >> ELSE Append(s, glue)) \o piece
<1>1. CASE at = << >>
  <2>1. t = piece /\ Len(s) = 0 /\ Start(at, Len(at) + 1) = 0 BY <1>1 DEF Reach, Start, Word
  <2> QED BY <2>1 DEF Extends, Word
<1>2. CASE at # << >>
  <2>1. Start(at, Len(at) + 1) = Len(s) + 1 BY <1>2 DEF Reach, Start
  <2>0. Append(s, glue) \in Word /\ Len(Append(s, glue)) = Len(s) + 1 BY DEF Word
  <2>2. t = Append(s, glue) \o piece BY <1>2
  <2>3. t \in Word /\ Len(t) = (Len(s) + 1) + Len(piece) BY <2>0, <2>2 DEF Word
  <2>4. \A i \in 1..Len(s) : t[i] = s[i] BY <2>2 DEF Word
  <2>5. t[Len(s) + 1] = glue BY <2>2 DEF Word
  <2>6. \A i \in 1..Len(piece) : t[(Len(s) + 1) + i] = piece[i] BY <2>2 DEF Word
  <2>7. Len(s) \in Nat BY DEF Word
  <2> HIDE DEF t
  <2>8. Len(s) + 1 # 0 /\ Len(s) <= Len(s) + 1 BY <2>7
  <2>9. Extends(t, s, glue, piece, Len(s) + 1) BY <2>3, <2>4, <2>5, <2>6, <2>8, Zenon DEF Extends
  <2> QED BY <2>1, <2>3, <2>9, Zenon DEF t
<1> QED BY <1>1, <1>2

\* What is joined stays there, and the piece is joined to it.
IsLaid(parts, s, at, cuts, k) ==
  /\ at[k] = Start(at, k) + Len(parts[k])
  /\ Lies(parts[k], s, Start(at, k))
  /\ k > 1 => s[Start(at, k)] \in cuts

IsLaidOn(parts, t, at, glue) ==
  Laid(parts, t, Append(at, Len(t)), {glue}) /\ Len(t) = Reach(Append(at, Len(t)))
LEMMA LaidOn ==
  ASSUME NEW parts \in Seq(Word), NEW s \in Word, NEW t \in Word, NEW at \in Seq(Nat), NEW glue,
         Laid(parts, s, at, {glue}), Len(at) < Len(parts), Len(s) = Reach(at),
         Extends(t, s, glue, parts[Len(at) + 1], Start(at, Len(at) + 1))
  PROVE  IsLaidOn(parts, t, at, glue)
<1> DEFINE next == Append(at, Len(t))
           n == Len(at) + 1
<1>1. /\ Len(at) \in Nat /\ n \in Nat /\ Len(next) = n /\ next \in Seq(Nat) /\ next[n] = Len(t)
      /\ \A k \in 1..Len(at) : next[k] = at[k] /\ at[k] \in Nat
  OBVIOUS
<1>0. /\ Len(s) \in Nat /\ Len(t) \in Nat /\ n \in 1..Len(parts)
      /\ \A k \in 1..Len(parts) : parts[k] \in Word /\ Len(parts[k]) \in Nat
  <2>1. \A p \in Word : Len(p) \in Nat BY DEF Word
  <2>2. \A k \in 1..Len(parts) : parts[k] \in Word OBVIOUS
  <2>3. n \in 1..Len(parts) OBVIOUS
  <2> QED BY <2>1, <2>2, <2>3, Zenon
<1>2. \A k \in 1..n : Start(next, k) = Start(at, k) /\ Start(at, k) \in Nat BY <1>1 DEF Start
<1>3. Len(t) = Reach(next) BY <1>1 DEF Reach
<1> HIDE DEF next
<1>4. ASSUME NEW k \in 1..Len(at) PROVE IsLaid(parts, t, next, {glue}, k)
  <2>1. IsLaid(parts, s, at, {glue}, k) BY <1>4, Zenon DEF Laid, IsLaid
  <2>2. k \in 1..n /\ k \in Nat BY <1>1
  <2>3. Start(next, k) = Start(at, k) /\ next[k] = at[k] /\ Start(at, k) \in Nat BY <1>1, <1>2, <1>4, <2>2, Zenon
  <2>4. Len(parts[k]) \in Nat /\ Len(s) \in Nat /\ Len(t) \in Nat
    <3>1. k \in 1..Len(parts) BY <1>0, <2>2
    <3> QED BY <1>0, <3>1, Zenon
  <2>5. Len(s) <= Len(t) /\ \A i \in 1..Len(s) : t[i] = s[i]
    <3>1. Len(parts[n]) \in Nat /\ n \in 1..n BY <1>0
    <3>2. Start(at, n) \in Nat BY <1>2, <3>1, Zenon
    <3> QED BY <2>4, <3>1, <3>2 DEF Extends
  <2> DEFINE a == Start(at, k)
             m == Len(parts[k])
  <2>6. a + m <= Len(s) /\ \A i \in 1..m : s[a + i] = parts[k][i] BY <2>1, Zenon DEF IsLaid, Lies
  <2>7. k > 1 => a > 0 /\ s[a] = glue
    <3>1. k > 1 => k - 1 \in 1..Len(at) /\ k # 1 BY <1>1
    <3>2. k > 1 => a = at[k - 1] + 1 /\ at[k - 1] \in Nat BY <1>1, <3>1, Zenon DEF Start
    <3>3. k > 1 => a > 0 BY <3>2
    <3> QED BY <2>1, <3>3, Zenon DEF IsLaid
  <2>8. at[k] = a + m BY <2>1, Zenon DEF IsLaid
  <2> HIDE DEF a, m
  <2>9. a \in Nat /\ m \in Nat BY <2>3, <2>4 DEF a, m
  <2>10. a + m <= Len(t) /\ \A i \in 1..m : t[a + i] = parts[k][i]
    <3>1. a + m <= Len(t) /\ \A i \in 1..m : a + i \in 1..Len(s) BY <2>4, <2>5, <2>6, <2>9
    <3> QED BY <2>5, <2>6, <3>1, Zenon
  <2>11. k > 1 => t[a] = glue BY <2>4, <2>5, <2>6, <2>7, <2>9
  <2> QED BY <2>3, <2>8, <2>10, <2>11, Zenon DEF IsLaid, Lies, a, m
<1>5. IsLaid(parts, t, next, {glue}, n)
  <2>1. Start(next, n) = Start(at, n) /\ Start(at, n) \in Nat BY <1>1, <1>2
  <2>2. Len(t) = Start(at, n) + Len(parts[n]) /\ \A i \in 1..Len(parts[n]) : t[Start(at, n) + i] = parts[n][i]
    BY DEF Extends
  <2>3. n > 1 => Start(at, n) # 0 BY <1>1 DEF Start
  <2>4. n > 1 => t[Start(at, n)] = glue BY <2>3, Zenon DEF Extends
  <2>5. Len(t) <= Len(t) BY DEF Word
  <2> QED BY <1>1, <2>1, <2>2, <2>4, <2>5, Zenon DEF IsLaid, Lies
<1>6. \A k \in 1..Len(next) : IsLaid(parts, t, next, {glue}, k)
  <2>1. \A k \in 1..n : k \in 1..Len(at) \/ k = n BY <1>1
  <2> QED BY <1>1, <1>4, <1>5, <2>1, Zenon
<1> QED BY <1>3, <1>6, Zenon DEF Laid, IsLaid, IsLaidOn, next

\* Every character of t is one of s, the separator or one of the piece.
IsOf(t, i, s, glue, piece, start) ==
  \/ i \in 1..Len(s) /\ t[i] = s[i]
  \/ i = start /\ start # 0 /\ t[i] = glue
  \/ \E j \in 1..Len(piece) : i = start + j /\ t[i] = piece[j]
LEMMA CharacterOf ==
  ASSUME NEW s \in Word, NEW t \in Word, NEW glue, NEW piece \in Word, NEW start \in Nat,
         Extends(t, s, glue, piece, start), NEW i \in 1..Len(t)
  PROVE  IsOf(t, i, s, glue, piece, start)
<1>1. Len(s) \in Nat /\ Len(piece) \in Nat BY DEF Word
<1>2. Len(t) = start + Len(piece) BY DEF Extends
<1>3. CASE i \in 1..Len(s) BY <1>3, Zenon DEF Extends, IsOf
<1>4. CASE i \notin 1..Len(s) /\ i <= start
  <2>1. start # 0 /\ i > Len(s) BY <1>1, <1>4
  <2>2. start = Len(s) + 1 /\ t[start] = glue BY <2>1, Zenon DEF Extends
  <2> QED BY <1>1, <1>4, <2>1, <2>2 DEF IsOf
<1>5. CASE i > start
  <2>1. i - start \in 1..Len(piece) /\ i = start + (i - start) BY <1>1, <1>2, <1>5
  <2>2. t[start + (i - start)] = piece[i - start] BY <2>1, Zenon DEF Extends
  <2> QED BY <2>1, <2>2, Zenon DEF IsOf
<1> QED BY <1>3, <1>4, <1>5 DEF IsOf

LEMMA NoColonJoined ==
  ASSUME NEW s \in Word, NEW t \in Word, NEW glue \in Separator, NEW piece \in Word, NEW start \in Nat,
         Extends(t, s, glue, piece, start), HasNoColon(s), IsPart(piece)
  PROVE  HasNoColon(t)
<1>1. \A i \in 1..Len(t) : IsOf(t, i, s, glue, piece, start) BY CharacterOf, Zenon
<1>2. glue # ":" /\ ":" \in Separator \cup {":"} BY DEF Separator
<1>3. \A j \in 1..Len(piece) : piece[j] # ":" BY <1>2, Zenon DEF IsPart
<1> QED BY <1>1, <1>2, <1>3, Zenon DEF HasNoColon, IsOf

LEMMA CanonicalJoined ==
  ASSUME NEW s \in Word, NEW t \in Word, NEW piece \in Word, NEW start \in Nat,
         Extends(t, s, "/", piece, start), IsCanonical(s), IsCanonical(piece)
  PROVE  IsCanonical(t)
<1>1. \A i \in 1..Len(t) : IsOf(t, i, s, "/", piece, start) BY CharacterOf, Zenon
<1>2. Canonical("/") = "/" BY DEF Separator, Canonical
<1> QED BY <1>1, <1>2, Zenon DEF IsCanonical, IsOf

IsLike(piece, name, u, start) ==
  /\ Alike(piece, name) /\ Len(piece) = Len(name) /\ Lies(name, u, start)
  /\ start # 0 => u[start] \in Separator

LEMMA JoinedAlike ==
  ASSUME NEW s \in Word, NEW t \in Word, NEW glue \in Separator, NEW piece \in Word, NEW start \in Nat,
         Extends(t, s, glue, piece, start),
         NEW u, NEW name, Alike(s, u), IsLike(piece, name, u, start)
  PROVE  Alike(t, u)
<1>1. \A c \in Separator : Canonical(c) = "/" BY DEF Canonical
<1>2. \A j \in 1..Len(piece) : Canonical(piece[j]) = Canonical(u[start + j]) BY Zenon DEF Lies, Alike, IsLike
<1>3. \A i \in 1..Len(t) : IsOf(t, i, s, glue, piece, start) BY CharacterOf, Zenon
<1>4. start # 0 => u[start] \in Separator BY Zenon DEF IsLike
<1> QED BY <1>1, <1>2, <1>3, <1>4, Zenon DEF Alike, IsOf

-----------------------------------------------------------------------------
(* Splitting what was joined.                                              *)

IsIn(names, s, at, cuts, k) ==
  /\ IsLaid(names, s, at, cuts, k) /\ at[k] \in Nat /\ Start(at, k) \in Nat
  /\ names[k] \in Word /\ Len(names[k]) \in Nat \ {0} /\ at[k] = Start(at, k) + Len(names[k]) /\ at[k] <= Len(s)
LEMMA WholeFacts ==
  ASSUME NEW names \in Seq(Word), NEW s \in Word, NEW at \in Seq(Nat), NEW cuts, Whole(names, s, at, cuts),
         NEW k \in 1..Len(names)
  PROVE  IsIn(names, s, at, cuts, k)
<1>1. Len(at) = Len(names) /\ Len(names) \in Nat /\ at[k] \in Nat /\ names[k] \in Word BY DEF Whole
<1>2. IsLaid(names, s, at, cuts, k) BY <1>1, Zenon DEF Whole, Laid, IsLaid
<1>3. Start(at, k) \in Nat BY <1>1 DEF Start
<1>4. IsPart(names[k]) BY Zenon DEF Whole, AreNames
<1>5. Len(names[k]) \in Nat \ {0} BY <1>1, <1>4 DEF IsPart, Word
<1>6. at[k] = Start(at, k) + Len(names[k]) /\ at[k] <= Len(s) BY <1>2, Zenon DEF IsLaid, Lies
<1> QED BY <1>1, <1>2, <1>3, <1>5, <1>6, Zenon DEF IsIn

LEMMA WholeIsAccepted ==
  ASSUME NEW names \in Seq(Word), NEW s \in Word, NEW at \in Seq(Nat), NEW cuts, Whole(names, s, at, cuts)
  PROVE  ~Refused(s)
<1>1. 1 \in 1..Len(names) BY DEF Whole, AreNames
<1>2. /\ IsLaid(names, s, at, cuts, 1) /\ Len(names[1]) \in Nat \ {0} /\ at[1] \in Nat
      /\ at[1] = Start(at, 1) + Len(names[1]) /\ at[1] <= Len(s)
  <2>1. IsIn(names, s, at, cuts, 1) BY <1>1, WholeFacts, Zenon
  <2> QED BY <2>1, Zenon DEF IsIn
<1>3. Start(at, 1) = 0 BY DEF Start
<1>4. Len(s) > 0 /\ s # << >> /\ 1 \in 1..Len(names[1]) BY <1>2, <1>3 DEF Word
<1>5. s[0 + 1] = names[1][1] BY <1>2, <1>3, <1>4, Zenon DEF IsLaid, Lies
<1>6. names[1][1] \notin Separator BY <1>1, <1>4, Zenon DEF Whole, AreNames, IsPart
<1>7. \A i \in DOMAIN s : s[i] # ":"
  <2>1. DOMAIN s = 1..Len(s) BY DEF Word
  <2> QED BY <2>1, Zenon DEF Whole, HasNoColon
<1>8. ~(Len(s) > MaxPathLength) BY PathsAssumption DEF Whole, Word
<1> QED BY <1>4, <1>5, <1>6, <1>7, <1>8 DEF Refused

\* The first cut behind the start of a name is where it ends.
IsFirstCut(s, cuts, a, end) ==
  /\ end \in a + 1..Len(s) + 1
  /\ end \in DOMAIN s => s[end] \in cuts
  /\ \A i \in a + 1..end - 1 : ~(i \in DOMAIN s => s[i] \in cuts)

IsFound(names, s, at, k, end) ==
  /\ end = at[k] + 1 /\ end # Start(at, k) + 1
  /\ SubSeq(s, Start(at, k) + 1, end - 1) = names[k]

LEMMA AsFunction ==
  ASSUME NEW word \in Word
  PROVE  word = [i \in 1..Len(word) |-> word[i]]
BY DEF Word

LEMMA PieceFound ==
  ASSUME NEW names \in Seq(Word), NEW s \in Word, NEW at \in Seq(Nat), NEW cuts \in SUBSET Separator,
         Whole(names, s, at, cuts), NEW k \in 1..Len(names), NEW end, IsFirstCut(s, cuts, Start(at, k), end)
  PROVE  IsFound(names, s, at, k, end)
<1> DEFINE a == Start(at, k)
           m == Len(names[k])
<1>1. /\ IsLaid(names, s, at, cuts, k) /\ at[k] \in Nat /\ a \in Nat /\ names[k] \in Word
      /\ m \in Nat \ {0} /\ at[k] = a + m /\ at[k] <= Len(s)
  BY WholeFacts, Zenon DEF IsIn
<1>2. DOMAIN s = 1..Len(s) /\ Len(s) \in Nat /\ k \in Nat /\ Len(names) \in Nat BY DEF Word
<1>3. \A i \in 1..m : s[a + i] = names[k][i] BY <1>1, Zenon DEF IsLaid, Lies
<1>4. \A i \in 1..m : s[a + i] \notin cuts
  <2>1. IsPart(names[k]) BY Zenon DEF Whole, AreNames
  <2>2. \A i \in 1..m : names[k][i] \notin Separator BY <2>1, Zenon DEF IsPart
  <2> QED BY <1>3, <2>2, Zenon
<1>5. at[k] + 1 \in DOMAIN s => s[at[k] + 1] \in cuts
  <2>1. CASE k = Len(names)
    <3>1. Len(s) = at[k]
      <4>1. Len(at) = Len(names) /\ Len(s) = Reach(at) BY DEF Whole
      <4>2. at # << >> BY <1>2, <2>1, <4>1
      <4> QED BY <2>1, <4>1, <4>2, Zenon DEF Reach
    <3> QED BY <1>2, <3>1
  <2>2. CASE k # Len(names)
    <3>1. k + 1 \in 1..Len(names) /\ k + 1 > 1 /\ k + 1 # 1 /\ (k + 1) - 1 = k BY <1>2, <2>2
    <3>2. IsLaid(names, s, at, cuts, k + 1) BY <3>1, WholeFacts, Zenon DEF IsIn
    <3>3. Start(at, k + 1) = at[k] + 1 BY <3>1 DEF Start
    <3> QED BY <3>1, <3>2, <3>3, Zenon DEF IsLaid
  <2> QED BY <2>1, <2>2
<1> HIDE DEF a, m
<1>6. end \in Nat /\ end >= a + 1 /\ end <= Len(s) + 1 BY <1>1, <1>2 DEF IsFirstCut, a
<1>7. end >= at[k] + 1
  <2> SUFFICES ASSUME end < at[k] + 1 PROVE FALSE BY <1>1, <1>6
  <2>1. end - a \in 1..m /\ a + (end - a) = end /\ end \in DOMAIN s BY <1>1, <1>2, <1>6
  <2> QED BY <1>4, <2>1 DEF IsFirstCut
<1>8. end <= at[k] + 1
  <2> SUFFICES ASSUME end > at[k] + 1 PROVE FALSE BY <1>1, <1>6
  <2>1. at[k] + 1 \in a + 1..end - 1 BY <1>1, <1>6
  <2> QED BY <1>5, <2>1 DEF IsFirstCut, a
<1>9. end = at[k] + 1 /\ end # a + 1 BY <1>1, <1>6, <1>7, <1>8
<1>10. SubSeq(s, a + 1, a + m) = names[k]
  <2> DEFINE p == SubSeq(s, a + 1, a + m)
  <2>1. p \in Word /\ Len(p) = m /\ \A i \in 1..m : p[i] = s[a + i] BY <1>1, <1>2 DEF Word
  <2> HIDE DEF p
  <2>2. p = [i \in 1..m |-> p[i]] BY <2>1, AsFunction, Zenon
  <2>3. names[k] = [i \in 1..m |-> names[k][i]] BY <1>1, AsFunction, Zenon DEF m
  <2> QED BY <1>3, <2>1, <2>2, <2>3, Zenon DEF p
<1>11. end - 1 = a + m BY <1>1, <1>9
<1> QED BY <1>9, <1>10, <1>11, Zenon DEF IsFound, a

-----------------------------------------------------------------------------
(* The steps.                                                              *)

LEMMA Cuts == Separators \in SUBSET Separator /\ Glue \in Separator /\ Glue \in PathCharacter
BY DEF Separators, Glue, Separator, PathCharacter

LEMMA PieceOf ==
  ASSUME NEW s \in Word, NEW a \in Nat \ {0}, NEW end \in a..Len(s) + 1
  PROVE  /\ SubSeq(s, a, end - 1) \in Word /\ Len(SubSeq(s, a, end - 1)) = end - a
         /\ \A i \in 1..end - a : SubSeq(s, a, end - 1)[i] = s[(a + i) - 1] /\ (a + i) - 1 \in a..end - 1 /\ (a + i) - 1 \in 1..Len(s)
<1>1. Len(s) \in Nat /\ end \in Nat BY DEF Word
<1> QED BY <1>1 DEF Word

LEMMA FitOn ==
  ASSUME NEW parts \in Seq(Word), NEW at \in Seq(Nat), Len(at) = Len(parts), NEW limit \in Int, Fit(parts, at, limit),
         NEW piece \in Word, NEW place \in Nat, Start(at, Len(at) + 1) + Len(piece) <= place, limit <= place
  PROVE  Fit(Append(parts, piece), Append(at, place), place)
<1> DEFINE n == Len(at) + 1
           some == Append(parts, piece)
           next == Append(at, place)
<1>1. /\ Len(at) \in Nat /\ n \in Nat /\ Len(next) = n /\ next[n] = place /\ some[n] = piece
      /\ \A k \in 1..Len(at) : next[k] = at[k] /\ at[k] \in Nat /\ some[k] = parts[k]
  OBVIOUS
<1>2. \A k \in 1..n : Start(next, k) = Start(at, k) /\ Start(at, k) \in Nat BY <1>1 DEF Start
<1> HIDE DEF next, some
<1>3. ASSUME NEW k \in 1..Len(at) PROVE Start(next, k) + Len(some[k]) <= next[k] /\ next[k] <= place
  <2>1. k \in 1..n BY <1>1
  <2>2. Start(next, k) = Start(at, k) /\ next[k] = at[k] /\ some[k] = parts[k] /\ at[k] \in Nat
    BY <1>1, <1>2, <1>3, <2>1, Zenon
  <2>3. Start(at, k) + Len(parts[k]) <= at[k] /\ at[k] <= limit BY <1>3, Zenon DEF Fit
  <2> QED BY <2>2, <2>3
<1>4. Start(next, n) + Len(some[n]) <= next[n] /\ next[n] <= place
  BY <1>1, <1>2
<1>5. \A k \in 1..n : k \in 1..Len(at) \/ k = n BY <1>1
<1> QED BY <1>1, <1>3, <1>4, <1>5, Zenon DEF Fit, next, some

\* The split of an input.
LEMMA InputPiece ==
  ASSUME PathsInv, stage = "splitting", FromInput, NEW end \in from..Len(text) + 1, \A i \in from..end - 1 : ~IsCut(i), end # from
  PROVE  LET piece == SubSeq(text, from, end - 1)
         IN  IsPart(piece) /\ Fit(Append(pieces, piece), Append(places, end - 1), end - 1)
<1> DEFINE piece == SubSeq(text, from, end - 1)
<1>1. /\ text \in Word /\ from \in Nat \ {0} /\ pieces \in Seq(Word) /\ places \in Seq(Nat)
      /\ Len(places) = Len(pieces) /\ HasNoColon(text) /\ Fit(pieces, places, from - 2)
  BY DEF PathsInv, PathsTypeOK, SplitInv
<1>2. /\ piece \in Word /\ Len(piece) = end - from
      /\ \A i \in 1..end - from : piece[i] = text[(from + i) - 1] /\ (from + i) - 1 \in from..end - 1 /\ (from + i) - 1 \in 1..Len(text)
  BY <1>1, PieceOf, Zenon
<1> HIDE DEF piece
<1>3. IsPart(piece)
  <2>1. \A i \in 1..Len(text) : text[i] # ":" BY <1>1, Zenon DEF HasNoColon
  <2>2. Separators = Separator /\ DOMAIN text = 1..Len(text) BY <1>1 DEF FromInput, Separators, Word
  <2>3. \A i \in from..end - 1 : i \in 1..Len(text) => text[i] \notin Separator BY <2>2, Zenon DEF IsCut
  <2>4. \A i \in 1..Len(piece) : piece[i] \notin Separator /\ piece[i] # ":" BY <1>2, <2>1, <2>3, Zenon
  <2>5. piece # << >> BY <1>1, <1>2
  <2> QED BY <2>4, <2>5 DEF IsPart
<1>4. Start(places, Len(places) + 1) + Len(piece) <= end - 1 /\ from - 2 \in Int /\ from - 2 <= end - 1 /\ end - 1 \in Nat
  <2>1. end - 1 \in Nat /\ from - 2 <= end - 1 /\ from - 2 \in Int /\ Len(places) \in Nat BY <1>1
  <2>2. Start(places, Len(places) + 1) \in Nat /\ Start(places, Len(places) + 1) <= from - 1
    <3>1. CASE Len(places) = 0 BY <1>1, <3>1 DEF Start
    <3>2. CASE Len(places) # 0
      <4>1. Len(places) \in 1..Len(places) /\ places[Len(places)] \in Nat BY <1>1, <3>2
      <4>2. places[Len(places)] <= from - 2 BY <1>1, <4>1, Zenon DEF Fit
      <4>3. Start(places, Len(places) + 1) = places[Len(places)] + 1 BY <2>1, <3>2 DEF Start
      <4> QED BY <1>1, <4>1, <4>2, <4>3
    <3> QED BY <3>1, <3>2
  <2> QED BY <1>1, <1>2, <2>1, <2>2
<1>5. Fit(Append(pieces, piece), Append(places, end - 1), end - 1) BY <1>1, <1>2, <1>4, FitOn, Zenon
<1> QED BY <1>3, <1>5, Zenon DEF piece

\* The split of what was joined.
LEMMA JoinedPiece ==
  ASSUME PathsInv, stage = "splitting", ~FromInput, NEW end \in from..Len(text) + 1,
         IsCut(end), \A i \in from..end - 1 : ~IsCut(i)
  PROVE  LET k == Len(pieces) + 1
         IN  /\ k \in 1..Len(last.names) /\ end # from /\ SubSeq(text, from, end - 1) = last.names[k]
             /\ end + 1 = Start(last.ends, k + 1) + 1
<1> DEFINE k == Len(pieces) + 1
           names == last.names
           at == last.ends
<1>1. /\ text \in Word /\ from \in Nat \ {0} /\ pieces \in Seq(Word)
      /\ names \in Seq(Word) /\ at \in Seq(Nat) /\ text = last.text
      /\ Whole(names, text, at, Separators) /\ Following
  BY DEF PathsInv, PathsTypeOK, SplitInv, LastInv
<1>2. Len(pieces) <= Len(names) /\ from = Start(at, k) + 1 /\ Len(text) \in Nat /\ Len(pieces) \in Nat /\ Len(names) \in Nat
  BY <1>1 DEF Following, Word
<1> HIDE DEF names, at
<1>3. k \in 1..Len(names)
  <2> SUFFICES ASSUME Len(pieces) = Len(names) PROVE FALSE BY <1>2
  <2>1. Len(at) = Len(names) /\ Len(text) = Reach(at) /\ Len(names) > 0 BY <1>1, <1>2 DEF Whole, AreNames
  <2>2. at # << >> /\ k # 1 /\ k - 1 = Len(at) /\ at[Len(at)] \in Nat BY <1>1, <1>2, <2>1
  <2>3. from = (at[Len(at)] + 1) + 1 BY <1>2, <2>2 DEF Start
  <2> QED BY <1>2, <2>1, <2>2, <2>3 DEF Reach
<1>4. IsIn(names, text, at, Separators, k) BY <1>1, <1>3, WholeFacts, Zenon
<1>5. IsFirstCut(text, Separators, Start(at, k), end)
  <2>1. Start(at, k) \in Nat BY <1>4, Zenon DEF IsIn
  <2>2. end \in Start(at, k) + 1..Len(text) + 1 BY <1>2
  <2>3. \A i \in Start(at, k) + 1..end - 1 : ~IsCut(i) BY <1>2
  <2> QED BY <2>2, <2>3, Zenon DEF IsFirstCut, IsCut
<1>6. end = at[k] + 1 /\ end # Start(at, k) + 1 /\ SubSeq(text, Start(at, k) + 1, end - 1) = names[k]
  <2>1. IsFound(names, text, at, k, end) BY <1>1, <1>3, <1>5, Cuts, PieceFound, Zenon
  <2> QED BY <2>1, Zenon DEF IsFound
<1>7. Start(at, k + 1) = at[k] + 1 BY <1>2, <1>3 DEF Start
<1> QED BY <1>2, <1>3, <1>6, <1>7, Zenon DEF names, at

LEMMA NextPieceKeeps == PathsInv /\ NextPiece => PathsInv'
<1> SUFFICES ASSUME PathsInv, NextPiece PROVE PathsInv' OBVIOUS
<1>0. /\ stage = "splitting" /\ stage' = stage /\ operation' = operation /\ text' = text /\ display' = display
      /\ joined' = joined /\ ends' = ends /\ origin' = origin /\ path' = path /\ last' = last
  BY DEF NextPiece, join, past
<1>1. PICK end \in from..Len(text) + 1 :
         /\ IsCut(end) /\ \A i \in from..end - 1 : ~IsCut(i)
         /\ from' = end + 1
         /\ IF operation = "parse" /\ end = from
            THEN UNCHANGED <<pieces, places>>
            ELSE /\ pieces' = Append(pieces, SubSeq(text, from, end - 1))
                 /\ places' = Append(places, end - 1)
  BY DEF NextPiece
<1>2. PathsTypeOK /\ SplitInv BY <1>0 DEF PathsInv
<1>3. text \in Word /\ from \in Nat \ {0} /\ pieces \in Seq(Word) /\ places \in Seq(Nat) /\ Len(text) \in Nat
  BY <1>2 DEF PathsTypeOK, Word
<1>4. end \in Nat \ {0} /\ end - 1 \in Nat /\ from' \in Nat \ {0} /\ from' <= Len(text) + 2 /\ from' - 2 = end - 1 /\ from - 2 <= end - 1
  BY <1>1, <1>3
<1>5. CASE operation = "parse" /\ end = from
  <2>1. pieces' = pieces /\ places' = places BY <1>1, <1>5
  <2>2. FromInput BY <1>0, <1>1, <1>5, JoinedPiece, Zenon
  <2>3. Fit(pieces, places, from - 2) /\ \A k \in 1..Len(pieces) : IsPart(pieces[k]) BY <1>2, <2>2, Zenon DEF SplitInv
  <2>4. Fit(pieces, places, end - 1)
    <3>1. \A k \in 1..Len(places) : places[k] \in Nat BY <1>3
    <3>2. \A k \in 1..Len(places) : places[k] <= from - 2 => places[k] <= end - 1 BY <1>3, <1>4, <3>1
    <3> QED BY <2>3, <3>2, Zenon DEF Fit
  <2>5. SplitInv' BY <1>0, <1>2, <1>4, <2>1, <2>2, <2>3, <2>4, Zenon DEF SplitInv, FromInput
  <2>6. PathsTypeOK' BY <1>0, <1>2, <1>4, <2>1 DEF PathsTypeOK
  <2> QED BY <1>0, <2>2, <2>5, <2>6 DEF PathsInv, FromInput
<1>6. CASE ~(operation = "parse" /\ end = from)
  <2> DEFINE piece == SubSeq(text, from, end - 1)
  <2>1. pieces' = Append(pieces, piece) /\ places' = Append(places, end - 1) BY <1>1, <1>6
  <2>2. piece \in Word BY <1>1, <1>3, PieceOf, Zenon
  <2> HIDE DEF piece
  <2>3. /\ pieces' \in Seq(Word) /\ places' \in Seq(Nat) /\ Len(pieces') = Len(pieces) + 1 /\ Len(places') = Len(places) + 1
        /\ Len(pieces) \in Nat /\ pieces'[Len(pieces) + 1] = piece /\ \A k \in 1..Len(pieces) : pieces'[k] = pieces[k]
        /\ \A k \in 1..Len(pieces') : k \in 1..Len(pieces) \/ k = Len(pieces) + 1
    BY <1>3, <1>4, <2>1, <2>2
  <2>4. PathsTypeOK' BY <1>0, <1>2, <1>4, <2>3 DEF PathsTypeOK
  <2>5. Len(places') = Len(pieces') BY <1>2, <2>3 DEF SplitInv
  <2>6. CASE FromInput
    <3>1. end # from BY <1>6, <2>6 DEF FromInput
    <3>2. IsPart(piece) /\ Fit(pieces', places', end - 1)
      BY <1>0, <1>1, <2>1, <2>6, <3>1, InputPiece, Zenon DEF piece
    <3>3. \A k \in 1..Len(pieces) : IsPart(pieces[k]) BY <1>2, <2>6, Zenon DEF SplitInv
    <3>4. \A k \in 1..Len(pieces') : IsPart(pieces'[k]) BY <2>3, <3>2, <3>3, Zenon
    <3>5. SplitInv' BY <1>0, <1>2, <1>4, <2>5, <2>6, <3>2, <3>4, Zenon DEF SplitInv, FromInput
    <3> QED BY <1>0, <2>4, <2>6, <3>5 DEF PathsInv, FromInput
  <2>7. CASE ~FromInput
    <3>1. /\ Len(pieces) + 1 \in 1..Len(last.names) /\ piece = last.names[Len(pieces) + 1]
          /\ end + 1 = Start(last.ends, (Len(pieces) + 1) + 1) + 1
      BY <1>0, <1>1, <2>7, JoinedPiece, Zenon DEF piece
    <3>2. Following /\ text = last.text BY <1>2, <2>7, Zenon DEF SplitInv
    <3>3. \A k \in 1..Len(pieces') : pieces'[k] = last.names[k] BY <2>3, <3>1, <3>2, Zenon DEF Following
    <3>4. Len(pieces') <= Len(last.names) BY <2>3, <3>1
    <3>5. Following' BY <1>0, <1>1, <2>3, <3>1, <3>3, <3>4 DEF Following
    <3>6. SplitInv' BY <1>0, <1>2, <1>4, <2>5, <2>7, <3>2, <3>5 DEF SplitInv, FromInput
    <3>7. LastInv' BY <1>0, <2>7 DEF PathsInv, LastInv, Separators
    <3>8. origin # "input" => AgainInv' BY <1>0, Zenon DEF PathsInv, AgainInv, NamesOf, Goal
    <3>9. operation # "parse" => DerivedInv' BY <1>0 DEF PathsInv, DerivedInv
    <3> QED BY <1>0, <2>4, <2>7, <3>6, <3>7, <3>8, <3>9 DEF PathsInv, FromInput
  <2> QED BY <2>6, <2>7
<1> QED BY <1>5, <1>6

\* A split that ended has found all the names.
LEMMA AllFound == PathsInv /\ IsSplit /\ ~FromInput => pieces = last.names
<1> SUFFICES ASSUME PathsInv, IsSplit, ~FromInput PROVE pieces = last.names OBVIOUS
<1> DEFINE k == Len(pieces) + 1
           names == last.names
           at == last.ends
<1>1. /\ text \in Word /\ from \in Nat \ {0} /\ pieces \in Seq(Word) /\ from > Len(text) + 1
      /\ names \in Seq(Word) /\ at \in Seq(Nat) /\ Whole(names, text, at, Separators) /\ Following
  BY DEF PathsInv, PathsTypeOK, SplitInv, LastInv, IsSplit
<1>2. /\ Len(pieces) <= Len(names) /\ from = Start(at, k) + 1 /\ Len(text) \in Nat /\ Len(pieces) \in Nat /\ Len(names) \in Nat
      /\ \A i \in 1..Len(pieces) : pieces[i] = names[i]
  BY <1>1 DEF Following, Word
<1> HIDE DEF names, at
<1>3. Len(pieces) = Len(names)
  <2> SUFFICES ASSUME Len(pieces) < Len(names) PROVE FALSE BY <1>2
  <2>1. k \in 1..Len(names) BY <1>2
  <2>2. IsIn(names, text, at, Separators, k) BY <1>1, <2>1, WholeFacts, Zenon
  <2>3. Start(at, k) \in Nat /\ Len(names[k]) \in Nat \ {0} /\ at[k] = Start(at, k) + Len(names[k]) /\ at[k] <= Len(text)
    BY <2>2, Zenon DEF IsIn
  <2> QED BY <1>1, <1>2, <2>3
<1>4. pieces = [i \in 1..Len(pieces) |-> pieces[i]] /\ names = [i \in 1..Len(names) |-> names[i]] BY <1>1
<1> QED BY <1>2, <1>3, <1>4, Zenon DEF names

LEMMA NothingJoined ==
  /\ << >> \in Word /\ << >> \in Seq(Nat) /\ Len(<< >>) = 0 /\ Reach(<< >>) = 0
  /\ \A parts, cuts : Laid(parts, << >>, << >>, cuts)
  /\ HasNoColon(<< >>) /\ IsCanonical(<< >>)
  /\ \A s : Alike(<< >>, s)
<1>1. 1..0 = {} /\ Len(<< >>) = 0 OBVIOUS
<1>2. \A i : i \notin 1..Len(<< >>) BY <1>1
<1>3. << >> \in Word /\ << >> \in Seq(Nat) BY DEF Word
<1>4. Reach(<< >>) = 0 BY DEF Reach
<1> QED BY <1>1, <1>2, <1>3, <1>4, Zenon DEF Laid, HasNoColon, IsCanonical, Alike

\* What a join that has just begun needs.
Begins ==
  /\ pieces \in Seq(Word) /\ AreNames(pieces)
  /\ operation # "display_path" => \A k \in 1..Len(pieces) : IsCanonical(pieces[k])
  /\ IF FromInput THEN Len(places) = Len(pieces) /\ Fit(pieces, places, MaxPathLength)
     ELSE /\ Len(pieces) <= Len(last.names)
          /\ \A k \in 1..Len(pieces) : Len(pieces[k]) = Len(last.names[k]) /\ Alike(pieces[k], last.names[k])

BeginsNow == stage = "joining" /\ joined = << >> /\ ends = << >> /\ Begins

LEMMA JoinBegins ==
  BeginsNow => JoinInv /\ joined \in Word /\ ends \in Seq(Nat)
<1> SUFFICES ASSUME BeginsNow PROVE JoinInv /\ joined \in Word /\ ends \in Seq(Nat) OBVIOUS
<1>0. stage = "joining" /\ joined = << >> /\ ends = << >> /\ Begins BY DEF BeginsNow
<1>1. pieces \in Seq(Word) /\ AreNames(pieces) BY <1>0 DEF Begins
<1>2. Len(ends) = 0 /\ Len(ends) <= Len(pieces) /\ \A k : k \notin 1..Len(ends) BY <1>0, <1>1
<1>3. Laid(pieces, joined, ends, {Glue}) /\ Len(joined) = Reach(ends) /\ HasNoColon(joined) /\ IsCanonical(joined)
  BY <1>0, NothingJoined, Zenon
<1>4. Alike(joined, last.text) BY <1>0, NothingJoined, Zenon
<1>5. "joining" # "done" OBVIOUS
<1> QED BY <1>0, <1>1, <1>2, <1>3, <1>4, <1>5, NothingJoined, Zenon DEF JoinInv, Begins

LEMMA CheckNamesKeeps == PathsInv /\ CheckNames => PathsInv'
<1> SUFFICES ASSUME PathsInv, CheckNames PROVE PathsInv' OBVIOUS
<1>0. /\ stage = "splitting" /\ stage' = "joining" /\ operation = "parse" /\ operation' = operation /\ text' = text /\ display' = pieces
      /\ from' = from /\ places' = places /\ origin' = origin /\ path' = path /\ last' = last
      /\ IsSplit /\ IsValid /\ BeginJoin(LookupNames(pieces))
  BY DEF CheckNames, IsSplit, past, BeginJoin
<1>1. PathsTypeOK /\ SplitInv BY <1>0 DEF PathsInv
<1>2. /\ text \in Word /\ from \in Nat \ {0} /\ pieces \in Seq(Word) /\ places \in Seq(Nat) /\ Len(text) \in Nat /\ Len(pieces) \in Nat
      /\ DOMAIN pieces = 1..Len(pieces)
  BY <1>1 DEF PathsTypeOK, Word
<1>3. AreNames(pieces)
  <2>1. CASE FromInput
    <3>1. \A k \in 1..Len(pieces) : IsPart(pieces[k]) BY <1>1, <2>1, Zenon DEF SplitInv
    <3> QED BY <1>0, <1>2, <3>1, Zenon DEF IsValid, AreNames
  <2>2. CASE ~FromInput
    <3>1. LastInv BY <2>2, Zenon DEF PathsInv
    <3> QED BY <1>0, <2>2, <3>1, AllFound, Zenon DEF LastInv, Whole
  <2> QED BY <2>1, <2>2
<1> DEFINE low == LookupNames(pieces)
<1>4. /\ low \in Seq(Word) /\ Len(low) = Len(pieces) /\ AreNames(low)
      /\ \A k \in 1..Len(pieces) : Len(low[k]) = Len(pieces[k]) /\ IsCanonical(low[k]) /\ Alike(low[k], pieces[k])
  BY <1>2, <1>3, LookupFacts, Zenon
<1> HIDE DEF low
<1>5. FromInput => Len(places) = Len(low) /\ Fit(low, places, MaxPathLength)
  <2> SUFFICES ASSUME FromInput PROVE Len(places) = Len(low) /\ Fit(low, places, MaxPathLength) OBVIOUS
  <2>1. Len(places) = Len(pieces) /\ from <= Len(text) + 2 /\ Len(text) <= MaxPathLength /\ Fit(pieces, places, from - 2)
    BY <1>1, Zenon DEF SplitInv
  <2>2. \A k \in 1..Len(places) : places[k] \in Nat BY <1>2
  <2>3. \A k \in 1..Len(places) : places[k] <= from - 2 => places[k] <= MaxPathLength
    BY <1>2, <2>1, <2>2, PathsAssumption
  <2> QED BY <1>4, <2>1, <2>3, Zenon DEF Fit
<1>6. ~FromInput => pieces = last.names BY <1>0, AllFound, Zenon
<1>7. pieces' = low /\ joined' = << >> /\ ends' = << >> BY <1>0 DEF BeginJoin, low
<1>8. FromInput' <=> FromInput BY <1>0 DEF FromInput
<1>9. BeginsNow'
  <2>1. CASE FromInput BY <1>0, <1>4, <1>5, <1>7, <1>8, <2>1 DEF Begins, BeginsNow
  <2>2. CASE ~FromInput BY <1>0, <1>4, <1>6, <1>7, <1>8, <2>2 DEF Begins, BeginsNow
  <2> QED BY <2>1, <2>2
<1>10. (JoinInv /\ joined \in Word /\ ends \in Seq(Nat))' BY <1>9, JoinBegins, PTL
<1>11. PathsTypeOK' BY <1>0, <1>1, <1>4, <1>7, <1>10 DEF PathsTypeOK
<1>12. ~FromInput => LastInv' BY <1>0 DEF PathsInv, LastInv, Separators
<1>13. origin # "input" => AgainInv'
  <2> SUFFICES ASSUME origin # "input" PROVE AgainInv' OBVIOUS
  <2>1. AgainInv /\ display' = last.names BY <1>0, <1>6, Zenon DEF PathsInv, FromInput
  <2> QED BY <1>0, <1>7, <2>1, Zenon DEF AgainInv, NamesOf, Goal, low
<1>14. AreNames(display') /\ pieces' = LookupNames(display') BY <1>0, <1>3, <1>7, Zenon DEF low
<1> QED BY <1>0, <1>8, <1>10, <1>11, <1>12, <1>13, <1>14 DEF PathsInv

LEMMA RefuseNamesKeeps == PathsInv /\ RefuseNames => PathsInv'
<1> SUFFICES ASSUME PathsInv, RefuseNames PROVE PathsInv' OBVIOUS
<1>0. /\ stage' = "refused" /\ operation = "parse" /\ operation' = operation /\ text' = text /\ display' = display
      /\ from' = from /\ places' = places /\ pieces' = pieces /\ joined' = joined /\ ends' = ends
      /\ origin' = origin /\ path' = path /\ last' = last
      /\ IsSplit /\ ~IsValid
  BY DEF RefuseNames, split, join, past
<1>1. FromInput
  <2> SUFFICES ASSUME ~FromInput PROVE FALSE OBVIOUS
  <2>1. LastInv /\ PathsTypeOK BY Zenon DEF PathsInv
  <2>2. AreNames(pieces) BY <1>0, <2>1, AllFound, Zenon DEF LastInv, Whole
  <2>3. DOMAIN pieces = 1..Len(pieces) BY <2>1 DEF PathsTypeOK
  <2> QED BY <1>0, <2>2, <2>3, Zenon DEF IsValid, AreNames
<1>2. PathsTypeOK' BY <1>0, Zenon DEF PathsInv, PathsTypeOK
<1> QED BY <1>0, <1>1, <1>2 DEF PathsInv, FromInput

\* The join of an input's names has room for the next one.
LEMMA JoinHasRoom ==
  ASSUME NEW n \in Nat \ {0}, NEW at \in Seq(Nat), Len(at) + 1 = n, NEW room \in Seq(Nat), n <= Len(room),
         \A k \in 1..Len(at) : at[k] <= room[k]
  PROVE  Start(at, n) <= Start(room, n) /\ Start(at, n) \in Nat /\ Start(room, n) \in Nat
<1>1. CASE n = 1 BY <1>1 DEF Start
<1>2. CASE n # 1
  <2>1. n - 1 \in 1..Len(at) /\ at[n - 1] \in Nat /\ room[n - 1] \in Nat BY <1>2
  <2>2. at[n - 1] <= room[n - 1] BY <2>1
  <2>3. Start(at, n) = at[n - 1] + 1 /\ Start(room, n) = room[n - 1] + 1 BY <1>2, Zenon DEF Start
  <2>4. \A x, y \in Nat : x <= y => x + 1 <= y + 1 /\ x + 1 \in Nat /\ y + 1 \in Nat OBVIOUS
  <2> QED BY <2>1, <2>2, <2>3, <2>4, Zenon
<1> QED BY <1>1, <1>2

IsAppended(t, s, x) ==
  /\ t \in Seq(Nat) /\ Len(t) = Len(s) + 1 /\ t[Len(s) + 1] = x
  /\ \A k \in 1..Len(s) : t[k] = s[k]
LEMMA AppendFacts == \A s \in Seq(Nat), x \in Nat : IsAppended(Append(s, x), s, x)
BY DEF IsAppended

LEMMA JoinPieceKeeps == PathsInv /\ JoinPiece => PathsInv'
<1> SUFFICES ASSUME PathsInv, JoinPiece PROVE PathsInv' OBVIOUS
<1> DEFINE n == Len(ends) + 1
           piece == pieces[n]
           start == Start(ends, n)
<1>0. /\ stage = "joining" /\ stage' = stage /\ operation' = operation /\ text' = text /\ display' = display
      /\ from' = from /\ places' = places /\ pieces' = pieces
      /\ origin' = origin /\ path' = path /\ last' = last
      /\ Len(ends) < Len(pieces)
      /\ joined' = (IF ends = << >> THEN << >> ELSE Append(joined, Glue)) \o pieces[Len(ends) + 1]
      /\ ends' = Append(ends, Len(joined'))
  BY DEF JoinPiece, split, past
<1>1. PathsTypeOK /\ JoinInv BY <1>0 DEF PathsInv
<1>2. /\ joined \in Word /\ pieces \in Seq(Word) /\ ends \in Seq(Nat) /\ places \in Seq(Nat) /\ last.ends \in Seq(Nat)
      /\ last.names \in Seq(Word) /\ last.text \in Word
  BY <1>1 DEF PathsTypeOK
<1>3. Len(ends) \in Nat /\ n \in Nat \ {0} /\ n \in 1..Len(pieces) /\ piece \in Word BY <1>0, <1>2
<1>4. /\ AreNames(pieces) /\ Laid(pieces, joined, ends, {Glue}) /\ Len(joined) = Reach(ends) /\ HasNoColon(joined)
      /\ operation # "display_path" => IsCanonical(joined) /\ \A k \in 1..Len(pieces) : IsCanonical(pieces[k])
  BY <1>1, Zenon DEF JoinInv
<1>5. joined' \in Word /\ Extends(joined', joined, Glue, piece, start)
  BY <1>0, <1>2, <1>3, <1>4, Cuts, Glued, Zenon
<1> HIDE DEF n, piece, start
<1>6. Laid(pieces, joined', ends', {Glue}) /\ Len(joined') = Reach(ends')
  <2>1. IsLaidOn(pieces, joined', ends, Glue) BY <1>0, <1>2, <1>4, <1>5, LaidOn, Zenon DEF n, piece, start
  <2> QED BY <1>0, <2>1, Zenon DEF IsLaidOn
<1>7. start \in Nat /\ Len(joined') \in Nat /\ Len(piece) \in Nat /\ Len(joined') = start + Len(piece)
  <2>1. start \in Nat BY <1>2, <1>3 DEF Start, start, n
  <2> QED BY <1>3, <1>5, <2>1 DEF Extends, Word
<1>8. /\ ends' \in Seq(Nat) /\ Len(ends') = n /\ ends'[n] = Len(joined') /\ n <= Len(pieces)
      /\ \A k \in 1..Len(ends) : ends'[k] = ends[k] /\ k \in 1..Len(pieces)
      /\ \A k \in 1..n : k \in 1..Len(ends) \/ k = n
  <2>1. IsAppended(ends', ends, Len(joined')) BY <1>0, <1>2, <1>7, AppendFacts, Zenon
  <2>2. /\ ends' \in Seq(Nat) /\ Len(ends') = n /\ ends'[n] = Len(joined')
        /\ \A k \in 1..Len(ends) : ends'[k] = ends[k]
    BY <2>1, Zenon DEF IsAppended, n
  <2>3. n <= Len(pieces) /\ (\A k \in 1..Len(ends) : k \in 1..Len(pieces)) /\ \A k \in 1..n : k \in 1..Len(ends) \/ k = n
    BY <1>3 DEF n
  <2> QED BY <2>2, <2>3, Zenon
<1>9. HasNoColon(joined') /\ (operation # "display_path" => IsCanonical(joined'))
  <2>1. IsPart(piece) /\ (operation # "display_path" => IsCanonical(piece)) BY <1>3, <1>4, Zenon DEF AreNames, piece
  <2>2. operation # "display_path" => Glue = "/" BY DEF Glue
  <2>3. HasNoColon(joined') BY <1>2, <1>3, <1>4, <1>5, <1>7, <2>1, Cuts, NoColonJoined, Zenon
  <2>4. ASSUME operation # "display_path" PROVE IsCanonical(joined')
    <3>1. Extends(joined', joined, "/", piece, start) BY <1>5, <2>2, <2>4, Zenon
    <3> QED BY <1>2, <1>3, <1>4, <1>5, <1>7, <2>1, <2>4, <3>1, CanonicalJoined, Zenon
  <2> QED BY <2>3, <2>4, Zenon
<1>10. PathsTypeOK' BY <1>0, <1>1, <1>5, <1>8, Zenon DEF PathsTypeOK
<1>11. CASE FromInput
  <2>1. /\ Len(places) = Len(pieces) /\ Fit(pieces, places, MaxPathLength) /\ \A k \in 1..Len(ends) : ends[k] <= places[k]
    BY <1>1, <1>11, Zenon DEF JoinInv
  <2>2. start <= Start(places, n) /\ Start(places, n) \in Nat BY <1>2, <1>3, <1>8, <2>1, JoinHasRoom DEF n, start
  <2>3. Start(places, n) + Len(piece) <= places[n] /\ places[n] \in Nat
    <3>1. n \in 1..Len(places) BY <1>3, <2>1, Zenon
    <3>2. places[n] \in Nat BY <1>2, <3>1
    <3> QED BY <2>1, <3>1, <3>2, Zenon DEF Fit, piece
  <2>4. ends'[n] <= places[n] BY <1>7, <1>8, <2>2, <2>3
  <2>5. \A k \in 1..Len(ends') : ends'[k] <= places[k] BY <1>8, <2>1, <2>4, Zenon
  <2>6. JoinInv' BY <1>0, <1>4, <1>6, <1>8, <1>9, <1>11, <2>1, <2>5, Zenon DEF JoinInv, FromInput, Glue
  <2> QED BY <1>0, <1>10, <1>11, <2>6 DEF PathsInv, FromInput
<1>12. CASE ~FromInput
  <2>1. /\ Len(pieces) <= Len(last.names)
        /\ \A k \in 1..Len(pieces) : Len(pieces[k]) = Len(last.names[k]) /\ Alike(pieces[k], last.names[k])
        /\ \A k \in 1..Len(ends) : ends[k] = last.ends[k]
        /\ Alike(joined, last.text)
    BY <1>1, <1>12, Zenon DEF JoinInv
  <2>2. Whole(last.names, last.text, last.ends, Separators) BY <1>12, Zenon DEF PathsInv, LastInv
  <2>3. n \in 1..Len(last.names) BY <1>2, <1>3, <2>1
  <2>4. IsIn(last.names, last.text, last.ends, Separators, n) BY <1>2, <2>2, <2>3, WholeFacts, Zenon
  <2>5. Start(last.ends, n) = start
    <3>1. n # 1 => n - 1 \in 1..Len(ends) BY <1>3, <1>8 DEF n
    <3> QED BY <2>1, <3>1 DEF Start, start
  <2>6. IsLaid(last.names, last.text, last.ends, Separators, n) /\ last.ends[n] = start + Len(last.names[n])
    BY <2>4, <2>5, Zenon DEF IsIn
  <2>7. ends'[n] = last.ends[n] BY <1>3, <1>7, <1>8, <2>1, <2>6 DEF piece
  <2>8. \A k \in 1..Len(ends') : ends'[k] = last.ends[k] BY <1>8, <2>1, <2>7, Zenon
  <2>9. Alike(joined', last.text)
    <3>1. Lies(last.names[n], last.text, start) BY <2>5, <2>6, Zenon DEF IsLaid
    <3>2. start # 0 => n > 1 BY <1>3 DEF start, Start
    <3>3. start # 0 => last.text[start] \in Separator BY <2>5, <2>6, <3>2, Cuts, Zenon DEF IsLaid
    <3>4. Alike(piece, last.names[n]) /\ Len(piece) = Len(last.names[n]) BY <1>3, <2>1, Zenon DEF piece
    <3>5. IsLike(piece, last.names[n], last.text, start) BY <3>1, <3>3, <3>4, Zenon DEF IsLike
    <3> QED BY <1>2, <1>3, <1>5, <1>7, <2>1, <3>5, Cuts, JoinedAlike, Zenon
  <2>10. JoinInv' BY <1>0, <1>4, <1>6, <1>8, <1>9, <1>12, <2>1, <2>8, <2>9, Zenon DEF JoinInv, FromInput, Glue
  <2>11. LastInv' BY <1>0, <1>12 DEF PathsInv, LastInv, Separators
  <2>12. origin # "input" => AgainInv' BY <1>0, Zenon DEF PathsInv, AgainInv, NamesOf, Goal
  <2>13. operation # "parse" => DerivedInv' BY <1>0 DEF PathsInv, DerivedInv
  <2> QED BY <1>0, <1>10, <1>12, <2>10, <2>11, <2>12, <2>13 DEF PathsInv, FromInput
<1> QED BY <1>11, <1>12

LEMMA JoinedKeeps == PathsInv /\ Joined => PathsInv'
<1> SUFFICES ASSUME PathsInv, Joined PROVE PathsInv' OBVIOUS
<1>0. /\ stage = "joining" /\ stage' = "done" /\ operation' = operation /\ text' = text /\ display' = display
      /\ from' = from /\ places' = places /\ pieces' = pieces /\ joined' = joined /\ ends' = ends
      /\ origin' = origin /\ path' = path /\ last' = last
      /\ Len(ends) = Len(pieces)
  BY DEF Joined, split, join, past
<1>1. PathsTypeOK' BY <1>0, Zenon DEF PathsInv, PathsTypeOK
<1>2. JoinInv' BY <1>0, Zenon DEF PathsInv, JoinInv, FromInput, Glue
<1>3. ~FromInput => LastInv' BY <1>0, Zenon DEF PathsInv, LastInv, Separators
<1>4. origin # "input" => AgainInv' BY <1>0, Zenon DEF PathsInv, AgainInv, NamesOf, Goal
<1>5. operation # "parse" => DerivedInv' BY <1>0 DEF PathsInv, DerivedInv
<1> QED BY <1>0, <1>1, <1>2, <1>3, <1>4, <1>5 DEF PathsInv, FromInput

\* What was joined can be split again.
LEMMA JoinedIsWhole ==
  ASSUME PathsInv, stage = "done"
  PROVE  Whole(pieces, joined, ends, {Glue})
<1>1. PathsTypeOK /\ JoinInv BY DEF PathsInv
<1>2. /\ joined \in Word /\ pieces \in Seq(Word) /\ ends \in Seq(Nat) /\ places \in Seq(Nat) /\ last.ends \in Seq(Nat)
      /\ last.names \in Seq(Word) /\ last.text \in Word /\ Len(joined) \in Nat /\ Len(pieces) \in Nat
  BY <1>1 DEF PathsTypeOK, Word
<1>3. /\ AreNames(pieces) /\ Len(ends) = Len(pieces) /\ Laid(pieces, joined, ends, {Glue})
      /\ Len(joined) = Reach(ends) /\ HasNoColon(joined)
  BY <1>1, Zenon DEF JoinInv
<1> DEFINE n == Len(ends)
<1>4. n \in 1..Len(pieces) /\ n \in 1..n /\ ends # << >> BY <1>2, <1>3 DEF AreNames
<1>5. Len(joined) = ends[n] BY <1>3, <1>4, Zenon DEF Reach
<1>6. CASE FromInput
  <2>1. Len(places) = Len(pieces) /\ Fit(pieces, places, MaxPathLength) /\ ends[n] <= places[n]
    BY <1>1, <1>4, <1>6, Zenon DEF JoinInv
  <2>2. places[n] \in Nat /\ ends[n] \in Nat /\ n \in 1..Len(places) BY <1>2, <1>4, <2>1
  <2>3. places[n] <= MaxPathLength BY <2>1, <2>2, Zenon DEF Fit
  <2>4. Len(joined) <= MaxPathLength BY <1>5, <2>1, <2>2, <2>3, PathsAssumption
  <2> QED BY <1>3, <2>4, Zenon DEF Whole
<1>7. CASE ~FromInput
  <2>1. Whole(last.names, last.text, last.ends, Separators) BY <1>7, Zenon DEF PathsInv, LastInv
  <2>2. n \in 1..Len(last.names) /\ ends[n] = last.ends[n]
    <3>1. Len(pieces) <= Len(last.names) /\ ends[n] = last.ends[n] BY <1>1, <1>4, <1>7, Zenon DEF JoinInv
    <3> QED BY <1>2, <1>3, <1>4, <3>1
  <2>3. IsIn(last.names, last.text, last.ends, Separators, n) BY <1>2, <2>1, <2>2, WholeFacts, Zenon
  <2>4. last.ends[n] <= Len(last.text) /\ last.ends[n] \in Nat BY <2>3, Zenon DEF IsIn
  <2>5. Len(last.text) <= MaxPathLength /\ Len(last.text) \in Nat BY <1>2, <2>1 DEF Whole, Word
  <2>6. Len(joined) <= MaxPathLength BY <1>5, <2>2, <2>4, <2>5, PathsAssumption
  <2> QED BY <1>3, <2>6, Zenon DEF Whole
<1> QED BY <1>6, <1>7

LEMMA MoreCuts ==
  ASSUME NEW names, NEW s, NEW at, NEW cuts, NEW more, cuts \subseteq more, Whole(names, s, at, cuts)
  PROVE  Whole(names, s, at, more)
BY Zenon DEF Whole, Laid

LEMMA DisplayPathKeeps == PathsInv /\ DisplayPath => PathsInv'
<1> SUFFICES ASSUME PathsInv, DisplayPath PROVE PathsInv' OBVIOUS
<1>0. /\ stage = "done" /\ FromInput /\ operation = "parse" /\ origin = "input" /\ origin' = origin
      /\ operation' = "display_path" /\ stage' = "joining" /\ pieces' = display /\ joined' = << >> /\ ends' = << >>
      /\ path' = [display |-> display, lookup |-> joined]
      /\ last' = [text |-> joined, names |-> pieces, ends |-> ends]
      /\ text' = text /\ from' = from /\ places' = places /\ display' = display
  BY DEF DisplayPath, Input, BeginJoin, KeepPath, KeepLast, FromInput
<1>1. PathsTypeOK /\ JoinInv /\ AreNames(display) /\ pieces = LookupNames(display) BY <1>0 DEF PathsInv
<1>2. /\ joined \in Word /\ pieces \in Seq(Word) /\ ends \in Seq(Nat) /\ display \in Seq(Word) BY <1>1 DEF PathsTypeOK
<1>3. Whole(pieces, joined, ends, {"/"})
  <2>1. Glue = "/" BY <1>0 DEF Glue
  <2> QED BY <1>0, <2>1, JoinedIsWhole, Zenon
<1>4. /\ Len(pieces) = Len(display)
      /\ \A k \in 1..Len(display) : Len(pieces[k]) = Len(display[k]) /\ Alike(display[k], pieces[k])
  BY <1>1, <1>2, LookupFacts, Zenon
<1>5. IsCanonical(joined) BY <1>0, <1>1, Zenon DEF JoinInv
<1>6. BeginsNow'
  <2>1. last'.names = pieces /\ ~FromInput' /\ Len(display) <= Len(pieces) BY <1>0, <1>2, <1>4 DEF FromInput
  <2>2. \A k \in 1..Len(display) : Len(display[k]) = Len(pieces[k]) /\ Alike(display[k], pieces[k]) BY <1>4, Zenon
  <2> QED BY <1>0, <1>1, <1>2, <2>1, <2>2 DEF BeginsNow, Begins
<1>7. (JoinInv /\ joined \in Word /\ ends \in Seq(Nat))' BY <1>6, JoinBegins, PTL
<1>8. PathsTypeOK' BY <1>0, <1>1, <1>2, <1>7 DEF PathsTypeOK
<1>9. LastInv' BY <1>0, <1>3 DEF LastInv, Separators
<1>10. DerivedInv' BY <1>0, <1>1, <1>5 DEF DerivedInv
<1> QED BY <1>0, <1>7, <1>8, <1>9, <1>10 DEF PathsInv, FromInput

LEMMA ParentKeyKeeps == PathsInv /\ ParentKey => PathsInv'
<1> SUFFICES ASSUME PathsInv, ParentKey PROVE PathsInv' OBVIOUS
<1>0. /\ stage = "done" /\ FromInput /\ operation = "parse" /\ origin = "input" /\ origin' = origin
      /\ operation' = "parent_key" /\ stage' = "splitting" /\ text' = joined /\ from' = 1
      /\ pieces' = << >> /\ places' = << >> /\ joined' = joined /\ ends' = ends
      /\ path' = [display |-> display, lookup |-> joined]
      /\ last' = [text |-> joined, names |-> pieces, ends |-> ends] /\ display' = display
  BY DEF ParentKey, Input, BeginSplit, KeepPath, KeepLast, FromInput, join
<1>1. PathsTypeOK /\ JoinInv /\ AreNames(display) /\ pieces = LookupNames(display) BY <1>0 DEF PathsInv
<1>2. /\ joined \in Word /\ pieces \in Seq(Word) /\ ends \in Seq(Nat) /\ display \in Seq(Word)
      /\ Len(joined) \in Nat /\ Len(pieces) \in Nat
  BY <1>1 DEF PathsTypeOK, Word
<1>3. Whole(pieces, joined, ends, {"/"})
  <2>1. Glue = "/" BY <1>0 DEF Glue
  <2> QED BY <1>0, <2>1, JoinedIsWhole, Zenon
<1>4. IsCanonical(joined) BY <1>0, <1>1, Zenon DEF JoinInv
<1>5. SplitInv'
  <2>1. Len(joined) <= MaxPathLength /\ HasNoColon(joined) BY <1>3, Zenon DEF Whole
  <2>2. Len(pieces') = 0 /\ Len(places') = 0 /\ (\A k : k \notin 1..Len(pieces')) /\ Start(ends, 1) = 0 /\ 1 <= Len(joined) + 2
    BY <1>0, <1>2 DEF Start
  <2>3. Following' BY <1>0, <1>2, <2>2 DEF Following, Start
  <2>4. ~FromInput' /\ text' = last'.text BY <1>0, Zenon DEF FromInput
  <2> QED BY <1>0, <2>1, <2>2, <2>3, <2>4 DEF SplitInv
<1>6. PathsTypeOK' BY <1>0, <1>1, <1>2 DEF PathsTypeOK
<1>7. LastInv' BY <1>0, <1>3 DEF LastInv, Separators
<1>8. DerivedInv' BY <1>0, <1>1, <1>4 DEF DerivedInv
<1> QED BY <1>0, <1>5, <1>6, <1>7, <1>8 DEF PathsInv, FromInput

LEMMA FrontOf ==
  ASSUME NEW names \in Seq(Word), Len(names) > 0
  PROVE  LET above == SubSeq(names, 1, Len(names) - 1)
         IN  /\ above \in Seq(Word) /\ Len(above) = Len(names) - 1 /\ (above = << >> <=> Len(names) = 1)
             /\ \A k \in 1..Len(above) : above[k] = names[k] /\ k \in 1..Len(names)
<1> DEFINE above == SubSeq(names, 1, Len(names) - 1)
<1>0. Len(names) \in Nat /\ \A k \in 1..Len(names) : names[k] \in Word OBVIOUS
<1>1. above \in Seq(Word) /\ Len(above) = Len(names) - 1
  <2> DEFINE n == Len(names) - 1
  <2>1. n \in Nat /\ above = [k \in 1..n |-> names[k]] BY <1>0
  <2>2. \A k \in 1..n : names[k] \in Word BY <1>0
  <2> HIDE DEF above
  <2>3. above \in Seq(Word) /\ Len(above) = n
    <3> HIDE DEF n
    <3>1. above \in [1..n -> Word] BY <2>1, <2>2
    <3> QED BY <2>1, <3>1
  <2> QED BY <2>3
<1>2. \A k \in 1..Len(above) : above[k] = names[k] /\ k \in 1..Len(names) BY <1>0, <1>1
<1> HIDE DEF above
<1>3. above = << >> <=> Len(above) = 0 BY <1>1
<1> QED BY <1>1, <1>2, <1>3 DEF above

LEMMA PopPieceKeeps == PathsInv /\ PopPiece => PathsInv'
<1> SUFFICES ASSUME PathsInv, PopPiece PROVE PathsInv' OBVIOUS
<1> DEFINE above == SubSeq(pieces, 1, Len(pieces) - 1)
<1>0. /\ IsSplit /\ operation = "parent_key" /\ operation' = operation /\ ~FromInput
      /\ text' = text /\ from' = from /\ places' = places /\ display' = display
      /\ origin' = origin /\ path' = path /\ last' = last
      /\ IF above = << >> THEN stage' = "refused" /\ UNCHANGED <<pieces, join>> ELSE BeginJoin(above)
  BY DEF PopPiece, past, FromInput
<1>1. PathsTypeOK /\ LastInv /\ DerivedInv BY <1>0 DEF PathsInv
<1>2. origin = "input" BY <1>0 DEF PathsInv, AgainInv
<1>3. pieces = last.names BY <1>0, AllFound, Zenon
<1>4. pieces \in Seq(Word) /\ path.display \in Seq(Word) /\ last.names \in Seq(Word) BY <1>1 DEF PathsTypeOK
<1>5. AreNames(pieces) /\ pieces = LookupNames(path.display) /\ AreNames(path.display)
  BY <1>1, <1>3, Zenon DEF LastInv, Whole, DerivedInv
<1>6. Len(pieces) \in Nat /\ Len(pieces) > 0 /\ Len(pieces) <= MaxComponents BY <1>4, <1>5, PathsAssumption DEF AreNames
<1>7. /\ above \in Seq(Word) /\ Len(above) = Len(pieces) - 1 /\ (above = << >> <=> Len(pieces) = 1)
      /\ \A k \in 1..Len(above) : above[k] = pieces[k] /\ k \in 1..Len(pieces)
  BY <1>4, <1>6, FrontOf
<1>8. LastInv' BY <1>0, <1>1 DEF LastInv, Separators
<1>9. ~FromInput' BY <1>0 DEF FromInput
<1> HIDE DEF above
<1>10. CASE above = << >>
  <2>1. stage' = "refused" /\ pieces' = pieces /\ joined' = joined /\ ends' = ends BY <1>0, <1>10 DEF join
  <2>2. DerivedInv' BY <1>0, <1>1, <1>3, <1>7, <1>10, <2>1 DEF DerivedInv
  <2>3. PathsTypeOK' BY <1>0, <1>1, <2>1 DEF PathsTypeOK
  <2> QED BY <1>0, <1>2, <1>8, <1>9, <2>1, <2>2, <2>3 DEF PathsInv
<1>11. CASE above # << >>
  <2>1. stage' = "joining" /\ pieces' = above /\ joined' = << >> /\ ends' = << >> BY <1>0, <1>11 DEF BeginJoin
  <2>2. Len(above) \in 1..MaxComponents /\ Len(above) <= Len(last.names)
    <3>1. Len(above) # 0 BY <1>7, <1>11
    <3> QED BY <1>3, <1>6, <1>7, <3>1, PathsAssumption
  <2>3. AreNames(above) BY <1>5, <1>7, <2>2, Zenon DEF AreNames
  <2>4. \A k \in 1..Len(pieces) : IsCanonical(pieces[k])
    <3>1. Len(pieces) = Len(path.display) /\ \A k \in 1..Len(path.display) : IsCanonical(pieces[k])
      BY <1>4, <1>5, LookupFacts, Zenon
    <3> QED BY <3>1
  <2>5. \A k \in 1..Len(above) : IsCanonical(above[k]) /\ Len(above[k]) = Len(last.names[k]) /\ Alike(above[k], last.names[k])
    BY <1>3, <1>7, <2>4, Zenon DEF Alike
  <2>6. BeginsNow' BY <1>0, <1>7, <1>9, <2>1, <2>2, <2>3, <2>5 DEF BeginsNow, Begins
  <2>7. (JoinInv /\ joined \in Word /\ ends \in Seq(Nat))' BY <2>6, JoinBegins, PTL
  <2>8. DerivedInv' BY <1>0, <1>1, <1>3, <2>1 DEF DerivedInv, above
  <2>9. PathsTypeOK' BY <1>0, <1>1, <1>7, <2>1, <2>7 DEF PathsTypeOK
  <2> QED BY <1>0, <1>2, <1>8, <1>9, <2>1, <2>7, <2>8, <2>9 DEF PathsInv
<1> QED BY <1>10, <1>11

\* What was joined is accepted, and is the key up to the case and the
\* separators.
LEMMA ParseAgainKeeps == PathsInv /\ ParseAgain => PathsInv'
<1> SUFFICES ASSUME PathsInv, ParseAgain PROVE PathsInv' OBVIOUS
<1>0. /\ stage = "done" /\ origin = "input" /\ origin' = operation /\ operation' = "parse"
      /\ text' = joined /\ from' = 1 /\ pieces' = << >> /\ places' = << >>
      /\ stage' = IF Refused(joined) THEN "refused" ELSE "splitting"
      /\ last' = [text |-> joined, names |-> pieces, ends |-> ends]
      /\ path' = IF operation = "parse" THEN [display |-> display, lookup |-> joined] ELSE path
      /\ display' = display /\ joined' = joined /\ ends' = ends
  BY DEF ParseAgain, BeginParse, BeginSplit, KeepLast, KeepPath, join
<1>1. PathsTypeOK /\ JoinInv BY <1>0 DEF PathsInv
<1>2. /\ joined \in Word /\ pieces \in Seq(Word) /\ ends \in Seq(Nat) /\ display \in Seq(Word) /\ path.display \in Seq(Word)
      /\ path.lookup \in Word /\ last.text \in Word /\ last.ends \in Seq(Nat) /\ last.names \in Seq(Word)
      /\ Len(joined) \in Nat /\ Len(pieces) \in Nat /\ operation \in {"parse", "display_path", "parent_key"}
  BY <1>1 DEF PathsTypeOK, Word
<1>3. Whole(pieces, joined, ends, {Glue}) BY <1>0, JoinedIsWhole, Zenon
<1>4. stage' = "splitting" BY <1>0, <1>2, <1>3, WholeIsAccepted, Zenon
<1>5. Whole(pieces, joined, ends, Separator)
  <2> DEFINE glued == {Glue}
  <2>1. glued \subseteq Separator /\ Whole(pieces, joined, ends, glued) BY <1>3 DEF Glue, Separator
  <2> HIDE DEF glued
  <2> QED BY <2>1, MoreCuts, Zenon
<1>6. LastInv' BY <1>0, <1>5 DEF LastInv, Separators
<1>7. SplitInv'
  <2>1. Len(joined) <= MaxPathLength /\ HasNoColon(joined) BY <1>3, Zenon DEF Whole
  <2>2. Len(pieces') = 0 /\ Len(places') = 0 /\ (\A k : k \notin 1..Len(pieces')) /\ Start(ends, 1) = 0 /\ 1 <= Len(joined) + 2
    BY <1>0, <1>2 DEF Start
  <2>3. Following' BY <1>0, <1>2, <2>2 DEF Following, Start
  <2>4. ~FromInput' /\ text' = last'.text BY <1>0, <1>2, Zenon DEF FromInput
  <2> QED BY <1>0, <2>1, <2>2, <2>3, <2>4 DEF SplitInv
<1>8. PathsTypeOK' BY <1>0, <1>1, <1>2, <1>4 DEF PathsTypeOK
<1>9. operation # "display_path" => \A i \in 1..Len(joined) : joined[i] = Canonical(joined[i])
  BY <1>1, Zenon DEF JoinInv, IsCanonical
<1>10. pieces = NamesOf(origin)' /\ Len(Goal') = Len(joined) /\ \A i \in 1..Len(Goal') : Goal'[i] = Canonical(joined[i])
  <2>1. CASE operation = "parse"
    <3>1. pieces = LookupNames(display) /\ path' = [display |-> display, lookup |-> joined]
      BY <1>0, <2>1 DEF PathsInv, FromInput
    <3>2. Goal' = joined BY <1>0, <2>1, <3>1 DEF Goal
    <3>3. pieces = NamesOf(origin)' BY <1>0, <2>1, <3>1 DEF NamesOf, InLowerCase, LookupNames
    <3> QED BY <1>9, <2>1, <3>2, <3>3
  <2>2. CASE operation = "display_path"
    <3>1. DerivedInv /\ ~FromInput BY <2>2 DEF PathsInv, FromInput
    <3>2. path' = path /\ Goal' = path.lookup BY <1>0, <2>2 DEF Goal
    <3>3. /\ last.text = path.lookup /\ IsCanonical(last.text) /\ last.names = LookupNames(path.display)
          /\ pieces = path.display /\ AreNames(path.display)
      BY <2>2, <3>1, Zenon DEF DerivedInv
    <3>4. pieces = NamesOf(origin)' BY <1>0, <2>2, <3>2, <3>3 DEF NamesOf
    <3>5. Len(last.names) = Len(pieces) BY <1>2, <3>3, LookupFacts, Zenon
    <3>6. Alike(joined, last.text) /\ \A k \in 1..Len(ends) : ends[k] = last.ends[k] BY <1>1, <3>1, Zenon DEF JoinInv
    <3>7. Len(last.text) = Len(joined)
      <4>1. Whole(last.names, last.text, last.ends, Separators) BY <3>1, Zenon DEF PathsInv, LastInv
      <4>2. Len(ends) = Len(pieces) /\ Len(last.ends) = Len(pieces) /\ Len(pieces) > 0
        BY <1>2, <1>3, <3>5, <4>1 DEF Whole, AreNames
      <4>3. Len(ends) \in 1..Len(ends) /\ ends # << >> /\ last.ends # << >> BY <1>2, <4>2
      <4>4. Reach(ends) = Reach(last.ends) BY <3>6, <4>2, <4>3, Zenon DEF Reach
      <4> QED BY <1>3, <4>1, <4>4, Zenon DEF Whole
    <3>8. \A i \in 1..Len(joined) : last.text[i] = Canonical(joined[i]) BY <3>3, <3>6, <3>7, Zenon DEF Alike, IsCanonical
    <3> QED BY <3>2, <3>3, <3>4, <3>7, <3>8
  <2>3. CASE operation = "parent_key"
    <3>1. DerivedInv BY <2>3 DEF PathsInv
    <3>2. path' = path /\ Goal' = joined BY <1>0, <2>3 DEF Goal
    <3>3. last.names = LookupNames(path.display) /\ pieces = SubSeq(last.names, 1, Len(last.names) - 1) /\ AreNames(path.display)
      BY <1>0, <2>3, <3>1 DEF DerivedInv
    <3>4. Len(last.names) = Len(path.display) BY <1>2, <3>3, LookupFacts, Zenon
    <3>5. pieces = NamesOf(origin)' BY <1>0, <2>3, <3>2, <3>3, <3>4 DEF NamesOf, InLowerCase, LookupNames
    <3> QED BY <1>9, <2>3, <3>2, <3>5
  <2> QED BY <1>2, <2>1, <2>2, <2>3
<1>11. AgainInv'
  <2>1. (last.names = NamesOf(origin))' BY <1>0, <1>10, Zenon DEF NamesOf
  <2> QED BY <1>0, <1>4, <1>10, <2>1 DEF AgainInv
<1> QED BY <1>0, <1>2, <1>4, <1>6, <1>7, <1>8, <1>11 DEF PathsInv, FromInput

LEMMA ParseInputKeeps == PathsInv /\ ParseInput => PathsInv'
<1> SUFFICES ASSUME PathsInv, ParseInput PROVE PathsInv' OBVIOUS
<1>1. PICK s \in Strings(PathCharacter, MaxInput) : BeginParse(s) BY DEF ParseInput
<1>2. /\ stage = "idle" /\ operation' = "parse" /\ text' = s /\ from' = 1 /\ pieces' = << >> /\ places' = << >>
      /\ stage' = IF Refused(s) THEN "refused" ELSE "splitting"
      /\ display' = display /\ joined' = joined /\ ends' = ends /\ origin' = origin /\ path' = path /\ last' = last
  BY <1>1 DEF ParseInput, BeginParse, BeginSplit, join, past
<1>3. s \in Word /\ Len(s) \in Nat /\ DOMAIN s = 1..Len(s) BY <1>1, PathsAssumption DEF Strings, Word
<1>4. FromInput /\ FromInput'
  <2>1. origin = "input" BY <1>2 DEF PathsInv, AgainInv
  <2>2. operation = "parse" BY <1>2 DEF PathsInv, PathsTypeOK, DerivedInv
  <2> QED BY <1>2, <2>1, <2>2, Zenon DEF FromInput
<1>5. PathsTypeOK'
  <2>1. stage' \in {"refused", "splitting"} BY <1>2, Zenon
  <2>2. 1 \in Nat \ {0} /\ << >> \in Seq(Word) /\ << >> \in Seq(Nat) OBVIOUS
  <2> QED BY <1>2, <1>3, <2>1, <2>2, Zenon DEF PathsInv, PathsTypeOK
<1>6. stage' = "splitting" => SplitInv'
  <2> SUFFICES ASSUME ~Refused(s) PROVE SplitInv' BY <1>2
  <2>1. Len(s) <= MaxPathLength /\ HasNoColon(s) BY <1>3, PathsAssumption DEF Refused, HasNoColon
  <2>2. Len(pieces') = 0 /\ Len(places') = 0 /\ (\A k : k \notin 1..Len(pieces')) /\ 1 <= Len(s) + 2 BY <1>2, <1>3
  <2> QED BY <1>2, <1>4, <2>1, <2>2 DEF SplitInv, Fit
<1> QED BY <1>2, <1>4, <1>5, <1>6 DEF PathsInv, FromInput

LEMMA PathsStep == PathsInv /\ [PathsNext]_virtualPath => PathsInv'
<1>1. PathsInv /\ UNCHANGED virtualPath => PathsInv'
  <2> SUFFICES ASSUME PathsInv, UNCHANGED virtualPath PROVE PathsInv' OBVIOUS
  <2>1. /\ stage' = stage /\ operation' = operation /\ text' = text /\ from' = from /\ pieces' = pieces /\ places' = places
        /\ display' = display /\ joined' = joined /\ ends' = ends /\ origin' = origin /\ path' = path /\ last' = last
    BY DEF virtualPath, split, join, past
  <2>2. PathsTypeOK' BY <2>1, Zenon DEF PathsInv, PathsTypeOK
  <2>3. stage = "splitting" => SplitInv' BY <2>1, Zenon DEF PathsInv, SplitInv, FromInput, Following
  <2>4. stage \in {"joining", "done"} => JoinInv' BY <2>1, Zenon DEF PathsInv, JoinInv, FromInput, Glue
  <2>5. ~FromInput => LastInv' BY <2>1 DEF PathsInv, LastInv, Separators
  <2>6. origin # "input" => AgainInv' BY <2>1, Zenon DEF PathsInv, AgainInv, NamesOf, Goal
  <2>7. operation # "parse" => DerivedInv' BY <2>1 DEF PathsInv, DerivedInv
  <2> QED BY <2>1, <2>2, <2>3, <2>4, <2>5, <2>6, <2>7 DEF PathsInv, FromInput
<1> QED
  BY <1>1, ParseInputKeeps, NextPieceKeeps, CheckNamesKeeps, RefuseNamesKeeps, JoinPieceKeeps, JoinedKeeps,
     DisplayPathKeeps, ParentKeyKeeps, PopPieceKeeps, ParseAgainKeeps, Zenon DEF PathsNext

LEMMA PathsBegin == PathsInit => PathsInv
<1> SUFFICES ASSUME PathsInit PROVE PathsInv OBVIOUS
<1>1. PathsTypeOK BY DEF PathsInit, PathsTypeOK, Word
<1> QED BY <1>1 DEF PathsInit, PathsInv, FromInput

LEMMA InvIsCanonical == PathsInv => KeyIsCanonical
<1> SUFFICES ASSUME PathsInv PROVE KeyIsCanonical OBVIOUS
<1>1. ASSUME origin # "input", stage \in {"done", "refused"}
      PROVE  stage = "done" /\ display = NamesOf(origin) /\ joined = IF origin = "parent_key" THEN text ELSE path.lookup
  <2>1. AgainInv /\ ~FromInput /\ PathsTypeOK BY <1>1 DEF PathsInv, FromInput
  <2>2. stage = "done" BY <1>1, <2>1 DEF AgainInv
  <2>3. /\ operation = "parse" /\ text = last.text /\ display = NamesOf(origin) /\ pieces = LookupNames(display)
        /\ display = last.names /\ Len(Goal) = Len(last.text) /\ \A i \in 1..Len(Goal) : Goal[i] = Canonical(last.text[i])
    BY <2>1, <2>2 DEF AgainInv
  <2>4. JoinInv /\ LastInv BY <2>1, <2>2 DEF PathsInv
  <2>5. /\ joined \in Word /\ ends \in Seq(Nat) /\ last.ends \in Seq(Nat) /\ pieces \in Seq(Word) /\ last.names \in Seq(Word)
        /\ path.lookup \in Word /\ text \in Word /\ Len(pieces) \in Nat
    BY <2>1 DEF PathsTypeOK
  <2>6. /\ AreNames(pieces) /\ Len(ends) = Len(pieces) /\ Len(joined) = Reach(ends) /\ IsCanonical(joined)
        /\ Alike(joined, last.text) /\ \A k \in 1..Len(ends) : ends[k] = last.ends[k]
    <3>1. "parse" # "display_path" OBVIOUS
    <3> QED BY <2>1, <2>2, <2>3, <2>4, <3>1, Zenon DEF JoinInv
  <2>7. AreNames(last.names) /\ Len(last.ends) = Len(last.names) /\ Len(last.text) = Reach(last.ends)
    BY <2>4, Zenon DEF LastInv, Whole
  <2>8. Len(pieces) = Len(last.names) BY <2>3, <2>5, <2>7, LookupFacts, Zenon
  <2>9. Len(joined) = Len(Goal)
    <3>1. Len(ends) \in 1..Len(ends) /\ ends # << >> /\ last.ends # << >> /\ Len(last.ends) = Len(ends)
      BY <2>5, <2>6, <2>7, <2>8 DEF AreNames
    <3>2. Reach(ends) = Reach(last.ends) BY <2>6, <3>1, Zenon DEF Reach
    <3> QED BY <2>3, <2>6, <2>7, <3>2, Zenon
  <2>10. \A i \in 1..Len(joined) : joined[i] = Goal[i] BY <2>3, <2>6, <2>9, Zenon DEF Alike, IsCanonical
  <2>11. Goal = IF origin = "parent_key" THEN text ELSE path.lookup BY <2>3 DEF Goal
  <2>12. Goal \in Word BY <2>5, <2>11
  <2>13. joined = Goal
    <3>1. joined = [i \in 1..Len(joined) |-> joined[i]] /\ Goal = [i \in 1..Len(Goal) |-> Goal[i]]
      BY <2>5, <2>12, AsFunction, Zenon
    <3> QED BY <2>9, <2>10, <3>1, Zenon
  <2> QED BY <2>2, <2>3, <2>11, <2>13
<1>2. ASSUME operation = "parent_key", stage \in {"done", "refused"} PROVE stage = "refused" <=> Len(path.display) = 1
  <2>1. DerivedInv /\ PathsTypeOK BY <1>2 DEF PathsInv
  <2>2. path.display \in Seq(Word) /\ AreNames(path.display) /\ last.names = LookupNames(path.display)
    BY <2>1 DEF DerivedInv, PathsTypeOK
  <2>3. Len(last.names) = Len(path.display) /\ last.names \in Seq(Word) BY <2>2, LookupFacts, Zenon
  <2>4. CASE stage = "refused" BY <1>2, <2>1, <2>3, <2>4 DEF DerivedInv
  <2>5. CASE stage = "done"
    <3>1. pieces = SubSeq(last.names, 1, Len(last.names) - 1) /\ AreNames(pieces)
      BY <1>2, <2>1, <2>5, Zenon DEF DerivedInv, PathsInv, JoinInv
    <3>2. Len(pieces) > 0 /\ Len(path.display) > 0 BY <2>2, <3>1 DEF AreNames
    <3>3. Len(pieces) = Len(last.names) - 1 BY <2>3, <3>1, <3>2, FrontOf
    <3>4. Len(path.display) \in Nat BY <2>2
    <3>5. Len(path.display) # 1
      <4> DEFINE n == Len(path.display)
      <4>1. n \in Nat /\ Len(pieces) > 0 /\ Len(pieces) = n - 1 BY <2>3, <3>2, <3>3, <3>4
      <4> HIDE DEF n
      <4>2. n # 1 BY <4>1
      <4> QED BY <4>2 DEF n
    <3> QED BY <2>5, <3>5, Zenon
  <2> QED BY <1>2, <2>4, <2>5
<1> QED BY <1>1, <1>2, Zenon DEF KeyIsCanonical

\* KeyIsCanonical for paths of any length and any limits: whatever input
\* VirtualPath::parse accepts, the display path, the lookup key and the
\* parent's key of the result parse again, to the same names and keys.
THEOREM KeysAreCanonical == PathsSpec => []KeyIsCanonical
<1>1. PathsInit => PathsInv BY PathsBegin
<1>2. PathsInv /\ [PathsNext]_virtualPath => PathsInv' BY PathsStep
<1>3. PathsInv => KeyIsCanonical BY InvIsCanonical
<1> QED BY <1>1, <1>2, <1>3, PTL DEF PathsSpec
=============================================================================
