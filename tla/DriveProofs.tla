---------------------------- MODULE DriveProofs -----------------------------
(***************************************************************************)
(* The tree is rooted, handles keep their files and the index agrees with  *)
(* memory, for any names, depth, files and handles: proofs of what         *)
(* MCNamespace checks on a small instance.  Then, of what MCDrive checks:  *)
(* contexts hold their store handles, and a write that succeeds is         *)
(* durable, for any contexts, handles and paths.                           *)
(***************************************************************************)
EXTENDS Drive, TLAPS


-----------------------------------------------------------------------------
(* Paths.                                                                  *)

LEMMA KeyIsSequence ==
  /\ \A k \in Key : k \in Seq(Name) /\ Len(k) \in 1 .. MaxDepth
  /\ \A k \in Seq(Name) : Len(k) \in 1 .. MaxDepth => k \in Key
<1>1. ASSUME NEW k \in Key PROVE k \in Seq(Name) /\ Len(k) \in 1 .. MaxDepth
  <2>1. PICK n \in 1 .. MaxDepth : k \in [1 .. n -> Name] BY DEF Key
  <2> QED BY <2>1, BoundsAssumption
<1>2. ASSUME NEW k \in Seq(Name), Len(k) \in 1 .. MaxDepth PROVE k \in Key
  <2>1. k \in [1 .. Len(k) -> Name] OBVIOUS
  <2> QED BY <1>2, <2>1 DEF Key
<1> QED BY <1>1, <1>2

\* Two sequences with the same elements are the same.
LEMMA Extensional ==
  ASSUME NEW s \in Seq(Name), NEW t \in Seq(Name), Len(s) = Len(t), \A i \in 1 .. Len(s) : s[i] = t[i]
  PROVE  s = t
  OBVIOUS

LEMMA PrefixFacts ==
  ASSUME NEW k \in Seq(Name), NEW n \in 0 .. Len(k)
  PROVE  /\ SubSeq(k, 1, n) \in Seq(Name) /\ Len(SubSeq(k, 1, n)) = n
         /\ \A i \in 1 .. n : SubSeq(k, 1, n)[i] = k[i]
  OBVIOUS

LEMMA UnderFacts ==
  ASSUME NEW k \in Seq(Name), NEW d \in Seq(Name)
  PROVE  Under(k, d) <=> Len(k) > Len(d) /\ \A i \in 1 .. Len(d) : k[i] = d[i]
<1>1. CASE Len(k) > Len(d)
  <2>1. /\ SubSeq(k, 1, Len(d)) \in Seq(Name) /\ Len(SubSeq(k, 1, Len(d))) = Len(d)
        /\ \A i \in 1 .. Len(d) : SubSeq(k, 1, Len(d))[i] = k[i]
    BY <1>1, PrefixFacts
  <2> QED BY <1>1, <2>1, Extensional DEF Under
<1>2. CASE ~(Len(k) > Len(d)) BY <1>2 DEF Under
<1> QED BY <1>1, <1>2

\* What is above a path, and what it is under, is the same.
LEMMA AboveFacts ==
  ASSUME NEW k \in Seq(Name), NEW a \in Seq(Name)
  PROVE  a \in Above(k) <=> Len(a) > 0 /\ Under(k, a)
<1>1. ASSUME a \in Above(k) PROVE Len(a) > 0 /\ Under(k, a)
  <2>1. PICK n \in 1 .. Len(k) - 1 : a = SubSeq(k, 1, n) BY <1>1 DEF Above
  <2>2. Len(a) = n BY <2>1, PrefixFacts
  <2> QED BY <2>1, <2>2 DEF Under
<1>2. ASSUME Len(a) > 0, Under(k, a) PROVE a \in Above(k)
  <2>1. Len(a) \in 1 .. Len(k) - 1 /\ a = SubSeq(k, 1, Len(a)) BY <1>2 DEF Under
  <2> QED BY <2>1, Zenon DEF Above
<1> QED BY <1>1, <1>2

LEMMA RebaseFacts ==
  ASSUME NEW k \in Seq(Name), NEW src \in Seq(Name), NEW dst \in Seq(Name), Len(k) >= Len(src)
  PROVE  /\ Rebase(k, src, dst) \in Seq(Name)
         /\ Len(Rebase(k, src, dst)) = Len(dst) + Len(k) - Len(src)
         /\ \A i \in 1 .. Len(dst) : Rebase(k, src, dst)[i] = dst[i]
         /\ \A i \in Len(dst) + 1 .. Len(dst) + Len(k) - Len(src) :
               Rebase(k, src, dst)[i] = k[i - Len(dst) + Len(src)]
<1> DEFINE rest == SubSeq(k, Len(src) + 1, Len(k))
<1>1. /\ rest \in Seq(Name) /\ Len(rest) = Len(k) - Len(src)
      /\ \A i \in 1 .. Len(k) - Len(src) : rest[i] = k[i + Len(src)]
  OBVIOUS
<1>2. Rebase(k, src, dst) = dst \o rest BY DEF Rebase
<1> HIDE DEF rest
<1>3. /\ dst \o rest \in Seq(Name) /\ Len(dst \o rest) = Len(dst) + Len(rest)
      /\ \A i \in 1 .. Len(dst) : (dst \o rest)[i] = dst[i]
      /\ \A i \in Len(dst) + 1 .. Len(dst) + Len(rest) : (dst \o rest)[i] = rest[i - Len(dst)]
  BY <1>1
<1>4. ASSUME NEW i \in Len(dst) + 1 .. Len(dst) + Len(k) - Len(src)
      PROVE  (dst \o rest)[i] = k[i - Len(dst) + Len(src)]
  <2>1. i - Len(dst) \in 1 .. Len(k) - Len(src) /\ i \in Len(dst) + 1 .. Len(dst) + Len(rest) BY <1>1
  <2>2. (dst \o rest)[i] = rest[i - Len(dst)] BY <1>3, <2>1
  <2>3. rest[i - Len(dst)] = k[(i - Len(dst)) + Len(src)] BY <1>1, <2>1, Zenon
  <2> QED BY <2>2, <2>3
<1>5. Len(dst \o rest) = Len(dst) + Len(k) - Len(src) BY <1>1, <1>3
<1> QED BY <1>2, <1>3, <1>4, <1>5

\* A path that is moved is under its new directory, and can be moved back.
LEMMA RebaseBack ==
  ASSUME NEW k \in Seq(Name), NEW src \in Seq(Name), NEW dst \in Seq(Name), Under(k, src)
  PROVE  Under(Rebase(k, src, dst), dst) /\ Rebase(Rebase(k, src, dst), dst, src) = k
<1> DEFINE r == Rebase(k, src, dst)
           b == Rebase(r, dst, src)
<1>1. Len(k) > Len(src) /\ Len(k) >= Len(src) /\ \A i \in 1 .. Len(src) : k[i] = src[i] BY UnderFacts
<1>2. /\ r \in Seq(Name) /\ Len(r) = Len(dst) + Len(k) - Len(src)
      /\ \A i \in 1 .. Len(dst) : r[i] = dst[i]
      /\ \A i \in Len(dst) + 1 .. Len(dst) + Len(k) - Len(src) : r[i] = k[i - Len(dst) + Len(src)]
  BY <1>1, RebaseFacts, Zenon
<1> HIDE DEF r
<1>3. Under(r, dst) BY <1>1, <1>2, UnderFacts
<1>4. /\ b \in Seq(Name) /\ Len(b) = Len(src) + Len(r) - Len(dst)
      /\ \A i \in 1 .. Len(src) : b[i] = src[i]
      /\ \A i \in Len(src) + 1 .. Len(src) + Len(r) - Len(dst) : b[i] = r[i - Len(src) + Len(dst)]
  <2>1. Len(r) >= Len(dst) BY <1>1, <1>2
  <2> QED BY <1>2, <2>1, RebaseFacts, Zenon
<1> HIDE DEF b
<1>5. Len(b) = Len(k) BY <1>2, <1>4
<1>6. ASSUME NEW i \in 1 .. Len(b) PROVE b[i] = k[i]
  <2>1. CASE i <= Len(src) BY <1>1, <1>4, <2>1
  <2>2. CASE i > Len(src)
    <3>1. b[i] = r[i - Len(src) + Len(dst)] BY <1>4, <2>2
    <3>2. i - Len(src) + Len(dst) \in Len(dst) + 1 .. Len(dst) + Len(k) - Len(src) BY <1>5, <2>2
    <3>3. r[i - Len(src) + Len(dst)] = k[(i - Len(src) + Len(dst)) - Len(dst) + Len(src)] BY <1>2, <3>2
    <3>4. (i - Len(src) + Len(dst)) - Len(dst) + Len(src) = i OBVIOUS
    <3> QED BY <3>1, <3>3, <3>4
  <2> QED BY <2>1, <2>2
<1>7. b = k BY <1>4, <1>5, <1>6, Extensional
<1> QED BY <1>3, <1>7 DEF r, b

LEMMA UnderIsTransitive ==
  ASSUME NEW k \in Seq(Name), NEW a \in Seq(Name), NEW b \in Seq(Name), Under(k, a), Under(a, b)
  PROVE  Under(k, b)
<1>1. Len(k) > Len(a) /\ \A i \in 1 .. Len(a) : k[i] = a[i] BY UnderFacts
<1>2. Len(a) > Len(b) /\ \A i \in 1 .. Len(b) : a[i] = b[i] BY UnderFacts
<1>3. Len(k) > Len(b) /\ \A i \in 1 .. Len(b) : k[i] = b[i] BY <1>1, <1>2
<1> QED BY <1>3, UnderFacts

LEMMA AboveIsKey ==
  ASSUME NEW k \in Key
  PROVE  /\ Above(k) \subseteq Key
         /\ Len(k) # 1 => Parent(k) \in Above(k)
         /\ Len(k) = 1 => Above(k) = {}
         /\ Len(k) # 1 => Above(k) \subseteq Above(Parent(k)) \cup {Parent(k)}
<1>1. k \in Seq(Name) /\ Len(k) \in 1 .. MaxDepth BY KeyIsSequence
<1>2. ASSUME NEW n \in 1 .. Len(k) - 1 PROVE SubSeq(k, 1, n) \in Key /\ Len(SubSeq(k, 1, n)) = n
  <2>1. SubSeq(k, 1, n) \in Seq(Name) /\ Len(SubSeq(k, 1, n)) = n BY <1>1, PrefixFacts
  <2>2. n \in 1 .. MaxDepth BY <1>1, BoundsAssumption
  <2> QED BY <2>1, <2>2, KeyIsSequence, Zenon
<1>3. Len(k) # 1 => Len(k) - 1 \in 1 .. Len(k) - 1
  <2>1. \A n \in 1 .. MaxDepth : n # 1 => n - 1 \in 1 .. n - 1 BY BoundsAssumption
  <2> QED BY <1>1, <2>1, Zenon
<1>4. ASSUME Len(k) # 1, NEW n \in 1 .. Len(k) - 1, n # Len(k) - 1
      PROVE  SubSeq(k, 1, n) \in Above(Parent(k))
  <2>1. Parent(k) \in Seq(Name) /\ Len(Parent(k)) = Len(k) - 1 /\ \A i \in 1 .. Len(k) - 1 : Parent(k)[i] = k[i]
    BY <1>1, PrefixFacts DEF Parent
  <2>2. /\ SubSeq(k, 1, n) \in Seq(Name) /\ Len(SubSeq(k, 1, n)) = n
        /\ \A i \in 1 .. n : SubSeq(k, 1, n)[i] = k[i]
    BY <1>1, PrefixFacts
  <2> DEFINE a == SubSeq(k, 1, n)
  <2> HIDE DEF a
  <2>3. Len(Parent(k)) > Len(a) /\ Len(a) > 0 BY <1>1, <1>4, <2>1, <2>2, BoundsAssumption DEF a
  <2>4. \A i \in 1 .. Len(a) : Parent(k)[i] = a[i] BY <1>1, <2>1, <2>2, BoundsAssumption DEF a
  <2>5. a \in Seq(Name) BY <2>2 DEF a
  <2>6. Under(Parent(k), a) BY <2>1, <2>3, <2>4, <2>5, UnderFacts
  <2>7. a \in Above(Parent(k)) BY <2>1, <2>3, <2>5, <2>6, AboveFacts
  <2> QED BY <2>7 DEF a
<1>5. Len(k) = 1 => Above(k) = {} BY <1>1 DEF Above
<1>6. Above(k) \subseteq Key BY <1>2, Zenon DEF Above
<1>7. Len(k) # 1 => Parent(k) \in Above(k) BY <1>3 DEF Above, Parent
<1>8. Len(k) # 1 => Above(k) \subseteq Above(Parent(k)) \cup {Parent(k)} BY <1>4 DEF Above, Parent
<1> QED BY <1>5, <1>6, <1>7, <1>8

\* What is above a path that was moved.
LEMMA AboveMoved ==
  ASSUME NEW k \in Seq(Name), NEW src \in Seq(Name), NEW dst \in Seq(Name), Under(k, src),
         NEW a \in Above(Rebase(k, src, dst))
  PROVE  \/ a \in Above(dst) \cup {dst}
         \/ \E b \in Above(k) : Under(b, src) /\ a = Rebase(b, src, dst)
<1> DEFINE r == Rebase(k, src, dst)
<1>1. Len(k) > Len(src) /\ Len(k) >= Len(src) /\ \A i \in 1 .. Len(src) : k[i] = src[i] BY UnderFacts
<1>2. /\ r \in Seq(Name) /\ Len(r) = Len(dst) + Len(k) - Len(src)
      /\ \A i \in 1 .. Len(dst) : r[i] = dst[i]
      /\ \A i \in Len(dst) + 1 .. Len(dst) + Len(k) - Len(src) : r[i] = k[i - Len(dst) + Len(src)]
  BY <1>1, RebaseFacts, Zenon
<1> HIDE DEF r
<1>3. PICK n \in 1 .. Len(r) - 1 : a = SubSeq(r, 1, n) BY DEF Above, r
<1>4. a \in Seq(Name) /\ Len(a) = n /\ \A i \in 1 .. n : a[i] = r[i] BY <1>2, <1>3, PrefixFacts
<1>5. CASE n < Len(dst)
  <2>1. Under(dst, a) BY <1>2, <1>4, <1>5, UnderFacts
  <2> QED BY <1>4, <2>1, AboveFacts
<1>6. CASE n = Len(dst)
  <2>1. a = dst BY <1>2, <1>4, <1>6, Extensional
  <2> QED BY <2>1
<1>7. CASE n > Len(dst)
  <2> DEFINE m == n - Len(dst) + Len(src)
             b == SubSeq(k, 1, m)
  <2>1. m \in 1 .. Len(k) - 1 /\ m > Len(src) BY <1>1, <1>2, <1>7
  <2> HIDE DEF m
  <2>2. b \in Seq(Name) /\ Len(b) = m /\ \A i \in 1 .. m : b[i] = k[i] BY <2>1, PrefixFacts
  <2>3. b \in Above(k) BY <2>1 DEF Above
  <2> HIDE DEF b
  <2>4. Under(b, src)
    <3>1. Len(b) > Len(src) BY <2>1, <2>2
    <3>2. \A i \in 1 .. Len(src) : b[i] = src[i] BY <1>1, <2>1, <2>2
    <3> QED BY <2>2, <3>1, <3>2, UnderFacts
  <2>5. Len(b) >= Len(src) BY <2>1, <2>2
  <2> DEFINE c == Rebase(b, src, dst)
  <2>6. /\ c \in Seq(Name) /\ Len(c) = Len(dst) + Len(b) - Len(src)
        /\ \A i \in 1 .. Len(dst) : c[i] = dst[i]
        /\ \A i \in Len(dst) + 1 .. Len(dst) + Len(b) - Len(src) : c[i] = b[i - Len(dst) + Len(src)]
    BY <2>2, <2>5, RebaseFacts, Zenon
  <2> HIDE DEF c
  <2>7. Len(c) = n BY <2>2, <2>6 DEF m
  <2>8. ASSUME NEW i \in 1 .. n PROVE a[i] = c[i]
    <3>1. CASE i <= Len(dst)
      <4>1. i \in 1 .. Len(dst) BY <3>1
      <4> QED BY <1>2, <1>4, <2>6, <4>1, Zenon
    <3>2. CASE i > Len(dst)
      <4>1. i - Len(dst) + Len(src) \in 1 .. m BY <1>7, <3>2 DEF m
      <4>2. i \in Len(dst) + 1 .. Len(dst) + Len(b) - Len(src) BY <2>2, <3>2 DEF m
      <4>3. i \in Len(dst) + 1 .. Len(dst) + Len(k) - Len(src) BY <1>2, <3>2
      <4> QED BY <1>2, <1>4, <2>2, <2>6, <4>1, <4>2, <4>3, Zenon
    <3> QED BY <3>1, <3>2
  <2>9. a = c BY <1>4, <2>6, <2>7, <2>8, Extensional
  <2> QED BY <2>3, <2>4, <2>9 DEF c
<1> QED BY <1>3, <1>5, <1>6, <1>7

LEMMA RebaseItself ==
  ASSUME NEW src \in Seq(Name), NEW dst \in Seq(Name)
  PROVE  Rebase(src, src, dst) = dst
<1> DEFINE r == Rebase(src, src, dst)
<1>1. Len(src) >= Len(src) OBVIOUS
<1>2. r \in Seq(Name) /\ Len(r) = Len(dst) + Len(src) - Len(src) /\ \A i \in 1 .. Len(dst) : r[i] = dst[i]
  BY <1>1, RebaseFacts, Zenon
<1> HIDE DEF r
<1>3. Len(r) = Len(dst) BY <1>2
<1>4. r = dst BY <1>2, <1>3, Extensional
<1> QED BY <1>4 DEF r

\* Moving the directory src to dst, where there is nothing below dst.
Movable(d, f, src, dst) ==
    /\ ~Under(dst, src) /\ Above(dst) \subseteq d
    /\ \A k \in d : ~Under(k, dst)
    /\ \A k \in Key : f[k] # None => ~Under(k, dst)
    /\ \A k \in Key : Under(k, src) /\ (f[k] # None \/ k \in d) => Rebase(k, src, dst) \in Key

LEMMA MoveKeepsFiles ==
  ASSUME NEW d, NEW f, NEW src \in Key, NEW dst \in Key, Rooted(d, f), Movable(d, f, src, dst)
  PROVE  /\ TreeMoved(f, src, dst) \in [Key -> Entry \cup {None}]
         /\ \A k \in Key : f[k] # None /\ Under(k, src) =>
               Rebase(k, src, dst) \in Key /\ TreeMoved(f, src, dst)[Rebase(k, src, dst)] = f[k]
         /\ \A k \in Key : f[k] # None /\ ~Under(k, src) => TreeMoved(f, src, dst)[k] = f[k]
         /\ \A k \in Key : TreeMoved(f, src, dst)[k] # None =>
               \/ f[k] # None /\ ~Under(k, src)
               \/ \E j \in Key : f[j] # None /\ Under(j, src) /\ k = Rebase(j, src, dst)
<1> DEFINE Comes(k) == \E j \in Key : Under(j, src) /\ f[j] # None /\ Rebase(j, src, dst) = k
           g == TreeMoved(f, src, dst)
<1>0. g = [k \in Key |-> IF Comes(k) THEN f[Rebase(k, dst, src)] ELSE IF Under(k, src) THEN None ELSE f[k]]
  BY DEF TreeMoved
<1> HIDE DEF g
<1>1. \A k \in Key : k \in Seq(Name) BY KeyIsSequence
<1>2. ASSUME NEW j \in Key, Under(j, src), f[j] # None
      PROVE  /\ Rebase(j, src, dst) \in Key /\ Under(Rebase(j, src, dst), dst)
             /\ Rebase(Rebase(j, src, dst), dst, src) = j
  BY <1>1, <1>2, RebaseBack DEF Movable
<1>3. ASSUME NEW k \in Key, Comes(k)
      PROVE  /\ Under(k, dst) /\ Rebase(k, dst, src) \in Key /\ f[Rebase(k, dst, src)] # None
             /\ Under(Rebase(k, dst, src), src) /\ k = Rebase(Rebase(k, dst, src), src, dst)
  <2>1. PICK j \in Key : Under(j, src) /\ f[j] # None /\ Rebase(j, src, dst) = k BY <1>3
  <2> QED BY <1>2, <2>1
<1>4. f \in [Key -> Entry \cup {None}] BY DEF Rooted
<1>5. g \in [Key -> Entry \cup {None}]
  <2>1. ASSUME NEW k \in Key
        PROVE  (IF Comes(k) THEN f[Rebase(k, dst, src)] ELSE IF Under(k, src) THEN None ELSE f[k]) \in Entry \cup {None}
    <3>1. CASE Comes(k) BY <1>3, <1>4, <3>1
    <3>2. CASE ~Comes(k) BY <1>4, <3>2
    <3> QED BY <3>1, <3>2
  <2> QED BY <1>0, <2>1
<1>6. ASSUME NEW k \in Key, f[k] # None, Under(k, src)
      PROVE  Rebase(k, src, dst) \in Key /\ g[Rebase(k, src, dst)] = f[k]
  <2>1. Comes(Rebase(k, src, dst)) BY <1>6
  <2> QED BY <1>0, <1>2, <1>6, <2>1
<1>7. ASSUME NEW k \in Key, f[k] # None, ~Under(k, src) PROVE g[k] = f[k]
  <2>1. ~Comes(k) BY <1>3, <1>7 DEF Movable
  <2> QED BY <1>0, <1>7, <2>1
<1>8. ASSUME NEW k \in Key, g[k] # None
      PROVE  \/ f[k] # None /\ ~Under(k, src)
             \/ \E j \in Key : f[j] # None /\ Under(j, src) /\ k = Rebase(j, src, dst)
  <2>1. CASE Comes(k) BY <2>1
  <2>2. CASE ~Comes(k) BY <1>0, <1>8, <2>2
  <2> QED BY <2>1, <2>2
<1> QED BY <1>5, <1>6, <1>7, <1>8 DEF g

LEMMA MoveKeepsRooted ==
  ASSUME NEW d, NEW f, NEW src \in Key, NEW dst \in Key, Rooted(d, f), Movable(d, f, src, dst)
  PROVE  Rooted(DirectoriesMoved(d, src, dst), TreeMoved(f, src, dst))
<1> DEFINE e == DirectoriesMoved(d, src, dst)
           g == TreeMoved(f, src, dst)
           Moves(k) == k = src \/ Under(k, src)
<1>1. \A k \in Key : k \in Seq(Name) /\ Len(k) > 0 BY KeyIsSequence, BoundsAssumption
<1>2. /\ d \subseteq Key /\ \A k \in d : Above(k) \subseteq d
      /\ \A k \in Key : f[k] # None => Above(k) \subseteq d
  BY DEF Rooted
<1>3. e = {IF Moves(k) THEN Rebase(k, src, dst) ELSE k : k \in d} BY DEF DirectoriesMoved
<1>4. \A k \in d : IF Moves(k) THEN Rebase(k, src, dst) \in e ELSE k \in e BY <1>3
<1>5. ASSUME NEW k \in e
      PROVE  \/ k \in d /\ ~Moves(k)
             \/ k = dst
             \/ \E j \in d : Under(j, src) /\ k = Rebase(j, src, dst)
  BY <1>1, <1>3, RebaseItself
<1> HIDE DEF e
\* What does not move keeps what is above it.
<1>6. ASSUME NEW k \in Key, ~Under(k, src), Above(k) \subseteq d
      PROVE  Above(k) \subseteq e
  <2> SUFFICES ASSUME NEW a \in Above(k) PROVE a \in e OBVIOUS
  <2>1. a \in d /\ a \in Key BY <1>2, <1>6
  <2>2. Under(k, a) BY <1>1, <2>1, AboveFacts
  <2>3. ~Moves(a) BY <1>1, <1>6, <2>1, <2>2, UnderIsTransitive
  <2> QED BY <1>4, <2>1, <2>3
<1>7. Above(dst) \subseteq e BY <1>6 DEF Movable
<1>8. ASSUME NEW j \in Key, Under(j, src), Above(j) \subseteq d
      PROVE  Above(Rebase(j, src, dst)) \subseteq e
  <2> SUFFICES ASSUME NEW a \in Above(Rebase(j, src, dst)) PROVE a \in e OBVIOUS
  <2>1. src \in d BY <1>1, <1>8, AboveFacts
  <2>2. dst \in e BY <1>1, <1>4, <2>1, RebaseItself
  <2>3. \/ a \in Above(dst) \cup {dst}
        \/ \E b \in Above(j) : Under(b, src) /\ a = Rebase(b, src, dst)
    BY <1>1, <1>8, AboveMoved
  <2>4. ASSUME NEW b \in Above(j), Under(b, src) PROVE Rebase(b, src, dst) \in e BY <1>4, <1>8, <2>4
  <2> QED BY <1>7, <2>2, <2>3, <2>4
<1>9. e \subseteq Key /\ \A k \in e : Above(k) \subseteq e
  <2> SUFFICES ASSUME NEW k \in e PROVE k \in Key /\ Above(k) \subseteq e OBVIOUS
  <2>1. CASE k \in d /\ ~Moves(k) BY <1>2, <1>6, <2>1
  <2>2. CASE k = dst BY <1>7, <2>2
  <2>3. CASE \E j \in d : Under(j, src) /\ k = Rebase(j, src, dst)
    BY <1>2, <1>8, <2>3 DEF Movable
  <2> QED BY <1>5, <2>1, <2>2, <2>3
<1>10. ASSUME NEW k \in Key, g[k] # None PROVE Above(k) \subseteq e
  <2>1. CASE f[k] # None /\ ~Under(k, src) BY <1>2, <1>6, <2>1
  <2>2. CASE \E j \in Key : f[j] # None /\ Under(j, src) /\ k = Rebase(j, src, dst) BY <1>2, <1>8, <2>2
  <2> QED BY <1>10, <2>1, <2>2, MoveKeepsFiles
<1>11. g \in [Key -> Entry \cup {None}] BY MoveKeepsFiles
<1> QED BY <1>9, <1>10, <1>11 DEF Rooted, e

-----------------------------------------------------------------------------
(* The index.                                                              *)

LEMMA IndexFacts ==
  ASSUME NEW d, NEW f, Rooted(d, f)
  PROVE  IndexRooted(Index(d, f)) /\ Lists(Index(d, f), d, f)
<1>1. f \in [Key -> Entry \cup {None}] BY DEF Rooted
<1>2. /\ Index(d, f).directories = d
      /\ Index(d, f).files = [k \in Key |-> IF f[k] # None /\ ~f[k].pending THEN f[k].id ELSE None]
  BY DEF Index
<1>3. ASSUME NEW k \in Key
      PROVE  /\ Index(d, f).files[k] \in FileId \cup {None}
             /\ Index(d, f).files[k] # None => f[k] # None
    BY <1>1, <1>2 DEF Entry
<1>4. \A k \in Key : Index(d, f).files[k] = IF f[k] # None /\ ~f[k].pending THEN f[k].id ELSE None BY <1>2
<1>5. Lists(Index(d, f), d, f)
  <2> SUFFICES ASSUME NEW k \in Key
               PROVE  \/ f[k] = None /\ Index(d, f).files[k] = None
                      \/ f[k] # None /\ f[k].pending /\ Index(d, f).files[k] \in {None, f[k].id}
                      \/ f[k] # None /\ ~f[k].pending /\ Index(d, f).files[k] = f[k].id
    BY <1>2 DEF Lists
  <2>1. Index(d, f).files[k] = IF f[k] # None /\ ~f[k].pending THEN f[k].id ELSE None BY <1>4
  <2>2. CASE f[k] = None BY <2>1, <2>2
  <2>3. CASE f[k] # None /\ f[k].pending BY <2>1, <2>3
  <2>4. CASE f[k] # None /\ ~f[k].pending BY <2>1, <2>4
  <2> QED BY <2>2, <2>3, <2>4
<1>6. IndexRooted(Index(d, f))
  <2>1. Index(d, f).files \in [Key -> FileId \cup {None}] BY <1>2, <1>3
  <2> QED BY <1>2, <1>3, <2>1 DEF IndexRooted, Rooted
<1> QED BY <1>5, <1>6

\* Whether it succeeds or fails, before or after the rename, an operation that
\* goes from one rooted tree to another leaves tree and index sound.
Sound == Rooted(directories, files) /\ IndexRooted(record) /\ IndexAgrees

LEMMA CommitIsSound ==
  ASSUME NEW d0, NEW f0, NEW r, NEW d, NEW f, NEW hs,
         Rooted(d0, f0), Rooted(d, f), IndexRooted(r), ~diverged => Lists(r, d0, f0),
         CommitOver(d0, f0, r, d, f, hs)
  PROVE  /\ Sound'
         /\ \/ reply' = "ok" /\ files' = f /\ handles' = hs
            \/ reply' = "io" /\ files' = f0 /\ handles' = handles
<1>1. IndexRooted(Index(d, f)) /\ Lists(Index(d, f), d, f) BY IndexFacts
<1>2. CASE directories' = d /\ files' = f /\ handles' = hs /\ record' = Index(d, f) /\ diverged' = FALSE /\ reply' = "ok"
  BY <1>1, <1>2 DEF Sound, IndexAgrees
<1>3. CASE directories' = d0 /\ files' = f0 /\ handles' = handles /\ PersistFails(d, f, r) /\ reply' = "io"
  <2>1. CASE record' = r /\ diverged' = diverged BY <1>3, <2>1 DEF Sound, IndexAgrees
  <2>2. CASE record' = Index(d, f) /\ diverged' = TRUE BY <1>1, <1>3, <2>2 DEF Sound, IndexAgrees
  <2> QED BY <1>3, <2>1, <2>2, Zenon DEF PersistFails
<1> QED BY <1>2, <1>3, Zenon DEF CommitOver

\* No handle is closed.
StaysOpen == \A h \in Handle : handles[h] # None => handles'[h] # None

LEMMA RefuseKeepsInv ==
  ASSUME NEW e, Inv, Refuse(e), UNCHANGED nextFile
  PROVE  Inv' /\ StaysOpen
  BY DEF Refuse, memory, Inv, IndexAgrees, Lead, StaysOpen

\* What an operation has to show.
LEMMA InvFrom ==
  ASSUME nextFile' \in Nat \ {0}, handles' \in [Handle -> Open \cup {None}], DOMAIN opened' = Handle,
         Sound', Lead(handles, files)'
  PROVE  Inv'
  BY DEF Inv, Sound

-----------------------------------------------------------------------------
(* Creating, opening and flushing.                                         *)

LEMMA AboveOfParent ==
  ASSUME NEW d, NEW f, Rooted(d, f), NEW k \in Key, Len(k) = 1 \/ Parent(k) \in d
  PROVE  Above(k) \subseteq d
<1>1. CASE Len(k) = 1 BY <1>1, AboveIsKey
<1>2. CASE Len(k) # 1 BY <1>2, AboveIsKey DEF Rooted
<1> QED BY <1>1, <1>2

LEMMA CreateDirectoryKeepsInv ==
  ASSUME Inv, NEW k \in Key, CreateDirectory(k)
  PROVE  Inv' /\ StaysOpen
<1>1. nextFile' = nextFile BY DEF CreateDirectory
<1>2. CASE \E e \in {"AlreadyExists", "NotFound"} : Refuse(e) BY <1>1, <1>2, RefuseKeepsInv
<1>3. CASE HasParent(k) /\ Commit(directories \cup {k}, files, handles) /\ opened' = opened
  <2>1. Rooted(directories, files) /\ IndexRooted(record) /\ (~diverged => Lists(record, directories, files))
    BY DEF Inv, IndexAgrees
  <2>2. Above(k) \subseteq directories BY <1>3, <2>1, AboveOfParent DEF HasParent
  <2>3. Rooted(directories \cup {k}, files) BY <2>1, <2>2 DEF Rooted
  <2>4. Sound' /\ files' = files /\ handles' = handles
    BY <1>3, <2>1, <2>3, CommitIsSound DEF Commit
  <2> QED BY <1>1, <1>3, <2>4, InvFrom DEF Inv, Lead, StaysOpen
<1> QED BY <1>2, <1>3 DEF CreateDirectory

LEMMA CreateOrOpenKeepsInv ==
  ASSUME Inv, NEW h \in Handle, NEW k \in Key, NEW create \in BOOLEAN, NEW allowDelete \in BOOLEAN,
         CreateOrOpen(h, k, create, allowDelete)
  PROVE  Inv'
<1> DEFINE state == [path |-> k, allowDelete |-> allowDelete]
           new == [id |-> nextFile, pending |-> FALSE]
<1>1. /\ Rooted(directories, files) /\ IndexRooted(record) /\ (~diverged => Lists(record, directories, files))
      /\ nextFile \in Nat \ {0} /\ handles \in [Handle -> Open \cup {None}] /\ DOMAIN opened = Handle
      /\ Lead(handles, files)
  BY DEF Inv, IndexAgrees
<1>2. state \in Open /\ state # None /\ state.path = k BY NoneAssumption DEF Open
<1>3. files \in [Key -> Entry \cup {None}] BY <1>1 DEF Rooted
<1>4. \A g \in Handle : handles[g] # None => handles[g].path \in Key BY <1>1 DEF Open
<1> HIDE DEF state
<1>5. CASE (Refuse("DeletePending") \/ Refuse("NotFound")) /\ nextFile' = nextFile BY <1>5, RefuseKeepsInv
<1>6. CASE /\ files[k] # None
           /\ handles' = [handles EXCEPT ![h] = state] /\ opened' = [opened EXCEPT ![h] = files[k].id]
           /\ UNCHANGED <<directories, files, record, diverged, nextFile>>
  <2>1. Lead(handles, files)' BY <1>1, <1>2, <1>6 DEF Lead
  <2>2. Sound' BY <1>1, <1>6 DEF Sound, IndexAgrees
  <2>3. handles' \in [Handle -> Open \cup {None}] BY <1>1, <1>2, <1>6
  <2> QED BY <1>1, <1>6, <2>1, <2>2, <2>3, InvFrom
<1>7. CASE /\ files[k] = None /\ HasParent(k) /\ nextFile <= MaxFile /\ nextFile' = nextFile + 1
           /\ Commit(directories, [files EXCEPT ![k] = new], [handles EXCEPT ![h] = state])
           /\ opened' = IF reply' = "ok" THEN [opened EXCEPT ![h] = nextFile] ELSE opened
  <2> DEFINE f == [files EXCEPT ![k] = new]
  <2>0. nextFile \in FileId BY <1>1, <1>7, BoundsAssumption DEF FileId
  <2>1. new \in Entry /\ new # None /\ new.id = nextFile
    <3>1. new \in Entry BY <2>0 DEF Entry
    <3> QED BY <3>1, NoneAssumption, Zenon
  <2> HIDE DEF new
  <2>2. f \in [Key -> Entry \cup {None}] /\ f[k] = new /\ \A j \in Key : j # k => f[j] = files[j] BY <1>3, <2>1
  <2>3. Above(k) \subseteq directories BY <1>1, <1>7, AboveOfParent DEF HasParent
  <2>4. Rooted(directories, f) BY <1>1, <2>2, <2>3 DEF Rooted
  <2>5. /\ Sound'
        /\ \/ reply' = "ok" /\ files' = f /\ handles' = [handles EXCEPT ![h] = state]
           \/ reply' = "io" /\ files' = files /\ handles' = handles
    BY <1>1, <1>7, <2>4, CommitIsSound, Zenon DEF Commit
  <2> HIDE DEF f
  <2>6. CASE reply' = "ok" /\ files' = f /\ handles' = [handles EXCEPT ![h] = state]
    <3>1. opened' = [opened EXCEPT ![h] = nextFile] BY <1>7, <2>6
    <3>2. ASSUME NEW g \in Handle, handles'[g] # None
          PROVE  files'[handles'[g].path] # None /\ files'[handles'[g].path].id = opened'[g]
      <4>1. CASE g = h BY <1>1, <1>2, <2>1, <2>2, <2>6, <3>1, <4>1
      <4>2. CASE g # h
        <5>1. handles'[g] = handles[g] /\ opened'[g] = opened[g] BY <1>1, <2>6, <3>1, <4>2
        <5>2. handles[g].path # k BY <1>1, <1>7, <3>2, <5>1 DEF Lead
        <5> QED BY <1>1, <1>4, <2>2, <2>6, <3>2, <5>1, <5>2 DEF Lead
      <4> QED BY <4>1, <4>2
    <3>3. Lead(handles, files)' BY <3>2 DEF Lead
    <3>4. handles' \in [Handle -> Open \cup {None}] BY <1>1, <1>2, <2>6
    <3>5. nextFile' \in Nat \ {0} /\ DOMAIN opened' = Handle BY <1>1, <1>7, <3>1
    <3> QED BY <2>5, <3>3, <3>4, <3>5, InvFrom
  <2>7. CASE reply' = "io" /\ files' = files /\ handles' = handles
    <3>1. opened' = opened BY <1>7, <2>7
    <3>2. Lead(handles, files)' BY <1>1, <2>7, <3>1 DEF Lead
    <3> QED BY <1>1, <1>7, <2>5, <2>7, <3>1, <3>2, InvFrom
  <2> QED BY <2>5, <2>6, <2>7
<1> QED BY <1>5, <1>6, <1>7 DEF CreateOrOpen, state, new

LEMMA FlushHandleKeepsInv ==
  ASSUME Inv, NEW h \in Handle, FlushHandle(h, TRUE, TRUE)
  PROVE  Inv' /\ StaysOpen
<1>1. nextFile' = nextFile BY DEF FlushHandle
<1>2. CASE Refuse("NotFound") \/ Refuse("io") BY <1>1, <1>2, RefuseKeepsInv, Zenon
<1>3. CASE Commit(directories, files, handles) /\ opened' = opened
  <2>1. Sound' /\ files' = files /\ handles' = handles
    BY <1>3, CommitIsSound, Zenon DEF Commit, Inv, IndexAgrees
  <2> QED BY <1>1, <1>3, <2>1, InvFrom DEF Inv, Lead, StaysOpen
<1> QED BY <1>2, <1>3 DEF FlushHandle

-----------------------------------------------------------------------------
(* Deleting and closing.                                                   *)

LEMMA DeleteFacts ==
  ASSUME Inv, NEW k \in Key \cup {Root}, DeleteAllowed(k) = "ok", NEW d, NEW f, NEW r,
         d = DirectoriesAfterDelete(k), f = FilesAfterDelete(k),
         r = IF MarksPending(k) THEN record ELSE Index(d, f)
  PROVE  /\ k \in Key
         /\ d \subseteq directories /\ \A j \in Key : f[j] # None => files[j] # None
         /\ d = directories \/ (d = directories \ {k} /\ Childless(k))
         /\ MarksPending(k) => d = directories
         /\ Rooted(d, f) /\ Lead(handles, f)
         /\ IndexRooted(r) /\ (~diverged => Lists(r, d, f))
<1>1. /\ Rooted(directories, files) /\ IndexRooted(record) /\ Lead(handles, files)
      /\ (~diverged => Lists(record, directories, files)) /\ handles \in [Handle -> Open \cup {None}]
  BY DEF Inv, IndexAgrees
<1>2. /\ directories \subseteq Key /\ files \in [Key -> Entry \cup {None}]
      /\ \A j \in directories : Above(j) \subseteq directories
      /\ \A j \in Key : files[j] # None => Above(j) \subseteq directories
  BY <1>1 DEF Rooted
<1>3. \A g \in Handle : handles[g] # None => handles[g].path \in Key BY <1>1 DEF Open
<1>4. k \in Key BY Zenon DEF DeleteAllowed, IsDirectory
<1>5. CASE IsDirectory(k)
  <2>1. d = directories \ {k} /\ f = files /\ ~MarksPending(k) /\ Childless(k)
    BY <1>5 DEF DirectoriesAfterDelete, FilesAfterDelete, MarksPending, DeleteAllowed
  <2>2. \A j \in Key : j \in Seq(Name) /\ Len(j) > 0 BY KeyIsSequence, BoundsAssumption
  <2>3. ASSUME NEW j \in Key, j \in directories \/ files[j] # None PROVE k \notin Above(j)
    BY <1>4, <2>1, <2>2, <2>3, AboveFacts DEF Childless
  <2>4. Rooted(d, f) BY <1>2, <2>1, <2>3 DEF Rooted
  <2>5. r = Index(d, f) BY <2>1
  <2>6. IndexRooted(r) /\ Lists(r, d, f) BY <2>4, <2>5, IndexFacts
  <2> QED BY <1>1, <1>4, <2>1, <2>4, <2>6
<1>6. CASE ~IsDirectory(k) /\ MarksPending(k)
  <2>1. d = directories /\ f = [files EXCEPT ![k].pending = TRUE] /\ r = record /\ files[k] # None
    BY <1>6 DEF DirectoriesAfterDelete, FilesAfterDelete, DeleteAllowed
  <2>2. files[k] \in Entry /\ files[k].id \in FileId BY <1>2, <1>4, <2>1 DEF Entry
  <2>3. f[k] = [files[k] EXCEPT !.pending = TRUE] /\ \A j \in Key : j # k => f[j] = files[j]
    BY <1>2, <1>4, <2>1
  <2>4. f[k] \in Entry BY <2>2, <2>3, Zenon DEF Entry
  <2>5. f[k].id = files[k].id /\ f[k] # None BY <2>2, <2>3, <2>4, NoneAssumption, Zenon DEF Entry
  <2>6. f[k].pending
    <3>1. f[k].pending = TRUE BY <2>2, <2>3 DEF Entry
    <3> QED BY <3>1
  <2>7. f \in [Key -> Entry \cup {None}]
    <3>1. f = [j \in Key |-> f[j]] BY <1>2, <2>1, Zenon
    <3>2. \A j \in Key : f[j] \in Entry \cup {None} BY <1>2, <2>3, <2>4
    <3> QED BY <3>1, <3>2, Zenon
  <2>8. \A j \in Key : f[j] # None => files[j] # None BY <2>1, <2>3
  <2>9. Rooted(d, f) BY <1>2, <2>1, <2>7, <2>8 DEF Rooted
  <2>10. Lead(handles, f) BY <1>1, <1>3, <2>3, <2>5, Zenon DEF Lead
  <2>11. ASSUME ~diverged PROVE Lists(r, d, f)
    <3>1. record.files[k] \in {None, files[k].id} BY <1>1, <1>4, <2>1, <2>11 DEF Lists
    <3>2. r.directories = d BY <1>1, <2>1, <2>11, Zenon DEF Lists
    <3>3. ASSUME NEW j \in Key
          PROVE  \/ f[j] = None /\ r.files[j] = None
                 \/ f[j] # None /\ f[j].pending /\ r.files[j] \in {None, f[j].id}
                 \/ f[j] # None /\ ~f[j].pending /\ r.files[j] = f[j].id
      <4>1. CASE j = k BY <2>1, <2>5, <2>6, <3>1, <4>1
      <4>2. CASE j # k
        <5>1. f[j] = files[j] BY <2>3, <4>2
        <5> QED BY <1>1, <2>1, <2>11, <5>1, Zenon DEF Lists
      <4> QED BY <4>1, <4>2
    <3> QED BY <3>2, <3>3 DEF Lists
  <2> QED BY <1>1, <1>4, <2>1, <2>8, <2>9, <2>10, <2>11
<1>7. CASE ~IsDirectory(k) /\ ~MarksPending(k)
  <2>1. d = directories /\ f = [files EXCEPT ![k] = None] /\ r = Index(d, f) /\ HandlesOf(k) = {}
    BY <1>7 DEF DirectoriesAfterDelete, FilesAfterDelete, MarksPending
  <2>2. f \in [Key -> Entry \cup {None}] /\ f[k] = None /\ \A j \in Key : j # k => f[j] = files[j]
    BY <1>2, <1>4, <2>1
  <2>3. \A j \in Key : f[j] # None => files[j] # None BY <2>2
  <2>4. Rooted(d, f) BY <1>2, <2>1, <2>2, <2>3 DEF Rooted
  <2>5. \A g \in Handle : handles[g] # None => handles[g].path # k BY <2>1, Zenon DEF HandlesOf
  <2>6. Lead(handles, f) BY <1>1, <1>3, <2>2, <2>5 DEF Lead
  <2>7. IndexRooted(r) /\ Lists(r, d, f) BY <2>1, <2>4, IndexFacts
  <2> QED BY <1>4, <2>1, <2>3, <2>4, <2>6, <2>7
<1> QED BY <1>5, <1>6, <1>7

LEMMA DeleteKeepsInv ==
  ASSUME Inv, NEW k \in Key \cup {Root}, Delete(k)
  PROVE  Inv' /\ StaysOpen
<1> DEFINE d == DirectoriesAfterDelete(k)
           f == FilesAfterDelete(k)
           r == IF MarksPending(k) THEN record ELSE Index(d, f)
<1>1. nextFile' = nextFile BY DEF Delete
<1>2. CASE Refuse(DeleteAllowed(k)) BY <1>1, <1>2, RefuseKeepsInv
<1>3. CASE DeleteAllowed(k) = "ok" /\ MarksPending(k) /\ files' = f
           /\ UNCHANGED <<directories, handles, record, diverged, opened>>
  <2>1. d = directories /\ Rooted(d, f) /\ Lead(handles, f) /\ IndexRooted(r) /\ (~diverged => Lists(r, d, f))
    BY <1>3, DeleteFacts
  <2>2. r = record BY <1>3
  <2> HIDE DEF d, f, r
  <2>3. Sound' BY <1>3, <2>1, <2>2, Zenon DEF Sound, IndexAgrees
  <2>4. Lead(handles, files)' BY <1>3, <2>1 DEF Lead
  <2> QED BY <1>1, <1>3, <2>3, <2>4, InvFrom, Zenon DEF Inv, StaysOpen
<1>4. CASE DeleteAllowed(k) = "ok" /\ ~MarksPending(k) /\ Commit(d, f, handles) /\ opened' = opened
  <2>1. Rooted(d, f) /\ Lead(handles, f) BY <1>4, DeleteFacts
  <2> HIDE DEF d, f
  <2>2. Sound' /\ (files' = f \/ files' = files) /\ handles' = handles
    BY <1>4, <2>1, CommitIsSound DEF Commit, Inv, IndexAgrees
  <2>3. Lead(handles, files)' BY <1>4, <2>1, <2>2 DEF Lead, Inv
  <2> QED BY <1>1, <1>4, <2>2, <2>3, InvFrom, Zenon DEF Inv, StaysOpen
<1> QED BY <1>2, <1>3, <1>4 DEF Delete

LEMMA CloseHandleKeepsInv ==
  ASSUME Inv, NEW h \in Handle, CloseHandle(h)
  PROVE  Inv'
<1> DEFINE k == handles[h].path
           gone == [files EXCEPT ![k] = None]
<1>1. /\ Rooted(directories, files) /\ IndexRooted(record) /\ Lead(handles, files)
      /\ (~diverged => Lists(record, directories, files)) /\ handles \in [Handle -> Open \cup {None}]
      /\ DOMAIN opened = Handle /\ nextFile \in Nat \ {0}
  BY DEF Inv, IndexAgrees
<1>2. \A g \in Handle : handles[g] # None => handles[g].path \in Key BY <1>1 DEF Open
<1>3. /\ handles[h] # None /\ handles' = [handles EXCEPT ![h] = None] /\ opened' = [opened EXCEPT ![h] = None]
      /\ directories' = directories /\ nextFile' = nextFile
  BY DEF CloseHandle
<1>4. k \in Key BY <1>2, <1>3
<1>5. handles' \in [Handle -> Open \cup {None}] /\ DOMAIN opened' = Handle BY <1>1, <1>3
<1>6. \A g \in Handle : handles'[g] # None => g # h /\ handles'[g] = handles[g] /\ opened'[g] = opened[g]
  BY <1>1, <1>3
<1>7. Rooted(directories, gone)
  <2>1. gone \in [Key -> Entry \cup {None}] /\ \A j \in Key : gone[j] # None => files[j] # None
    BY <1>1, <1>4 DEF Rooted
  <2> QED BY <1>1, <2>1 DEF Rooted
<1>8. IndexRooted(Index(directories, gone)) /\ Lists(Index(directories, gone), directories, gone)
  BY <1>7, IndexFacts
<1>9. CASE files' = files /\ record' = record /\ diverged' = diverged
  <2>1. Sound' BY <1>1, <1>3, <1>9, Zenon DEF Sound, IndexAgrees
  <2>2. Lead(handles, files)' BY <1>1, <1>6, <1>9 DEF Lead
  <2> QED BY <1>1, <1>3, <1>5, <2>1, <2>2, InvFrom
<1>10. CASE HandlesOf(k) = {h} /\ files' = gone /\ record' = Index(directories, gone) /\ diverged' = FALSE
  <2>1. Sound' BY <1>3, <1>7, <1>8, <1>10 DEF Sound, IndexAgrees
  <2>2. \A g \in Handle : g # h /\ handles[g] # None => handles[g].path # k BY <1>10 DEF HandlesOf
  <2>3. \A j \in Key : j # k => gone[j] = files[j] BY <1>1 DEF Rooted
  <2>4. Lead(handles, files)' BY <1>1, <1>2, <1>6, <1>10, <2>2, <2>3 DEF Lead
  <2> QED BY <1>1, <1>3, <1>5, <2>1, <2>4, InvFrom
<1>11. CASE files' = files /\ record' = Index(directories, gone) /\ diverged' = TRUE
  <2>1. Sound' BY <1>1, <1>3, <1>8, <1>11 DEF Sound, IndexAgrees
  <2>2. Lead(handles, files)' BY <1>1, <1>6, <1>11 DEF Lead
  <2> QED BY <1>1, <1>3, <1>5, <2>1, <2>2, InvFrom
<1> QED BY <1>9, <1>10, <1>11, Zenon DEF CloseHandle, PersistFails

-----------------------------------------------------------------------------
(* Renaming.                                                               *)

LEMMA FileMoveFacts ==
  ASSUME Inv, NEW d, NEW f, NEW src \in Key, NEW dst \in Key, Rooted(d, f), Lead(handles, f),
         Above(dst) \subseteq d, f[dst] = None, f[src] # None
  PROVE  /\ Rooted(d, FileMoved(f, src, dst))
         /\ Lead(HandlesFollow(src, dst), FileMoved(f, src, dst))
         /\ HandlesFollow(src, dst) \in [Handle -> Open \cup {None}]
         /\ \A h \in Handle : handles[h] # None => HandlesFollow(src, dst)[h] # None
<1> DEFINE g == FileMoved(f, src, dst)
           hs == HandlesFollow(src, dst)
<1>1. f \in [Key -> Entry \cup {None}] /\ handles \in [Handle -> Open \cup {None}] BY DEF Rooted, Inv
<1>2. src # dst OBVIOUS
<1>3. /\ g \in [Key -> Entry \cup {None}] /\ g[dst] = f[src] /\ g[src] = None
      /\ \A k \in Key : k # src /\ k # dst => g[k] = f[k]
  BY <1>1, <1>2 DEF FileMoved
<1>4. ASSUME NEW h \in Handle, handles[h] # None
      PROVE  /\ handles[h] \in Open /\ handles[h].path \in Key /\ handles[h].path # dst
             /\ handles[h].path = src => hs[h] = [handles[h] EXCEPT !.path = dst]
             /\ handles[h].path # src => hs[h] = handles[h]
  BY <1>1, <1>4 DEF Open, HandlesFollow, HandlesOf, Lead
<1>5. \A h \in Handle : handles[h] = None => hs[h] = None BY DEF HandlesFollow, HandlesOf
<1>6. ASSUME NEW h \in Handle, handles[h] # None, handles[h].path = src
      PROVE  hs[h] \in Open /\ hs[h].path = dst
  BY <1>4, <1>6, Zenon DEF Open
<1>7. hs \in [Handle -> Open \cup {None}]
  <2>1. hs = [h \in Handle |-> hs[h]] BY DEF HandlesFollow
  <2>2. \A h \in Handle : hs[h] \in Open \cup {None} BY <1>4, <1>5, <1>6, Zenon
  <2> QED BY <2>1, <2>2, Zenon
<1> HIDE DEF g, hs
<1>8. Rooted(d, g) BY <1>3 DEF Rooted
<1>9. ASSUME NEW h \in Handle, hs[h] # None
      PROVE  g[hs[h].path] # None /\ g[hs[h].path].id = opened[h]
  <2>1. handles[h] # None BY <1>5, <1>9
  <2>2. CASE handles[h].path = src BY <1>3, <1>6, <2>1, <2>2 DEF Lead
  <2>3. CASE handles[h].path # src
    <3>1. hs[h] = handles[h] BY <1>4, <2>1, <2>3, Zenon
    <3>2. g[handles[h].path] = f[handles[h].path] BY <1>3, <1>4, <2>1, <2>3, Zenon
    <3> QED BY <2>1, <3>1, <3>2 DEF Lead
  <2> QED BY <2>2, <2>3
<1>10. Lead(hs, g) BY <1>9 DEF Lead
<1>11. \A h \in Handle : handles[h] # None => hs[h] # None BY <1>4, <1>6, NoneAssumption, Zenon
<1> QED BY <1>7, <1>8, <1>10, <1>11 DEF g, hs

LEMMA TreeMoveFacts ==
  ASSUME Inv, NEW d, NEW f, NEW src \in Key, NEW dst \in Key, Rooted(d, f), Lead(handles, f),
         Movable(d, f, src, dst)
  PROVE  /\ Lead(TreeHandlesFollow(src, dst), TreeMoved(f, src, dst))
         /\ TreeHandlesFollow(src, dst) \in [Handle -> Open \cup {None}]
         /\ \A h \in Handle : handles[h] # None => TreeHandlesFollow(src, dst)[h] # None
<1> DEFINE g == TreeMoved(f, src, dst)
           hs == TreeHandlesFollow(src, dst)
           To(k) == Rebase(k, src, dst)
<1>1. handles \in [Handle -> Open \cup {None}] BY Zenon DEF Inv
<1>2. /\ \A k \in Key : f[k] # None /\ Under(k, src) => To(k) \in Key /\ g[To(k)] = f[k]
      /\ \A k \in Key : f[k] # None /\ ~Under(k, src) => g[k] = f[k]
  BY MoveKeepsFiles
<1>3. ASSUME NEW h \in Handle, handles[h] # None
      PROVE  /\ handles[h] \in Open /\ handles[h].path \in Key
             /\ f[handles[h].path] # None /\ f[handles[h].path].id = opened[h]
             /\ Under(handles[h].path, src) => hs[h] = [handles[h] EXCEPT !.path = To(handles[h].path)]
             /\ ~Under(handles[h].path, src) => hs[h] = handles[h]
  BY <1>1, <1>3 DEF Open, TreeHandlesFollow, Lead
<1>4. \A h \in Handle : handles[h] = None => hs[h] = None BY DEF TreeHandlesFollow
<1>5. hs = [h \in Handle |-> hs[h]] BY DEF TreeHandlesFollow
<1> HIDE DEF g, hs, To
<1>6. ASSUME NEW h \in Handle, handles[h] # None, Under(handles[h].path, src)
      PROVE  hs[h] \in Open /\ hs[h].path = To(handles[h].path)
  <2>1. To(handles[h].path) \in Key BY <1>2, <1>3, <1>6, Zenon
  <2> QED BY <1>3, <1>6, <2>1, Zenon DEF Open
<1>7. hs \in [Handle -> Open \cup {None}]
  <2>1. \A h \in Handle : hs[h] \in Open \cup {None} BY <1>3, <1>4, <1>6, Zenon
  <2> QED BY <1>5, <2>1, Zenon
<1>8. ASSUME NEW h \in Handle, hs[h] # None
      PROVE  g[hs[h].path] # None /\ g[hs[h].path].id = opened[h]
  <2>1. handles[h] # None BY <1>4, <1>8
  <2>2. CASE Under(handles[h].path, src)
    <3>1. hs[h].path = To(handles[h].path) BY <1>6, <2>1, <2>2
    <3>2. g[To(handles[h].path)] = f[handles[h].path] BY <1>2, <1>3, <2>1, <2>2, Zenon
    <3> QED BY <1>3, <2>1, <3>1, <3>2, Zenon
  <2>3. CASE ~Under(handles[h].path, src)
    <3>1. hs[h] = handles[h] BY <1>3, <2>1, <2>3, Zenon
    <3>2. g[handles[h].path] = f[handles[h].path] BY <1>2, <1>3, <2>1, <2>3, Zenon
    <3> QED BY <1>3, <2>1, <3>1, <3>2, Zenon
  <2> QED BY <2>2, <2>3
<1>9. Lead(hs, g) BY <1>8 DEF Lead
<1>10. \A h \in Handle : handles[h] # None => hs[h] # None BY <1>3, <1>6, NoneAssumption, Zenon
<1> QED BY <1>7, <1>9, <1>10 DEF g, hs

\* The last step of every rename: from the tree (d, f) that the delete of the
\* destination left to (d1, f1), with the handles hs.
LEMMA CommitOverKeepsInv ==
  ASSUME Inv, NEW d, NEW f, NEW r, NEW d1, NEW f1, NEW hs,
         Rooted(d, f), Lead(handles, f), IndexRooted(r), ~diverged => Lists(r, d, f),
         Rooted(d1, f1), Lead(hs, f1), hs \in [Handle -> Open \cup {None}],
         \A h \in Handle : handles[h] # None => hs[h] # None,
         CommitOver(d, f, r, d1, f1, hs), UNCHANGED <<opened, nextFile>>
  PROVE  Inv' /\ StaysOpen
<1>1. /\ Sound'
      /\ (files' = f1 /\ handles' = hs) \/ (files' = f /\ handles' = handles)
  BY CommitIsSound
<1>2. Lead(handles, files)' BY <1>1 DEF Lead
<1>3. handles' \in [Handle -> Open \cup {None}] BY <1>1 DEF Inv
<1>4. StaysOpen BY <1>1 DEF StaysOpen
<1> QED BY <1>1, <1>2, <1>3, <1>4, InvFrom, Zenon DEF Inv

\* When the delete of the destination cannot be persisted nothing moves.
LEMMA ReplaceFailsKeepsInv ==
  ASSUME Inv, NEW dst \in Key, DeleteAllowed(dst) = "ok",
         PersistFails(DirectoriesAfterDelete(dst), FilesAfterDelete(dst), record),
         UNCHANGED <<memory, opened, nextFile>>
  PROVE  Inv' /\ StaysOpen
<1> DEFINE d == DirectoriesAfterDelete(dst)
           f == FilesAfterDelete(dst)
<1>1. Rooted(d, f) BY DeleteFacts
<1>2. IndexRooted(Index(d, f)) BY <1>1, IndexFacts
<1> HIDE DEF d, f
<1>3. UNCHANGED <<directories, files, handles>> BY DEF memory
<1>4. Sound'
  <2>1. CASE record' = record /\ diverged' = diverged BY <1>3, <2>1 DEF Inv, Sound, IndexAgrees
  <2>2. CASE record' = Index(d, f) /\ diverged' = TRUE BY <1>2, <1>3, <2>2, Zenon DEF Inv, Sound, IndexAgrees
  <2> QED BY <2>1, <2>2, Zenon DEF PersistFails, d, f
<1>5. Lead(handles, files)' BY <1>3 DEF Inv, Lead
<1> QED BY <1>3, <1>4, <1>5, InvFrom, Zenon DEF Inv, StaysOpen

LEMMA RenameFileKeepsInv ==
  ASSUME Inv, NEW src \in Key, NEW dst \in Key, NEW replace \in BOOLEAN,
         HasParent(dst), RenameFile(src, dst, replace), UNCHANGED nextFile
  PROVE  Inv' /\ StaysOpen
<1> DEFINE d == DirectoriesAfterDelete(dst)
           f == FilesAfterDelete(dst)
           r == IF MarksPending(dst) THEN record ELSE Index(d, f)
<1>1. /\ Rooted(directories, files) /\ IndexRooted(record) /\ Lead(handles, files)
      /\ (~diverged => Lists(record, directories, files))
  BY DEF Inv, IndexAgrees
<1>2. Above(dst) \subseteq directories BY <1>1, AboveOfParent DEF HasParent
<1>3. CASE \E e \in {"NotFound", "DeletePending", "AlreadyExists", DeleteAllowed(dst)} : Refuse(e)
  BY <1>3, RefuseKeepsInv
<1>4. CASE /\ files[src] # None /\ files[dst] = None /\ opened' = opened
           /\ Commit(directories, FileMoved(files, src, dst), HandlesFollow(src, dst))
  <2>1. /\ Rooted(directories, FileMoved(files, src, dst))
        /\ Lead(HandlesFollow(src, dst), FileMoved(files, src, dst))
        /\ HandlesFollow(src, dst) \in [Handle -> Open \cup {None}]
        /\ \A h \in Handle : handles[h] # None => HandlesFollow(src, dst)[h] # None
    BY <1>1, <1>2, <1>4, FileMoveFacts
  <2> QED BY <1>1, <1>4, <2>1, CommitOverKeepsInv DEF Commit
<1>5. CASE DeleteAllowed(dst) = "ok" /\ PersistFails(d, f, record) /\ UNCHANGED <<memory, opened>>
  BY <1>5, ReplaceFailsKeepsInv
<1>6. CASE DeleteAllowed(dst) = "ok" /\ RenameOver(src, dst, d, f, r) /\ opened' = opened
  <2>1. /\ Rooted(d, f) /\ Lead(handles, f) /\ IndexRooted(r) /\ (~diverged => Lists(r, d, f))
        /\ d = directories \/ d = directories \ {dst}
    BY <1>6, DeleteFacts
  <2>2. Above(dst) \subseteq d
    <3>1. dst \in Seq(Name) BY KeyIsSequence
    <3>2. dst \notin Above(dst) BY <3>1, AboveFacts DEF Under
    <3> QED BY <1>2, <2>1, <3>2
  <2> HIDE DEF d, f, r
  <2>3. CASE directories' = d /\ files' = f /\ record' = r /\ UNCHANGED <<handles, diverged>>
    <3>1. Sound' BY <2>1, <2>3, Zenon DEF Sound, IndexAgrees
    <3>2. Lead(handles, files)' BY <1>6, <2>1, <2>3 DEF Lead
    <3> QED BY <1>6, <2>3, <3>1, <3>2, InvFrom DEF Inv, StaysOpen
  <2>4. CASE /\ f[dst] = None /\ f[src] # None
             /\ CommitOver(d, f, r, d, FileMoved(f, src, dst), HandlesFollow(src, dst))
    <3>1. /\ Rooted(d, FileMoved(f, src, dst)) /\ Lead(HandlesFollow(src, dst), FileMoved(f, src, dst))
          /\ HandlesFollow(src, dst) \in [Handle -> Open \cup {None}]
          /\ \A h \in Handle : handles[h] # None => HandlesFollow(src, dst)[h] # None
      BY <2>1, <2>2, <2>4, FileMoveFacts, Zenon
    <3> QED BY <1>6, <2>1, <2>4, <3>1, CommitOverKeepsInv
  <2> QED BY <1>6, <2>3, <2>4, Zenon DEF RenameOver
<1> QED BY <1>3, <1>4, <1>5, <1>6 DEF RenameFile, ReplaceThen

\* Nothing is below a destination that does not exist, that was a file, or that
\* was a directory the delete allowed to go.
LEMMA DestinationIsBare ==
  ASSUME Inv, NEW src \in Key, NEW dst \in Key, HasParent(dst), ~Under(dst, src), Fits(src, dst),
         NEW d, NEW f, Rooted(d, f), d \subseteq directories, \A j \in Key : f[j] # None => files[j] # None,
         (d = directories /\ dst \notin directories) \/ (d = directories \ {dst} /\ Childless(dst))
  PROVE  Movable(d, f, src, dst)
<1>1. \A k \in Key : k \in Seq(Name) /\ Len(k) \in 1 .. MaxDepth BY KeyIsSequence
<1>2. /\ directories \subseteq Key /\ \A k \in directories : Above(k) \subseteq directories
      /\ \A k \in Key : files[k] # None => Above(k) \subseteq directories
  BY DEF Inv, Rooted
<1>3. Above(dst) \subseteq d
  <2>1. Above(dst) \subseteq directories BY AboveOfParent DEF HasParent, Inv
  <2>2. dst \notin Above(dst) BY <1>1, AboveFacts DEF Under
  <2> QED BY <2>1, <2>2, Zenon
<1>4. ASSUME NEW k \in Key, k \in directories \/ files[k] # None PROVE ~Under(k, dst)
  <2>1. CASE dst \notin directories
    <3>1. dst \notin Above(k) BY <1>2, <1>4, <2>1
    <3>2. Len(dst) > 0 BY <1>1, BoundsAssumption
    <3> QED BY <1>1, <3>1, <3>2, AboveFacts
  <2>2. CASE Childless(dst) BY <1>4, <2>2 DEF Childless
  <2> QED BY <2>1, <2>2
<1>5. ASSUME NEW k \in Key, Under(k, src), f[k] # None \/ k \in d PROVE Rebase(k, src, dst) \in Key
  <2>1. Len(k) - Len(src) + Len(dst) <= MaxDepth BY <1>5 DEF Fits
  <2>2. Len(k) > Len(src) BY <1>5, Zenon DEF Under
  <2>3. Rebase(k, src, dst) \in Seq(Name) /\ Len(Rebase(k, src, dst)) = Len(dst) + Len(k) - Len(src)
    BY <1>1, <2>2, RebaseFacts
  <2>4. Len(dst) + Len(k) - Len(src) \in 1 .. MaxDepth BY <1>1, <2>1, <2>2, BoundsAssumption
  <2> QED BY <2>3, <2>4, KeyIsSequence
<1> QED BY <1>2, <1>3, <1>4, <1>5, Zenon DEF Movable

LEMMA RenameDirectoryKeepsInv ==
  ASSUME Inv, NEW src \in Key \cup {Root}, NEW dst \in Key, NEW replace \in BOOLEAN,
         HasParent(dst), Fits(src, dst), RenameDirectory(src, dst, replace), UNCHANGED nextFile
  PROVE  Inv' /\ StaysOpen
<1> DEFINE d == DirectoriesAfterDelete(dst)
           f == FilesAfterDelete(dst)
           r == IF MarksPending(dst) THEN record ELSE Index(d, f)
           move(d0, f0, r0) == CommitOver(d0, f0, r0, DirectoriesMoved(d0, src, dst),
                                          TreeMoved(f0, src, dst), TreeHandlesFollow(src, dst))
<1>1. /\ Rooted(directories, files) /\ IndexRooted(record) /\ Lead(handles, files)
      /\ (~diverged => Lists(record, directories, files))
  BY DEF Inv, IndexAgrees
<1>2. CASE \E e \in {"AlreadyExists", DeleteAllowed(dst)} : Refuse(e) BY <1>2, RefuseKeepsInv
<1>3. ASSUME NEW d0, NEW f0, NEW r0, src \in Key, move(d0, f0, r0), opened' = opened,
             Rooted(d0, f0), Lead(handles, f0), IndexRooted(r0), ~diverged => Lists(r0, d0, f0),
             Movable(d0, f0, src, dst)
      PROVE  Inv' /\ StaysOpen
  <2>1. Rooted(DirectoriesMoved(d0, src, dst), TreeMoved(f0, src, dst)) BY <1>3, MoveKeepsRooted
  <2>2. /\ Lead(TreeHandlesFollow(src, dst), TreeMoved(f0, src, dst))
        /\ TreeHandlesFollow(src, dst) \in [Handle -> Open \cup {None}]
        /\ \A h \in Handle : handles[h] # None => TreeHandlesFollow(src, dst)[h] # None
    BY <1>3, TreeMoveFacts
  <2> QED BY <1>3, <2>1, <2>2, CommitOverKeepsInv
<1>4. CASE /\ src # Root /\ ~Under(dst, src) /\ dst \notin directories
           /\ move(directories, files, record) /\ opened' = opened
  <2>1. src \in Key BY <1>4
  <2>2. Movable(directories, files, src, dst) BY <1>1, <1>4, <2>1, DestinationIsBare
  <2> QED BY <1>1, <1>3, <1>4, <2>1, <2>2
<1>5. CASE DeleteAllowed(dst) = "ok" /\ PersistFails(d, f, record) /\ UNCHANGED <<memory, opened>>
  BY <1>5, ReplaceFailsKeepsInv, Zenon
<1>6. CASE src # Root /\ ~Under(dst, src) /\ DeleteAllowed(dst) = "ok" /\ move(d, f, r) /\ opened' = opened
  <2>1. src \in Key BY <1>6
  <2>2. /\ Rooted(d, f) /\ Lead(handles, f) /\ IndexRooted(r) /\ (~diverged => Lists(r, d, f))
        /\ d \subseteq directories /\ \A j \in Key : f[j] # None => files[j] # None
        /\ d = directories \/ (d = directories \ {dst} /\ Childless(dst))
    BY <1>6, DeleteFacts, Zenon
  <2>3. dst \notin d
    BY Zenon DEF DirectoriesAfterDelete, IsDirectory
  <2> HIDE DEF d, f, r
  <2>4. Movable(d, f, src, dst) BY <1>6, <2>1, <2>2, <2>3, DestinationIsBare, Zenon
  <2> QED BY <1>3, <1>6, <2>1, <2>2, <2>4
<1> QED BY <1>2, <1>4, <1>5, <1>6 DEF RenameDirectory, ReplaceThen

LEMMA RenameKeepsInv ==
  ASSUME Inv, NEW src \in Key \cup {Root}, NEW dst \in Key, NEW replace \in BOOLEAN, Rename(src, dst, replace)
  PROVE  Inv' /\ StaysOpen
<1>1. nextFile' = nextFile BY DEF Rename
<1>2. CASE Refuse("NotFound") BY <1>1, <1>2, RefuseKeepsInv
<1>3. CASE HasParent(dst) /\ Fits(src, dst) /\ RenameDirectory(src, dst, replace)
  BY <1>1, <1>3, RenameDirectoryKeepsInv
<1>4. CASE HasParent(dst) /\ ~IsDirectory(src) /\ RenameFile(src, dst, replace)
  <2>1. src \in Key BY <1>4 DEF IsDirectory
  <2> QED BY <1>1, <1>4, <2>1, RenameFileKeepsInv
<1> QED BY <1>2, <1>3, <1>4 DEF Rename

-----------------------------------------------------------------------------
(* Starting again, and the theorems.                                       *)

LEMMA LoadKeepsInv ==
  ASSUME Inv, Load, nextFile' \in Nat \ {0}
  PROVE  Inv'
<1>1. IndexRooted(record) BY DEF Inv
<1>2. /\ directories' = record.directories /\ record' = record /\ diverged' = FALSE
      /\ files' = [k \in Key |-> IF record.files[k] = None THEN None
                                 ELSE [id |-> record.files[k], pending |-> FALSE]]
      /\ handles' = [h \in Handle |-> None] /\ opened' = [h \in Handle |-> None]
  BY DEF Load
<1>3. ASSUME NEW k \in Key, record.files[k] # None
      PROVE  /\ files'[k] \in Entry /\ files'[k] # None /\ files'[k].id = record.files[k]
             /\ ~files'[k].pending
  <2>1. record.files[k] \in FileId BY <1>1, <1>3 DEF IndexRooted
  <2>2. files'[k] = [id |-> record.files[k], pending |-> FALSE] BY <1>2, <1>3
  <2>3. files'[k] \in Entry BY <2>1, <2>2 DEF Entry
  <2>4. files'[k] # None BY <2>3, NoneAssumption
  <2>5. files'[k].id = record.files[k] BY <2>2
  <2>6. ~files'[k].pending BY <2>2
  <2> QED BY <2>3, <2>4, <2>5, <2>6
<1>4. \A k \in Key : record.files[k] = None => files'[k] = None BY <1>2
<1>5. files' \in [Key -> Entry \cup {None}]
  <2>1. files' = [k \in Key |-> files'[k]] BY <1>2
  <2>2. \A k \in Key : files'[k] \in Entry \cup {None} BY <1>3, <1>4, Zenon
  <2> QED BY <2>1, <2>2, Zenon
<1>6. Rooted(directories, files)' BY <1>1, <1>2, <1>4, <1>5 DEF Rooted, IndexRooted
<1>7. Lists(record, directories, files)'
  <2>1. ASSUME NEW k \in Key
        PROVE  \/ files'[k] = None /\ record'.files[k] = None
               \/ files'[k] # None /\ files'[k].pending /\ record'.files[k] \in {None, files'[k].id}
               \/ files'[k] # None /\ ~files'[k].pending /\ record'.files[k] = files'[k].id
    BY <1>2, <1>3, <1>4, Zenon
  <2> QED BY <1>2, <2>1 DEF Lists
<1>8. Sound' BY <1>1, <1>2, <1>6, <1>7 DEF Sound, IndexAgrees
<1>9. Lead(handles, files)' BY <1>2 DEF Lead
<1> QED BY <1>2, <1>8, <1>9, InvFrom

LEMMA InitHolds == Init => Inv
<1> SUFFICES ASSUME Init PROVE Inv OBVIOUS
<1>1. Rooted({}, [k \in Key |-> None]) BY DEF Rooted
<1>2. IndexRooted(record) /\ Lists(record, directories, files) BY <1>1, IndexFacts DEF Init
<1>3. Lead(handles, files) BY DEF Init, Lead
<1> QED BY <1>1, <1>2, <1>3 DEF Init, Inv, IndexAgrees

LEMMA StepKeepsInv == Inv /\ [Next]_vars => Inv'
<1> SUFFICES ASSUME Inv, [Next]_vars PROVE Inv' OBVIOUS
<1>1. ASSUME NEW k \in Key, CreateDirectory(k) PROVE Inv' BY <1>1, CreateDirectoryKeepsInv
<1>2. ASSUME NEW h \in Handle, NEW k \in Key, NEW create \in BOOLEAN, NEW allowDelete \in BOOLEAN,
             CreateOrOpen(h, k, create, allowDelete)
      PROVE  Inv'
  BY <1>2, CreateOrOpenKeepsInv
<1>3. ASSUME NEW h \in Handle, FlushHandle(h, TRUE, TRUE) PROVE Inv' BY <1>3, FlushHandleKeepsInv, Zenon
<1>4. ASSUME NEW h \in Handle, CloseHandle(h) PROVE Inv' BY <1>4, CloseHandleKeepsInv
<1>5. ASSUME NEW k \in Key \cup {Root}, Delete(k) PROVE Inv' BY <1>5, DeleteKeepsInv
<1>6. ASSUME NEW src \in Key \cup {Root}, NEW dst \in Key, NEW replace \in BOOLEAN, Rename(src, dst, replace)
      PROVE  Inv'
  BY <1>6, RenameKeepsInv
<1>7. CASE Restart BY <1>7, LoadKeepsInv DEF Restart
<1>8. CASE Reopen
  <2>1. Load /\ nextFile' \in Nat \ {0} BY <1>8, Zenon DEF Reopen, Inv
  <2> QED BY <2>1, LoadKeepsInv
<1>9. CASE UNCHANGED vars BY <1>9 DEF vars, Inv, IndexAgrees, Lead
<1> QED BY <1>1, <1>2, <1>3, <1>4, <1>5, <1>6, <1>7, <1>8, <1>9, Zenon DEF Next

\* The invariant of the store's namespace: every operation of store.rs, with a
\* persist_namespace that may fail before or after its rename, keeps it.
THEOREM Invariance == Spec => []Inv
<1>1. Init => Inv BY InitHolds
<1>2. Inv /\ [Next]_vars => Inv' BY StepKeepsInv
<1> QED BY <1>1, <1>2, PTL DEF Spec

\* Every file and directory is in a directory that exists, in memory and in the
\* index load_namespace reads, whatever rename, rename_directory and delete did.
THEOREM TreeStaysRooted == Spec => []TreeIsRooted
<1>1. Inv => TreeIsRooted
  <2> SUFFICES ASSUME Inv PROVE TreeIsRooted OBVIOUS
  <2>1. \A k \in Key : Len(k) # 1 => Parent(k) \in Above(k) BY AboveIsKey
  <2>2. Rooted(directories, files) /\ IndexRooted(record) BY DEF Inv
  <2> QED BY <2>1, <2>2 DEF TreeIsRooted, HasParent, Rooted, IndexRooted
<1> QED BY <1>1, Invariance, PTL

\* A handle of create_or_open leads to the file it was opened on until
\* close_handle, whatever was renamed, replaced, deleted or rolled back.
THEOREM HandlesKeepFiles == Spec => []HandleKeepsFile
<1>1. Inv => HandleKeepsFile BY DEF Inv, Lead, HandleKeepsFile, HandleFile
<1> QED BY <1>1, Invariance, PTL

\* Unless the last persist_namespace failed after its rename, load_namespace
\* finds in the index the directories and files that are in memory.
THEOREM IndexKeepsAgreeing == Spec => []IndexAgrees
<1>1. Inv => IndexAgrees BY DEF Inv
<1> QED BY <1>1, Invariance, PTL

-----------------------------------------------------------------------------
(* The callbacks.  What each one does to the store is settled above; here  *)
(* it is only asked which handles it opens and closes.                     *)

LEMMA ContextFacts ==
  ASSUME DriveInv, NEW c \in Context, contexts[c] # None
  PROVE  /\ contexts[c] \in FileContext
         /\ contexts[c].path \in Key \cup {Root}
         /\ contexts[c].handle # None => contexts[c].handle \in Handle
  BY DEF DriveInv, FileContext

\* A callback after which every handle that was open still is, and every
\* context with a handle had it before.
LEMMA HoldersStay ==
  ASSUME DriveInv, Inv', StaysOpen, contexts' \in [Context -> FileContext \cup {None}],
         \A c \in Context : contexts'[c] # None /\ contexts'[c].handle # None =>
             contexts[c] # None /\ contexts'[c].handle = contexts[c].handle
  PROVE  DriveInv'
<1>1. ASSUME NEW c \in Context, contexts'[c] # None, contexts'[c].handle # None
      PROVE  /\ contexts'[c].handle \in Handle
             /\ handles'[contexts'[c].handle] # None
             /\ \A e \in Context \ {c} : contexts'[e] # None => contexts'[e].handle # contexts'[c].handle
  BY <1>1, ContextFacts, Zenon DEF DriveInv, ContextsHoldHandles, StaysOpen
<1>2. ContextsHoldHandles' BY <1>1, Zenon DEF ContextsHoldHandles, HandleFile, Inv, Lead
<1> QED BY <1>2, Zenon DEF DriveInv

\* A callback that opens the store handle h, and may hand it to the context c.
LEMMA HolderComes ==
  ASSUME DriveInv, Inv', NEW c \in Context, NEW h \in Handle, NEW k \in Key, contexts[c] = None, handles[h] = None,
         \A g \in Handle \ {h} : handles'[g] = handles[g],
         \/ contexts' = contexts
         \/ /\ handles'[h] # None
            /\ contexts' = [contexts EXCEPT ![c] = [path |-> k, handle |-> h,
                                                    deleteRequested |-> FALSE, cleaned |-> FALSE]]
  PROVE  DriveInv'
<1> DEFINE new == [path |-> k, handle |-> h, deleteRequested |-> FALSE, cleaned |-> FALSE]
<1>1. contexts \in [Context -> FileContext \cup {None}] BY DEF DriveInv
<1>2. new \in FileContext /\ new.handle = h BY Zenon DEF FileContext
<1>3. CASE contexts' = contexts
  <2>1. StaysOpen BY Zenon DEF StaysOpen
  <2> QED BY <1>1, <1>3, <2>1, HoldersStay, Zenon
<1>4. CASE handles'[h] # None /\ contexts' = [contexts EXCEPT ![c] = new]
  <2> HIDE DEF new
  <2>1. /\ contexts' \in [Context -> FileContext \cup {None}] /\ contexts'[c] = new
        /\ \A e \in Context : e # c => contexts'[e] = contexts[e]
    BY <1>1, <1>2, <1>4, Zenon
  <2>2. ASSUME NEW e \in Context, e # c, contexts[e] # None, contexts[e].handle # None
        PROVE  contexts[e].handle \in Handle /\ contexts[e].handle # h /\ handles'[contexts[e].handle] # None
    <3>1. contexts[e].handle \in Handle BY <2>2, ContextFacts, Zenon
    <3>2. handles[contexts[e].handle] # None BY <2>2, Zenon DEF DriveInv, ContextsHoldHandles
    <3> QED BY <3>1, <3>2, Zenon
  <2>3. ASSUME NEW e \in Context, contexts'[e] # None, contexts'[e].handle # None
        PROVE  /\ contexts'[e].handle \in Handle /\ handles'[contexts'[e].handle] # None
               /\ \A b \in Context \ {e} : contexts'[b] # None => contexts'[b].handle # contexts'[e].handle
    <3>1. CASE e = c
      <4>1. contexts'[e].handle = h BY <1>2, <2>1, <3>1, Zenon
      <4>2. ASSUME NEW b \in Context \ {e}, contexts'[b] # None PROVE contexts'[b].handle # h
        <5>1. contexts'[b] = contexts[b] BY <2>1, <3>1, Zenon
        <5> QED BY <2>2, <3>1, <4>2, <5>1, ContextAssumption, Zenon
      <4> QED BY <1>4, <4>1, <4>2, Zenon
    <3>2. CASE e # c
      <4>1. contexts'[e] = contexts[e] BY <2>1, <3>2, Zenon
      <4>2. ASSUME NEW b \in Context \ {e}, contexts'[b] # None PROVE contexts'[b].handle # contexts[e].handle
        <5>1. CASE b = c
          <6>1. contexts'[b].handle = h BY <1>2, <2>1, <5>1, Zenon
          <6> QED BY <2>2, <2>3, <3>2, <4>1, <6>1, Zenon
        <5>2. CASE b # c
          <6>1. contexts'[b] = contexts[b] BY <2>1, <5>2, Zenon
          <6> QED BY <2>3, <4>1, <4>2, <6>1, Zenon DEF DriveInv, ContextsHoldHandles
        <5> QED BY <5>1, <5>2, Zenon
      <4> QED BY <2>2, <2>3, <3>2, <4>1, <4>2, Zenon
    <3> QED BY <3>1, <3>2, Zenon
  <2>4. ContextsHoldHandles' BY <2>3 DEF ContextsHoldHandles, HandleFile, Inv, Lead
  <2> QED BY <2>1, <2>4, Zenon DEF DriveInv
<1> QED BY <1>3, <1>4

LEMMA CreateOrOpenFacts ==
  ASSUME Inv, NEW h \in Handle, NEW k \in Key, NEW create \in BOOLEAN, NEW allowDelete \in BOOLEAN,
         CreateOrOpen(h, k, create, allowDelete)
  PROVE  /\ handles[h] = None
         /\ \A g \in Handle \ {h} : handles'[g] = handles[g]
         /\ reply' = "ok" => handles'[h] # None
<1> DEFINE state == [path |-> k, allowDelete |-> allowDelete]
<1>1. state # None
  <2>1. state \in Open BY DEF Open
  <2> QED BY <2>1, NoneAssumption
<1>2. handles \in [Handle -> Open \cup {None}] BY Zenon DEF Inv
<1> HIDE DEF state
<1>3. \/ handles' = handles /\ reply' # "ok"
      \/ handles' = [handles EXCEPT ![h] = state]
  BY Zenon DEF CreateOrOpen, Refuse, memory, Commit, CommitOver, state
<1>4. handles[h] = None BY DEF CreateOrOpen
<1> QED BY <1>1, <1>2, <1>3, <1>4

-----------------------------------------------------------------------------
(* Callbacks.                                                              *)

LEMMA OpenFileKeepsInv ==
  ASSUME DriveInv, NEW c \in Context, NEW k \in Key \cup {Root}, OpenFile(c, k)
  PROVE  DriveInv'
<1>1. Inv /\ contexts \in [Context -> FileContext \cup {None}] /\ contexts[c] = None BY Zenon DEF DriveInv, OpenFile
<1>2. CASE Hand(c, k, None, "ok") /\ UNCHANGED vars
  <2>1. Inv' /\ StaysOpen BY <1>1, <1>2 DEF vars, Inv, IndexAgrees, Lead, StaysOpen
  <2>2. contexts' = [contexts EXCEPT ![c] = [path |-> k, handle |-> None,
                                             deleteRequested |-> FALSE, cleaned |-> FALSE]]
    BY <1>2 DEF Hand
  <2>3. contexts' \in [Context -> FileContext \cup {None}]
    <3>1. [path |-> k, handle |-> None, deleteRequested |-> FALSE, cleaned |-> FALSE] \in FileContext
      BY Zenon DEF FileContext
    <3> QED BY <1>1, <2>2, <3>1
  <2>4. \A e \in Context : contexts'[e] # None /\ contexts'[e].handle # None => contexts'[e] = contexts[e]
    BY <1>1, <2>2
  <2> QED BY <2>1, <2>3, <2>4, HoldersStay, Zenon
<1>3. ASSUME NEW h \in Handle, ~IsDirectory(k), CreateOrOpen(h, k, FALSE, TRUE),
             Hand(c, k, h, IF reply' = "ok" THEN FileInfo(k) ELSE reply')
      PROVE  DriveInv'
  <2>1. k \in Key BY <1>3 DEF IsDirectory
  <2>2. Inv' BY <1>1, <1>3, <2>1, CreateOrOpenKeepsInv, Zenon
  <2>3. /\ handles[h] = None /\ \A g \in Handle \ {h} : handles'[g] = handles[g]
        /\ reply' = "ok" => handles'[h] # None
    BY <1>1, <1>3, <2>1, CreateOrOpenFacts, Zenon
  <2> QED BY <1>1, <1>3, <2>1, <2>2, <2>3, HolderComes, Zenon DEF Hand
<1> QED BY <1>2, <1>3, Zenon DEF OpenFile

LEMMA CreateFileKeepsInv ==
  ASSUME DriveInv, NEW c \in Context, NEW k \in Key, NEW directory \in BOOLEAN, CreateFile(c, k, directory)
  PROVE  DriveInv'
<1>1. Inv /\ contexts \in [Context -> FileContext \cup {None}] /\ contexts[c] = None BY Zenon DEF DriveInv, CreateFile
<1>2. CASE CreateDirectory(k) /\ Hand(c, k, None, reply')
  <2>1. Inv' /\ StaysOpen BY <1>1, <1>2, CreateDirectoryKeepsInv
  <2>2. \/ contexts' = contexts
        \/ contexts' = [contexts EXCEPT ![c] = [path |-> k, handle |-> None,
                                                deleteRequested |-> FALSE, cleaned |-> FALSE]]
    BY <1>2 DEF Hand
  <2>3. contexts' \in [Context -> FileContext \cup {None}]
    <3>1. [path |-> k, handle |-> None, deleteRequested |-> FALSE, cleaned |-> FALSE] \in FileContext
      BY Zenon DEF FileContext
    <3> QED BY <1>1, <2>2, <3>1, Zenon
  <2>4. \A e \in Context : contexts'[e] # None /\ contexts'[e].handle # None => contexts'[e] = contexts[e]
    BY <1>1, <2>2
  <2> QED BY <2>1, <2>3, <2>4, HoldersStay
<1>3. ASSUME NEW h \in Handle, CreateOrOpen(h, k, TRUE, TRUE), Hand(c, k, h, reply') PROVE DriveInv'
  <2>1. Inv' BY <1>1, <1>3, CreateOrOpenKeepsInv, Zenon
  <2>2. /\ handles[h] = None /\ \A g \in Handle \ {h} : handles'[g] = handles[g]
        /\ reply' = "ok" => handles'[h] # None
    BY <1>1, <1>3, CreateOrOpenFacts, Zenon
  <2> QED BY <1>1, <1>3, <2>1, <2>2, HolderComes, Zenon DEF Hand
<1> QED BY <1>2, <1>3, Zenon DEF CreateFile

\* The callbacks that publish contents go through flush_handle.
LEMMA FlushKeepsInv ==
  ASSUME DriveInv, NEW c \in Context, IsFile(c), FlushHandle(contexts[c].handle, TRUE, TRUE), contexts' = contexts
  PROVE  DriveInv'
<1>1. contexts[c].handle \in Handle BY ContextFacts DEF IsFile, Usable
<1>2. Inv' /\ StaysOpen BY <1>1, FlushHandleKeepsInv, Zenon DEF DriveInv
<1> QED BY <1>2, HoldersStay DEF DriveInv

LEMMA WriteFileKeepsInv ==
  ASSUME DriveInv, NEW c \in Context, NEW append \in BOOLEAN, WriteFile(c, append)
  PROVE  DriveInv'
<1>1. IsFile(c) /\ contexts' = contexts BY DEF WriteFile
<1>2. CASE Refuse("NotFound") /\ nextFile' = nextFile
  <2>1. Inv' /\ StaysOpen BY <1>2, RefuseKeepsInv DEF DriveInv
  <2> QED BY <1>1, <2>1, HoldersStay DEF DriveInv
<1>3. CASE Publishes(c)
  <2>1. FlushHandle(contexts[c].handle, TRUE, TRUE) BY <1>3 DEF Publishes, FlushHandle
  <2> QED BY <1>1, <2>1, FlushKeepsInv, Zenon
<1> QED BY <1>2, <1>3 DEF WriteFile

LEMMA RenameContextKeepsInv ==
  ASSUME DriveInv, NEW c \in Context, NEW dst \in Key, NEW replace \in BOOLEAN, RenameContext(c, dst, replace)
  PROVE  DriveInv'
<1>1. Inv /\ contexts \in [Context -> FileContext \cup {None}] /\ contexts[c] # None
  BY DEF DriveInv, RenameContext, Usable
<1>2. contexts[c] \in FileContext /\ contexts[c].path \in Key \cup {Root} BY <1>1, ContextFacts
<1>3. Inv' /\ StaysOpen BY <1>1, <1>2, RenameKeepsInv DEF RenameContext
<1>4. contexts' = contexts \/ contexts' = [contexts EXCEPT ![c].path = dst] BY DEF RenameContext
<1>5. [contexts[c] EXCEPT !.path = dst] \in FileContext BY <1>2 DEF FileContext
<1>6. [contexts[c] EXCEPT !.path = dst].handle = contexts[c].handle BY <1>2 DEF FileContext
<1>7. contexts' \in [Context -> FileContext \cup {None}] BY <1>1, <1>4, <1>5
<1>8. \A e \in Context : e # c => contexts'[e] = contexts[e] BY <1>1, <1>4
<1>9. contexts'[c].handle = contexts[c].handle BY <1>1, <1>4, <1>6, Zenon
<1> QED BY <1>1, <1>3, <1>7, <1>8, <1>9, HoldersStay

LEMMA SetDeleteKeepsInv ==
  ASSUME DriveInv, NEW c \in Context, NEW delete \in BOOLEAN, SetDelete(c, delete)
  PROVE  DriveInv'
<1>1. Inv /\ contexts \in [Context -> FileContext \cup {None}] /\ contexts[c] # None
  BY DEF DriveInv, SetDelete, Usable
<1>2. contexts[c] \in FileContext BY <1>1, ContextFacts
<1>3. Inv' /\ StaysOpen BY <1>1, RefuseKeepsInv DEF SetDelete
<1>4. contexts' = contexts \/ contexts' = [contexts EXCEPT ![c].deleteRequested = delete] BY DEF SetDelete
<1>5. [contexts[c] EXCEPT !.deleteRequested = delete] \in FileContext BY <1>2 DEF FileContext
<1>6. [contexts[c] EXCEPT !.deleteRequested = delete].handle = contexts[c].handle BY <1>2 DEF FileContext
<1>7. contexts' \in [Context -> FileContext \cup {None}] BY <1>1, <1>4, <1>5
<1>8. \A e \in Context : e # c => contexts'[e] = contexts[e] BY <1>1, <1>4
<1>9. contexts'[c].handle = contexts[c].handle BY <1>1, <1>4, <1>6, Zenon
<1> QED BY <1>1, <1>3, <1>7, <1>8, <1>9, HoldersStay

LEMMA CleanupKeepsInv ==
  ASSUME DriveInv, NEW c \in Context, Cleanup(c)
  PROVE  DriveInv'
<1>1. Inv /\ contexts \in [Context -> FileContext \cup {None}] /\ contexts[c] # None
  BY DEF DriveInv, Cleanup, Usable
<1>2. contexts[c] \in FileContext /\ contexts[c].path \in Key \cup {Root} BY <1>1, ContextFacts
<1>3. Inv' /\ StaysOpen
  <2>1. CASE Delete(contexts[c].path) BY <1>1, <1>2, <2>1, DeleteKeepsInv, Zenon
  <2>2. CASE UNCHANGED vars BY <1>1, <2>2 DEF vars, Inv, IndexAgrees, Lead, StaysOpen
  <2> QED BY <2>1, <2>2 DEF Cleanup
<1>4. contexts' = [contexts EXCEPT ![c].cleaned = TRUE] BY DEF Cleanup
<1>5. [contexts[c] EXCEPT !.cleaned = TRUE] \in FileContext BY <1>2, Zenon DEF FileContext
<1>6. [contexts[c] EXCEPT !.cleaned = TRUE].handle = contexts[c].handle BY <1>2 DEF FileContext
<1>7. contexts' \in [Context -> FileContext \cup {None}] BY <1>1, <1>4, <1>5
<1>8. \A e \in Context : e # c => contexts'[e] = contexts[e] BY <1>1, <1>4
<1>9. contexts'[c].handle = contexts[c].handle BY <1>1, <1>4, <1>6
<1> QED BY <1>1, <1>3, <1>7, <1>8, <1>9, HoldersStay

LEMMA CloseKeepsInv ==
  ASSUME DriveInv, NEW c \in Context, Close(c)
  PROVE  DriveInv'
<1>1. Inv /\ contexts \in [Context -> FileContext \cup {None}] /\ contexts[c] # None BY DEF DriveInv, Close
<1>2. /\ contexts' \in [Context -> FileContext \cup {None}] /\ contexts'[c] = None
      /\ \A e \in Context : e # c => contexts'[e] = contexts[e]
  BY <1>1 DEF Close
<1>3. CASE contexts[c].handle = None /\ UNCHANGED vars
  <2>1. Inv' /\ StaysOpen BY <1>1, <1>3 DEF vars, Inv, IndexAgrees, Lead, StaysOpen
  <2> QED BY <1>2, <2>1, HoldersStay, Zenon
<1>4. CASE contexts[c].handle # None /\ CloseHandle(contexts[c].handle)
  <2>1. contexts[c].handle \in Handle BY <1>1, <1>4, ContextFacts, Zenon
  <2>2. Inv' BY <1>1, <1>4, <2>1, CloseHandleKeepsInv, Zenon
  <2>3. \A g \in Handle : g # contexts[c].handle => handles'[g] = handles[g]
    <3>1. handles' = [handles EXCEPT ![contexts[c].handle] = None] BY <1>4, Zenon DEF CloseHandle
    <3> QED BY <1>1, <3>1 DEF Inv
  <2>4. ASSUME NEW e \in Context, contexts'[e] # None, contexts'[e].handle # None
        PROVE  /\ contexts'[e].handle \in Handle /\ handles'[contexts'[e].handle] # None
               /\ \A b \in Context \ {e} : contexts'[b] # None => contexts'[b].handle # contexts'[e].handle
    <3>1. e # c /\ contexts'[e] = contexts[e] BY <1>2, <2>4
    <3>2. contexts[e].handle \in Handle BY <2>4, <3>1, ContextFacts, Zenon
    <3>3. /\ contexts[e].handle # contexts[c].handle /\ handles[contexts[e].handle] # None
          /\ \A b \in Context \ {e} : contexts[b] # None => contexts[b].handle # contexts[e].handle
      BY <1>1, <2>4, <3>1 DEF DriveInv, ContextsHoldHandles
    <3>4. handles'[contexts[e].handle] # None BY <2>3, <3>2, <3>3
    <3>5. ASSUME NEW b \in Context \ {e}, contexts'[b] # None PROVE contexts'[b].handle # contexts[e].handle
      <4>1. contexts'[b] = contexts[b] BY <1>2, <3>5, Zenon
      <4> QED BY <3>3, <3>5, <4>1
    <3> QED BY <3>1, <3>2, <3>4, <3>5
  <2>5. ContextsHoldHandles' BY <2>2, <2>4 DEF ContextsHoldHandles, HandleFile, Inv, Lead
  <2> QED BY <1>2, <2>2, <2>5 DEF DriveInv
<1> QED BY <1>3, <1>4 DEF Close

-----------------------------------------------------------------------------
(* The theorems.                                                           *)

LEMMA DriveStepKeepsInv == DriveInv /\ [DriveNext]_driveVars => DriveInv'
<1> SUFFICES ASSUME DriveInv, [DriveNext]_driveVars PROVE DriveInv' OBVIOUS
<1>1. ASSUME NEW c \in Context, NEW k \in Key \cup {Root}, OpenFile(c, k) PROVE DriveInv'
  BY <1>1, OpenFileKeepsInv
<1>2. ASSUME NEW c \in Context, NEW k \in Key, NEW directory \in BOOLEAN, CreateFile(c, k, directory)
      PROVE  DriveInv'
  BY <1>2, CreateFileKeepsInv
<1>3. ASSUME NEW c \in Context, NEW append \in BOOLEAN, WriteFile(c, append) PROVE DriveInv'
  BY <1>3, WriteFileKeepsInv
<1>4. ASSUME NEW c \in Context, ResizeFile(c) \/ FlushContext(c) PROVE DriveInv'
  <2>1. IsFile(c) /\ contexts' = contexts BY <1>4, Zenon DEF ResizeFile, FlushContext
  <2>2. FlushHandle(contexts[c].handle, TRUE, TRUE)
    BY <1>4 DEF ResizeFile, FlushContext, Publishes, FlushHandle
  <2> QED BY <2>1, <2>2, FlushKeepsInv, Zenon
<1>5. ASSUME NEW c \in Context, NEW dst \in Key, NEW replace \in BOOLEAN, RenameContext(c, dst, replace)
      PROVE  DriveInv'
  BY <1>5, RenameContextKeepsInv
<1>6. ASSUME NEW c \in Context, NEW delete \in BOOLEAN, SetDelete(c, delete) PROVE DriveInv'
  BY <1>6, SetDeleteKeepsInv
<1>7. ASSUME NEW c \in Context, Cleanup(c) PROVE DriveInv' BY <1>7, CleanupKeepsInv
<1>8. ASSUME NEW c \in Context, Close(c) PROVE DriveInv' BY <1>8, CloseKeepsInv
<1>9. CASE HostRestart
  <2>1. Inv' BY <1>9, LoadKeepsInv DEF HostRestart, Restart, DriveInv
  <2>2. contexts' = [c \in Context |-> None] BY <1>9 DEF HostRestart
  <2>3. contexts' \in [Context -> FileContext \cup {None}] BY <2>2
  <2>4. ContextsHoldHandles' BY <2>2 DEF ContextsHoldHandles
  <2> QED BY <2>1, <2>3, <2>4 DEF DriveInv
<1>10. CASE UNCHANGED driveVars
  <2>1. Inv' /\ StaysOpen BY <1>10 DEF driveVars, vars, DriveInv, Inv, IndexAgrees, Lead, StaysOpen
  <2>2. contexts' = contexts BY <1>10 DEF driveVars
  <2> QED BY <2>1, <2>2, HoldersStay, Zenon DEF DriveInv
<1> QED BY <1>1, <1>2, <1>3, <1>4, <1>5, <1>6, <1>7, <1>8, <1>9, <1>10 DEF DriveNext

\* The namespace's invariant, and contexts that hold their handles, whatever
\* callbacks of filesystem.rs WinFsp makes.
THEOREM DriveInvariance == DriveSpec => []DriveInv
<1>1. DriveInit => DriveInv
  <2> SUFFICES ASSUME DriveInit PROVE DriveInv OBVIOUS
  <2>1. Inv BY InitHolds DEF DriveInit
  <2> QED BY <2>1 DEF DriveInit, DriveInv, ContextsHoldHandles
<1>2. DriveInv /\ [DriveNext]_driveVars => DriveInv' BY DriveStepKeepsInv
<1> QED BY <1>1, <1>2, PTL DEF DriveSpec

\* Until close, a context of DlpFileHandle names an open store handle that is
\* its own and leads to a file.
THEOREM ContextsKeepHandles == DriveSpec => []ContextsHoldHandles
<1>1. DriveInv => ContextsHoldHandles BY DEF DriveInv
<1> QED BY <1>1, DriveInvariance, PTL

\* write returns success only when a restart finds the file with contents
\* under the name its handle has, unless it is about to be deleted.
THEOREM WritesAreDurable == DriveSpec => WriteIsDurable
<1> DEFINE Durable(c) == LET k == handles[contexts[c].handle].path
                         IN  /\ files[k].pending \/ record'.files[k] = files[k].id
                             /\ files[k].id \in written'
<1>1. ASSUME DriveInv, NEW c \in Context, NEW append \in BOOLEAN, WriteFile(c, append), reply' = "ok"
      PROVE  Durable(c)
  <2> DEFINE k == handles[contexts[c].handle].path
  <2>1. contexts[c] # None /\ contexts[c].handle # None BY <1>1 DEF WriteFile, IsFile, Usable
  <2>2. contexts[c].handle \in Handle BY <1>1, <2>1, ContextFacts, Zenon
  <2>3. handles[contexts[c].handle] # None BY <1>1, <2>1, Zenon DEF DriveInv, ContextsHoldHandles
  <2>4. k \in Key /\ files[k] # None BY <1>1, <2>2, <2>3, Zenon DEF DriveInv, Inv, Lead, Open
  <2>5. record' = Index(directories, files) /\ written' = written \cup {files[k].id}
    BY <1>1, Zenon DEF WriteFile, Publishes, FlushHandle, Refuse, Commit, CommitOver, FileOf, HandleFile
  <2>6. record'.files[k] = IF files[k] # None /\ ~files[k].pending THEN files[k].id ELSE None
    BY <2>4, <2>5, Zenon DEF Index
  <2>7. files[k].pending \/ record'.files[k] = files[k].id BY <2>4, <2>6, Zenon
  <2> QED BY <2>5, <2>7, Zenon
<1>2. DriveInv => \A c \in Context : (\E append \in BOOLEAN : WriteFile(c, append)) /\ reply' = "ok" => Durable(c)
  BY <1>1
<1> QED BY <1>2, DriveInvariance, PTL DEF WriteIsDurable
=============================================================================
