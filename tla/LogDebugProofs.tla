--------------------------- MODULE LogDebugProofs ---------------------------
(***************************************************************************)
(* The tail is the newest whole lines of the log, for any length, window   *)
(* and number of lines: a proof of what MCLogDebug checks on a small       *)
(* instance.                                                               *)
(***************************************************************************)
EXTENDS LogDebug, FiniteSetTheorems, TLAPS

-----------------------------------------------------------------------------
(* Least and greatest elements.                                            *)

LEMMA LeastExists ==
  ASSUME NEW S, S # {}, \A x \in S : x \in Nat
  PROVE  \E x \in S : \A y \in S : x <= y
<1> DEFINE R == OpToRel(<, Nat)
<1>1. IsWellFoundedOn(R, Nat) BY NatLessThanWellFounded, Zenon
<1>2. \A x, y \in Nat : y < x => <<y, x>> \in R BY DEF OpToRel
<1> HIDE DEF R
<1>3. S \in SUBSET Nat BY Zenon
<1>4. PICK x \in S : \A y \in S : ~(<<y, x>> \in R) BY <1>1, <1>3, WFMin, Zenon
<1>5. \A y \in S : ~(y < x) BY <1>2, <1>4, Zenon
<1>6. \A y \in S : x <= y BY <1>5
<1> QED BY <1>6, Zenon

LEMMA GreatestExists ==
  ASSUME NEW n \in Nat, NEW S, S # {}, \A x \in S : x \in 0 .. n
  PROVE  \E x \in S : \A y \in S : y <= x
<1> DEFINE T == {n - x : x \in S}
<1>1. T # {} /\ \A t \in T : t \in Nat OBVIOUS
<1>2. \A x \in S : n - x \in T OBVIOUS
<1>3. \A t \in T : \E x \in S : t = n - x OBVIOUS
<1> HIDE DEF T
<1>4. PICK t \in T : \A u \in T : t <= u BY <1>1, LeastExists
<1>5. PICK x \in S : t = n - x BY <1>3, <1>4
<1>6. \A y \in S : y <= x BY <1>2, <1>4, <1>5
<1> QED BY <1>6

LEMMA MinIs ==
  ASSUME NEW S, \A y \in S : y \in Int, NEW x \in S, \A y \in S : x <= y
  PROVE  Min(S) = x
  BY DEF Min

LEMMA MaxIs ==
  ASSUME NEW S, \A y \in S : y \in Int, NEW x \in S, \A y \in S : y <= x
  PROVE  Max(S) = x
  BY DEF Max

-----------------------------------------------------------------------------
(* How many of the newlines N come at i or later, and after i.             *)

From(N, i) == {j \in N : j >= i}
After(N, i) == {j \in N : j > i}

LEMMA Counts ==
  ASSUME NEW n \in Nat, NEW N, \A j \in N : j \in 1 .. n
  PROVE  \A T \in SUBSET N : IsFiniteSet(T) /\ Cardinality(T) \in Nat
<1>1. IsFiniteSet(1 .. n) BY FS_Interval
<1>2. N \in SUBSET (1 .. n) BY Zenon
<1>3. IsFiniteSet(N) BY <1>1, <1>2, FS_Subset, Zenon
<1> QED BY <1>3, FS_Subset, FS_CardinalityType

LEMMA PartsAreFinite ==
  ASSUME NEW n \in Nat, NEW N, \A j \in N : j \in 1 .. n, NEW i
  PROVE  /\ IsFiniteSet(N) /\ Cardinality(N) \in Nat
         /\ IsFiniteSet(From(N, i)) /\ Cardinality(From(N, i)) \in Nat
         /\ IsFiniteSet(After(N, i)) /\ Cardinality(After(N, i)) \in Nat
<1>1. N \in SUBSET N /\ From(N, i) \in SUBSET N /\ After(N, i) \in SUBSET N BY DEF From, After
<1> QED BY <1>1, Counts, Zenon

\* The count falls by one past a newline ...
LEMMA CountFalls ==
  ASSUME NEW n \in Nat, NEW N, \A j \in N : j \in 1 .. n, NEW i \in N
  PROVE  Cardinality(From(N, i)) = Cardinality(After(N, i)) + 1
<1>1. From(N, i) = After(N, i) \cup {i} BY DEF From, After
<1>2. i \notin After(N, i) BY DEF After
<1>3. IsFiniteSet(After(N, i)) BY PartsAreFinite
<1> QED BY <1>1, <1>2, <1>3, FS_AddElement, Zenon

\* ... and does not rise.
LEMMA CountIsMonotonic ==
  ASSUME NEW n \in Nat, NEW N, \A j \in N : j \in 1 .. n, NEW i \in Int, NEW k \in Int, k < i
  PROVE  Cardinality(From(N, i)) <= Cardinality(After(N, k))
<1>1. From(N, i) \in SUBSET After(N, k) BY DEF From, After
<1>2. IsFiniteSet(After(N, k)) BY PartsAreFinite
<1> QED BY <1>1, <1>2, FS_Subset

\* Where there are more than c newlines, one of them is the (c + 1)th from
\* the end.
LEMMA CountIsMet ==
  ASSUME NEW n \in Nat, NEW N, \A j \in N : j \in 1 .. n, NEW c \in Nat, Cardinality(N) > c
  PROVE  \E i \in N : Cardinality(From(N, i)) = c + 1
<1> DEFINE Many == {i \in N : Cardinality(From(N, i)) >= c + 1}
<1>1. Cardinality(N) \in Nat /\ N # {} BY PartsAreFinite, FS_EmptySet
<1>2. Many # {}
  <2>1. PICK least \in N : \A j \in N : least <= j BY <1>1, LeastExists
  <2>2. From(N, least) = N BY <2>1 DEF From
  <2> QED BY <1>1, <2>2
<1>3. PICK i \in Many : \A k \in Many : k <= i
  <2>1. \A k \in Many : k \in 0 .. n OBVIOUS
  <2> HIDE DEF Many
  <2> QED BY <1>2, <2>1, GreatestExists
<1>4. i \in N /\ Cardinality(From(N, i)) >= c + 1 OBVIOUS
<1>5. Cardinality(After(N, i)) \in Nat BY PartsAreFinite
<1>6. ASSUME Cardinality(After(N, i)) > c PROVE FALSE
  <2>1. After(N, i) # {} BY <1>6, FS_EmptySet
  <2>2. \A j \in After(N, i) : j \in Nat BY DEF After
  <2>3. PICK k \in After(N, i) : \A j \in After(N, i) : k <= j BY <2>1, <2>2, LeastExists
  <2>4. k \in N /\ k > i BY <2>3 DEF After
  <2>5. From(N, k) = After(N, i) BY <1>4, <2>3, <2>4 DEF From, After
  <2>6. k \in Many BY <1>5, <1>6, <2>4, <2>5
  <2> QED BY <1>3, <1>4, <2>4, <2>6
<1>7. Cardinality(From(N, i)) = Cardinality(After(N, i)) + 1 BY <1>4, CountFalls
<1> QED BY <1>4, <1>5, <1>6, <1>7

-----------------------------------------------------------------------------
(* Parts of the log.                                                       *)

\* The part of s after place a through place b, and the newlines in it.
Part(s, a, b) == SubSeq(s, a + 1, b)
NewlinesIn(s, a, b) == {i \in a + 1 .. b : s[i] = "newline"}

LEMMA PartFacts ==
  ASSUME NEW s \in Seq(Byte), NEW b \in 0 .. Len(s), NEW a \in 0 .. b
  PROVE  /\ Part(s, a, b) \in Seq(Byte) /\ Len(Part(s, a, b)) = b - a
         /\ \A i \in 1 .. b - a : Part(s, a, b)[i] = s[a + i]
  BY DEF Part

LEMMA SameBytes ==
  ASSUME NEW s \in Seq(Byte), NEW t \in Seq(Byte), Len(s) = Len(t), \A i \in 1 .. Len(s) : s[i] = t[i]
  PROVE  s = t
  OBVIOUS

LEMMA PartOfPart ==
  ASSUME NEW s \in Seq(Byte), NEW b \in 0 .. Len(s), NEW a \in 0 .. b, NEW d \in 0 .. b - a, NEW c \in 0 .. d
  PROVE  Part(Part(s, a, b), c, d) = Part(s, a + c, a + d)
<1> DEFINE t == Part(s, a, b)
           u == Part(s, a + c, a + d)
           v == Part(t, c, d)
<1>1. t \in Seq(Byte) /\ Len(t) = b - a /\ \A i \in 1 .. b - a : t[i] = s[a + i] BY PartFacts, Zenon
<1>2. a + d \in 0 .. Len(s) /\ a + c \in 0 .. a + d /\ (a + d) - (a + c) = d - c OBVIOUS
<1>3. u \in Seq(Byte) /\ Len(u) = d - c /\ \A i \in 1 .. d - c : u[i] = s[(a + c) + i] BY <1>2, PartFacts, Zenon
<1> HIDE DEF t, u
<1>4. d \in 0 .. Len(t) BY <1>1
<1>5. v \in Seq(Byte) /\ Len(v) = d - c /\ \A i \in 1 .. d - c : v[i] = t[c + i] BY <1>1, <1>4, PartFacts, Zenon
<1>6. \A i \in 1 .. d - c : c + i \in 1 .. b - a /\ a + (c + i) = (a + c) + i OBVIOUS
<1> HIDE DEF v
<1>7. \A i \in 1 .. d - c : v[i] = u[i] BY <1>1, <1>3, <1>5, <1>6, Zenon
<1>8. v = u BY <1>3, <1>5, <1>7, SameBytes
<1> QED BY <1>8 DEF t, u, v

LEMMA PartNewlines ==
  ASSUME NEW s \in Seq(Byte), NEW b \in 0 .. Len(s), NEW a \in 0 .. b
  PROVE  /\ \A i \in Newlines(Part(s, a, b)) : i \in 1 .. b - a /\ a + i \in NewlinesIn(s, a, b)
         /\ \A j \in NewlinesIn(s, a, b) : j \in a + 1 .. b /\ j - a \in Newlines(Part(s, a, b))
<1> DEFINE t == Part(s, a, b)
<1>1. t \in Seq(Byte) /\ Len(t) = b - a /\ \A i \in 1 .. b - a : t[i] = s[a + i] BY PartFacts, Zenon
<1> HIDE DEF t
<1>2. DOMAIN t = 1 .. b - a BY <1>1
<1>3. \A i \in 1 .. b - a : a + i \in a + 1 .. b OBVIOUS
<1>4. \A j \in a + 1 .. b : j - a \in 1 .. b - a /\ a + (j - a) = j OBVIOUS
<1>5. \A i \in Newlines(t) : i \in 1 .. b - a /\ a + i \in NewlinesIn(s, a, b)
  BY <1>1, <1>2, <1>3 DEF Newlines, NewlinesIn
<1>6. \A j \in NewlinesIn(s, a, b) : j \in a + 1 .. b /\ j - a \in Newlines(t)
  BY <1>1, <1>2, <1>4 DEF Newlines, NewlinesIn
<1> QED BY <1>5, <1>6 DEF t

\* The first newline of a part, and the last, by their places in the log.
LEMMA FirstNewline ==
  ASSUME NEW s \in Seq(Byte), NEW b \in 0 .. Len(s), NEW a \in 0 .. b, NEW m \in NewlinesIn(s, a, b),
         \A j \in NewlinesIn(s, a, b) : m <= j
  PROVE  Newlines(Part(s, a, b)) # {} /\ Min(Newlines(Part(s, a, b))) = m - a
<1> DEFINE N == Newlines(Part(s, a, b))
<1>1. /\ \A i \in N : i \in 1 .. b - a /\ a + i \in NewlinesIn(s, a, b)
      /\ m \in a + 1 .. b /\ m - a \in N
  BY PartNewlines
<1> HIDE DEF N
<1>2. \A i \in N : i \in Int /\ m - a <= i BY <1>1
<1>3. Min(N) = m - a BY <1>1, <1>2, MinIs
<1> QED BY <1>1, <1>3 DEF N

LEMMA LastNewline ==
  ASSUME NEW s \in Seq(Byte), NEW b \in 0 .. Len(s), NEW a \in 0 .. b, NEW m \in NewlinesIn(s, a, b),
         \A j \in NewlinesIn(s, a, b) : j <= m
  PROVE  Newlines(Part(s, a, b)) # {} /\ Max(Newlines(Part(s, a, b))) = m - a
<1> DEFINE N == Newlines(Part(s, a, b))
<1>1. /\ \A i \in N : i \in 1 .. b - a /\ a + i \in NewlinesIn(s, a, b)
      /\ m \in a + 1 .. b /\ m - a \in N
  BY PartNewlines
<1> HIDE DEF N
<1>2. \A i \in N : i \in Int /\ i <= m - a BY <1>1
<1>3. Max(N) = m - a BY <1>1, <1>2, MaxIs
<1> QED BY <1>1, <1>3 DEF N

LEMMA NoNewline ==
  ASSUME NEW s \in Seq(Byte), NEW b \in 0 .. Len(s), NEW a \in 0 .. b, NewlinesIn(s, a, b) = {}
  PROVE  Newlines(Part(s, a, b)) = {}
  BY PartNewlines

\* What is cut off in front of a part, and behind it.
LEMMA FirstIsDropped ==
  ASSUME NEW s \in Seq(Byte), NEW b \in 0 .. Len(s), NEW a \in 0 .. b, NEW m \in NewlinesIn(s, a, b),
         \A j \in NewlinesIn(s, a, b) : m <= j
  PROVE  DropPartialFirst(Part(s, a, b), FALSE) = Part(s, m, b)
<1>1. m \in a + 1 .. b BY DEF NewlinesIn
<1>2. m - a \in 0 .. b - a /\ b - a \in 0 .. b - a /\ a + (m - a) = m /\ a + (b - a) = b BY <1>1
<1>3. Newlines(Part(s, a, b)) # {} /\ Min(Newlines(Part(s, a, b))) = m - a BY FirstNewline
<1>4. Len(Part(s, a, b)) = b - a BY PartFacts, Zenon
<1>5. DropPartialFirst(Part(s, a, b), FALSE) = Part(Part(s, a, b), m - a, b - a)
  BY <1>3, <1>4, Zenon DEF DropPartialFirst, Part
<1>6. Part(Part(s, a, b), m - a, b - a) = Part(s, a + (m - a), a + (b - a)) BY <1>2, PartOfPart
<1> QED BY <1>2, <1>5, <1>6, Zenon

LEMMA LastIsDropped ==
  ASSUME NEW s \in Seq(Byte), NEW b \in 0 .. Len(s), NEW a \in 0 .. b, NEW m \in NewlinesIn(s, a, b),
         \A j \in NewlinesIn(s, a, b) : j <= m
  PROVE  DropPartialLast(Part(s, a, b)) = Part(s, a, m)
<1>1. m \in a + 1 .. b BY DEF NewlinesIn
<1>2. m - a \in 0 .. b - a /\ 0 \in 0 .. m - a /\ a + (m - a) = m /\ a + 0 = a BY <1>1
<1>3. Newlines(Part(s, a, b)) # {} /\ Max(Newlines(Part(s, a, b))) = m - a BY LastNewline
<1>4. DropPartialLast(Part(s, a, b)) = Part(Part(s, a, b), 0, m - a)
  <2>1. DropPartialLast(Part(s, a, b)) = SubSeq(Part(s, a, b), 1, m - a) BY <1>3, Zenon DEF DropPartialLast
  <2>2. \A t : Part(t, 0, m - a) = SubSeq(t, 1, m - a) BY DEF Part
  <2> QED BY <2>1, <2>2
<1>5. Part(Part(s, a, b), 0, m - a) = Part(s, a + 0, a + (m - a)) BY <1>2, PartOfPart
<1> QED BY <1>2, <1>4, <1>5

\* Newlines are as many in the part as in the log.
LEMMA PartCounts ==
  ASSUME NEW s \in Seq(Byte), NEW b \in 0 .. Len(s), NEW a \in 0 .. b, NEW i \in Int
  PROVE  Cardinality(From(Newlines(Part(s, a, b)), i)) = Cardinality(From(NewlinesIn(s, a, b), a + i))
<1> DEFINE S == From(Newlines(Part(s, a, b)), i)
           T == From(NewlinesIn(s, a, b), a + i)
           f == [j \in S |-> a + j]
<1>1. /\ \A j \in Newlines(Part(s, a, b)) : j \in 1 .. b - a /\ a + j \in NewlinesIn(s, a, b)
      /\ \A j \in NewlinesIn(s, a, b) : j \in a + 1 .. b /\ j - a \in Newlines(Part(s, a, b))
  BY PartNewlines
<1>2. \A j \in S : j \in Int /\ a + j \in T BY <1>1 DEF From
<1>3. \A j \in T : j \in Int /\ j - a \in S /\ a + (j - a) = j BY <1>1 DEF From
<1>4. IsFiniteSet(S)
  <2>1. \A j \in Newlines(Part(s, a, b)) : j \in 1 .. b - a BY <1>1
  <2>2. b - a \in Nat OBVIOUS
  <2> QED BY <2>1, <2>2, PartsAreFinite
<1> HIDE DEF S, T
<1>5. f \in [S -> T] /\ \A j \in S : f[j] = a + j BY <1>2
<1> HIDE DEF f
<1>6. \A j, k \in S : f[j] = f[k] => j = k BY <1>2, <1>5
<1>7. \A t \in T : \E j \in S : f[j] = t BY <1>3, <1>5
<1>8. ExistsBijection(S, T) BY <1>5, <1>6, <1>7 DEF ExistsBijection, Bijection, Injection, Surjection, IsInjective
<1>9. Cardinality(T) = Cardinality(S) BY <1>4, <1>8, FS_Bijection
<1> QED BY <1>9 DEF S, T

LEMMA LastAreKept ==
  ASSUME NEW s \in Seq(Byte), NEW b \in 0 .. Len(s), NEW a \in 0 .. b, NEW lines \in Nat
  PROVE  /\ \A m \in NewlinesIn(s, a, b) :
               Cardinality(From(NewlinesIn(s, a, b), m)) = lines + 1 =>
                   KeepLast(Part(s, a, b), lines) = Part(s, m, b)
         /\ (\A m \in NewlinesIn(s, a, b) : Cardinality(From(NewlinesIn(s, a, b), m)) # lines + 1) =>
                KeepLast(Part(s, a, b), lines) = Part(s, a, b)
<1> DEFINE t == Part(s, a, b)
           M == NewlinesIn(s, a, b)
           N == Newlines(t)
           older == {i \in N : Cardinality(From(N, i)) = lines + 1}
<1>1. KeepLast(t, lines) = IF older = {} THEN t ELSE Part(t, Max(older), Len(t)) BY DEF KeepLast, From, Part
<1>2. /\ \A i \in N : i \in 1 .. b - a /\ a + i \in M
      /\ \A j \in M : j \in a + 1 .. b /\ j - a \in N
  BY PartNewlines
<1>3. \A i \in N : Cardinality(From(N, i)) = Cardinality(From(M, a + i)) BY <1>2, PartCounts
<1>4. Len(t) = b - a BY PartFacts
<1>5. \A d \in 0 .. b - a, c \in 0 .. b - a : c <= d => Part(t, c, d) = Part(s, a + c, a + d) BY PartOfPart
<1> HIDE DEF t, M, N
<1>6. ASSUME NEW m \in M, Cardinality(From(M, m)) = lines + 1
      PROVE  KeepLast(t, lines) = Part(s, m, b)
  <2>1. m \in a + 1 .. b /\ m - a \in N /\ a + (m - a) = m BY <1>2
  <2>2. m - a \in older BY <1>3, <1>6, <2>1
  <2>3. ASSUME NEW i \in older PROVE i \in Int /\ i <= m - a
    <3>1. i \in N /\ i \in 1 .. b - a /\ Cardinality(From(N, i)) = lines + 1 BY <1>2, <2>3
    <3>2. ASSUME m - a < i PROVE FALSE
      <4>1. \A j \in N : j \in 1 .. b - a BY <1>2
      <4>2. b - a \in Nat /\ m - a \in Int /\ i \in Int BY <2>1, <3>1
      <4>3. Cardinality(From(N, i)) <= Cardinality(After(N, m - a)) BY <3>2, <4>1, <4>2, CountIsMonotonic, Zenon
      <4>4. Cardinality(From(N, m - a)) = Cardinality(After(N, m - a)) + 1 BY <2>1, <4>1, <4>2, CountFalls, Zenon
      <4>5. Cardinality(After(N, m - a)) \in Nat BY <4>1, <4>2, PartsAreFinite, Zenon
      <4>6. Cardinality(From(N, m - a)) = lines + 1 BY <2>2
      <4> QED BY <3>1, <4>3, <4>4, <4>5, <4>6
    <3> QED BY <2>1, <3>1, <3>2
  <2>4. Max(older) = m - a
    <3> HIDE DEF older
    <3> QED BY <2>2, <2>3, MaxIs
  <2>5. KeepLast(t, lines) = Part(t, m - a, b - a) BY <1>1, <1>4, <2>2, <2>4
  <2>6. m - a \in 0 .. b - a /\ b - a \in 0 .. b - a /\ m - a <= b - a /\ a + (b - a) = b BY <2>1
  <2>7. Part(t, m - a, b - a) = Part(s, a + (m - a), a + (b - a)) BY <1>5, <2>6
  <2> QED BY <2>1, <2>5, <2>6, <2>7
<1>7. ASSUME \A m \in M : Cardinality(From(M, m)) # lines + 1
      PROVE  KeepLast(t, lines) = t
  <2>1. older = {} BY <1>2, <1>3, <1>7
  <2> QED BY <1>1, <2>1
<1> QED BY <1>6, <1>7 DEF t, M

-----------------------------------------------------------------------------
(* The newest lines.                                                       *)

\* A part that starts a line is cut to the newest lines that start in it.
LEMMA NewestOfWholeLines ==
  ASSUME NEW s \in Seq(Byte), NEW lines \in Nat \ {0}, NEW a \in {0} \cup Newlines(s)
  PROVE  LET ends == {0} \cup Newlines(s)
             starts == {e \in ends : e >= a /\ Cardinality(After(Newlines(s), e)) <= lines}
         IN  /\ starts # {}
             /\ KeepLast(DropPartialLast(Part(s, a, Len(s))), lines) = Part(s, Min(starts), Max(ends))
<1> DEFINE n == Len(s)
           N == Newlines(s)
           ends == {0} \cup N
           starts == {e \in ends : e >= a /\ Cardinality(After(N, e)) <= lines}
<1>1. n \in Nat /\ \A i \in N : i \in 1 .. n BY DEF Newlines
<1>2. a \in 0 .. n BY <1>1
<1>3. /\ \A i : i \in NewlinesIn(s, a, n) <=> i \in N /\ i > a
      /\ \A i \in NewlinesIn(s, a, n) : i \in a + 1 .. n
  BY <1>2 DEF Newlines, NewlinesIn
<1>4. NewlinesIn(s, a, n) = After(N, a) BY <1>3 DEF After
<1> HIDE DEF n, N
<1>5. PICK last \in ends : \A e \in ends : e <= last
  <2>1. ends # {} /\ \A e \in ends : e \in 0 .. n BY <1>1
  <2> HIDE DEF ends
  <2> QED BY <1>1, <2>1, GreatestExists
<1>6. last \in 0 .. n /\ a <= last /\ a \in ends BY <1>1, <1>5 DEF N
<1>7. Max(ends) = last
  <2>1. \A e \in ends : e \in Int BY <1>1
  <2> HIDE DEF ends
  <2> QED BY <1>5, <2>1, MaxIs
<1>8. last \in starts
  <2>1. After(N, last) = {} BY <1>1, <1>5, <1>6 DEF After
  <2>2. Cardinality(After(N, last)) = 0 BY <2>1, FS_EmptySet
  <2> QED BY <1>5, <1>6, <2>2
<1>9. ASSUME NEW m \in starts, \A e \in starts : m <= e PROVE Min(starts) = m
  <2>1. \A e \in starts : e \in Int BY <1>1
  <2> HIDE DEF starts
  <2> QED BY <1>9, <2>1, MinIs
<1>10. CASE After(N, a) = {}
  <2>1. last = a BY <1>1, <1>5, <1>6, <1>10 DEF After
  <2>2. \A e \in starts : last <= e BY <2>1
  <2>3. Min(starts) = last BY <1>8, <1>9, <2>2
  <2>4. DropPartialLast(Part(s, a, n)) = << >>
    <3>1. NewlinesIn(s, a, n) = {} BY <1>4, <1>10
    <3>2. Newlines(Part(s, a, n)) = {} BY <1>2, <3>1, NoNewline DEF n
    <3> QED BY <3>2 DEF DropPartialLast
  <2>5. KeepLast(<< >>, lines) = << >> BY DEF KeepLast, Newlines
  <2>6. Part(s, last, last) = << >> BY <1>6 DEF Part, n
  <2> QED BY <1>7, <1>8, <2>3, <2>4, <2>5, <2>6 DEF n, N
<1>11. CASE After(N, a) # {}
  <2>1. last \in NewlinesIn(s, a, n) /\ \A j \in NewlinesIn(s, a, n) : j <= last
    <3>1. \A j \in After(N, a) : j \in ends /\ j > a /\ j \in Int BY <1>1 DEF After
    <3>2. last > a BY <1>2, <1>5, <1>6, <1>11, <3>1
    <3>3. last \in N BY <1>2, <1>5, <3>2
    <3> QED BY <1>3, <1>4, <1>5, <3>1, <3>2, <3>3
  <2>2. DropPartialLast(Part(s, a, n)) = Part(s, a, last) BY <1>2, <2>1, LastIsDropped DEF n
  <2> DEFINE M == NewlinesIn(s, a, last)
  <2>3. M = After(N, a)
    <3>1. \A i : i \in M <=> i \in NewlinesIn(s, a, n) BY <1>2, <1>6, <2>1 DEF NewlinesIn, n
    <3> QED BY <1>4, <3>1, Zenon
  <2>4. \A m \in M : m \in N /\ m \in 1 .. n /\ m > a /\ From(M, m) = From(N, m)
    BY <1>1, <1>2, <2>3 DEF From, After
  <2> HIDE DEF M
  <2>5. \A j \in M : j \in 1 .. n BY <2>4
  <2>6. /\ \A m \in M : Cardinality(From(M, m)) = lines + 1 => KeepLast(Part(s, a, last), lines) = Part(s, m, last)
        /\ (\A m \in M : Cardinality(From(M, m)) # lines + 1) => KeepLast(Part(s, a, last), lines) = Part(s, a, last)
    <3>1. last \in 0 .. Len(s) /\ a \in 0 .. last /\ lines \in Nat BY <1>2, <1>6 DEF n
    <3> QED BY <3>1, LastAreKept DEF M
  <2>7. CASE \E m \in M : Cardinality(From(M, m)) = lines + 1
    <3>1. PICK m \in M : Cardinality(From(M, m)) = lines + 1 BY <2>7
    <3>2. m \in N /\ m \in Int /\ m > a /\ Cardinality(From(N, m)) = lines + 1 BY <2>4, <3>1
    <3>3. Cardinality(From(N, m)) = Cardinality(After(N, m)) + 1 BY <1>1, <3>2, CountFalls, Zenon
    <3>4. Cardinality(After(N, m)) \in Nat BY <1>1, PartsAreFinite, Zenon
    <3>5. m \in starts BY <1>2, <3>2, <3>3, <3>4
    <3>6. ASSUME NEW e \in starts PROVE m <= e
      <4>1. e \in Int /\ Cardinality(After(N, e)) <= lines BY <1>1
      <4>2. Cardinality(After(N, e)) \in Nat BY <1>1, PartsAreFinite, Zenon
      <4>3. e < m => Cardinality(From(N, m)) <= Cardinality(After(N, e)) BY <1>1, <3>2, <4>1, CountIsMonotonic, Zenon
      <4> QED BY <3>2, <4>1, <4>2, <4>3
    <3>7. Min(starts) = m BY <1>9, <3>5, <3>6
    <3>8. KeepLast(Part(s, a, last), lines) = Part(s, m, last) BY <2>6, <3>1
    <3> QED BY <1>7, <1>8, <2>2, <3>7, <3>8 DEF n, N
  <2>8. CASE \A m \in M : Cardinality(From(M, m)) # lines + 1
    <3>1. Cardinality(M) \in Nat BY <1>1, <2>5, PartsAreFinite, Zenon
    <3>2. ~(Cardinality(M) > lines) BY <1>1, <2>5, <2>8, CountIsMet
    <3>3. a \in starts BY <1>2, <1>6, <2>3, <3>1, <3>2
    <3>4. \A e \in starts : a <= e BY <1>1, <1>2
    <3>5. Min(starts) = a BY <1>9, <3>3, <3>4
    <3>6. KeepLast(Part(s, a, last), lines) = Part(s, a, last) BY <2>6, <2>8
    <3> QED BY <1>7, <1>8, <2>2, <3>5, <3>6 DEF n, N
  <2> QED BY <2>7, <2>8
<1> QED BY <1>10, <1>11

\* The window is cut to the newest lines.
LEMMA NewestOfWindow ==
  ASSUME NEW s \in Seq(Byte), NEW length \in 0 .. Len(s), NEW lines \in Nat \ {0}
  PROVE  KeepLast(DropPartialLast(DropPartialFirst(Part(s, WindowStart(length), Len(s)),
                                                   StartsAtBoundary(s, WindowStart(length)))), lines)
             = NewestLines(s, length, lines)
<1> DEFINE n == Len(s)
           N == Newlines(s)
           ends == {0} \cup N
           start == WindowStart(length)
           starts == {e \in ends : e >= length - MaxBytes /\ Cardinality(After(N, e)) <= lines}
<1>1. NewestLines(s, length, lines) = IF starts = {} THEN << >> ELSE Part(s, Min(starts), Max(ends))
  BY DEF NewestLines, After, Part
<1>2. n \in Nat /\ \A i \in N : i \in 1 .. n BY DEF Newlines
<1>3. \A i \in 1 .. n : i \in N <=> s[i] = "newline" BY DEF Newlines
<1>4. start \in 0 .. n /\ (start # 0 => start = length - MaxBytes) /\ (start = 0 => length - MaxBytes <= 0)
      /\ length - MaxBytes \in Int
  BY BoundsAssumption DEF WindowStart
<1>5. StartsAtBoundary(s, start) \in BOOLEAN BY DEF StartsAtBoundary
<1>6. StartsAtBoundary(s, start) <=> start \in ends BY <1>3, <1>4 DEF StartsAtBoundary
<1> HIDE DEF start, N, n
<1>7. ASSUME NEW a \in ends, \A e \in ends : e >= a <=> e >= length - MaxBytes
      PROVE  KeepLast(DropPartialLast(Part(s, a, n)), lines) = NewestLines(s, length, lines)
  <2>1. starts = {e \in ends : e >= a /\ Cardinality(After(N, e)) <= lines}
    <3> HIDE DEF ends
    <3> QED BY <1>7, Zenon
  <2> DEFINE from == {e \in ends : e >= a /\ Cardinality(After(N, e)) <= lines}
  <2>2. from # {} /\ KeepLast(DropPartialLast(Part(s, a, n)), lines) = Part(s, Min(from), Max(ends))
    BY NewestOfWholeLines DEF N, n
  <2> HIDE DEF from, starts, ends
  <2> QED BY <1>1, <2>1, <2>2 DEF from
<1>8. CASE start \in ends
  <2>1. \A e \in ends : e >= start <=> e >= length - MaxBytes BY <1>2, <1>4
  <2>2. DropPartialFirst(Part(s, start, n), StartsAtBoundary(s, start)) = Part(s, start, n)
    BY <1>6, <1>8 DEF DropPartialFirst
  <2> QED BY <1>7, <1>8, <2>1, <2>2, Zenon DEF start, n
<1>9. CASE start \notin ends
  <2>1. StartsAtBoundary(s, start) = FALSE BY <1>5, <1>6, <1>9
  <2>2. start = length - MaxBytes BY <1>4, <1>9
  <2>3. \A i : i \in NewlinesIn(s, start, n) <=> i \in N /\ i > start
    BY <1>2, <1>3, <1>4 DEF NewlinesIn
  <2>4. \A e \in ends : e >= length - MaxBytes <=> e \in NewlinesIn(s, start, n) BY <1>2, <1>4, <1>9, <2>2, <2>3
  <2>5. CASE NewlinesIn(s, start, n) = {}
    <3>1. starts = {} BY <2>4, <2>5, Zenon
    <3>2. Newlines(Part(s, start, n)) = {} BY <1>2, <1>4, <2>5, NoNewline DEF n
    <3>3. DropPartialFirst(Part(s, start, n), FALSE) = << >> BY <3>2 DEF DropPartialFirst
    <3>4. DropPartialLast(<< >>) = << >> /\ KeepLast(<< >>, lines) = << >>
      BY DEF DropPartialLast, KeepLast, Newlines
    <3> QED BY <1>1, <2>1, <3>1, <3>3, <3>4, Zenon DEF start, n
  <2>6. CASE NewlinesIn(s, start, n) # {}
    <3>1. \A i \in NewlinesIn(s, start, n) : i \in Nat BY <1>2, <2>3
    <3>2. PICK m \in NewlinesIn(s, start, n) : \A i \in NewlinesIn(s, start, n) : m <= i
      BY <2>6, <3>1, LeastExists
    <3>3. m \in ends /\ m > start /\ m \in Nat BY <1>2, <2>3, <3>2
    <3>4. \A e \in ends : e >= m <=> e >= length - MaxBytes BY <1>2, <1>4, <2>2, <2>4, <3>2, <3>3
    <3>5. DropPartialFirst(Part(s, start, n), FALSE) = Part(s, m, n)
      <4>1. n \in 0 .. Len(s) BY <1>2 DEF n
      <4> QED BY <1>4, <3>2, <4>1, FirstIsDropped, Zenon
    <3> QED BY <1>7, <2>1, <3>3, <3>4, <3>5, Zenon DEF start, n
  <2> QED BY <2>5, <2>6
<1> QED BY <1>8, <1>9

\* They are no longer than the window.
LEMMA NewestFit ==
  ASSUME NEW s \in Seq(Byte), NEW length \in Nat, NEW lines, Len(s) <= WindowStart(length) + MaxBytes
  PROVE  Len(NewestLines(s, length, lines)) <= MaxBytes
<1> DEFINE N == Newlines(s)
           ends == {0} \cup N
           starts == {e \in ends : e >= length - MaxBytes /\ Cardinality(After(N, e)) <= lines}
<1>1. NewestLines(s, length, lines) = IF starts = {} THEN << >> ELSE SubSeq(s, Min(starts) + 1, Max(ends))
  BY DEF NewestLines, After
<1>2. Len(s) \in Nat /\ \A e \in ends : e \in 0 .. Len(s) BY DEF Newlines
<1>3. \A e \in starts : e \in 0 .. Len(s) /\ e >= length - MaxBytes BY <1>2
<1>4. ends # {} OBVIOUS
<1> HIDE DEF ends, starts
<1>5. PICK last \in ends : \A e \in ends : e <= last BY <1>2, <1>4, GreatestExists
<1>6. Max(ends) = last /\ last \in 0 .. Len(s) BY <1>2, <1>5, MaxIs
<1>7. CASE starts = {} BY <1>1, <1>7, BoundsAssumption
<1>8. CASE starts # {}
  <2>1. PICK m \in starts : \A e \in starts : m <= e BY <1>3, <1>8, LeastExists
  <2>2. Min(starts) = m /\ m \in 0 .. Len(s) /\ m >= length - MaxBytes BY <1>3, <2>1, MinIs
  <2>3. last - m <= MaxBytes BY <1>6, <2>2, BoundsAssumption DEF WindowStart
  <2>4. Len(SubSeq(s, m + 1, last)) = IF m < last THEN last - m ELSE 0 BY <1>6, <2>2
  <2> QED BY <1>1, <1>6, <1>8, <2>2, <2>3, <2>4, BoundsAssumption
<1> QED BY <1>7, <1>8

-----------------------------------------------------------------------------
(* The three looks.                                                        *)

\* Reading and cutting what the first two looks have found out.
LEMMA ReadIsNewest ==
  ASSUME log \in Seq(Byte), NEW q \in ToRead, q.length <= Len(log), q.start = WindowStart(q.length),
         q.boundary = StartsAtBoundary(log, q.start)
  PROVE  LET upTo == Min({q.start + MaxBytes, Len(log)})
             content == KeepLast(DropPartialLast(DropPartialFirst(SubSeq(log, q.start + 1, upTo), q.boundary)), q.lines)
             seen == SubSeq(log, 1, upTo)
         IN  /\ Len(seen) >= q.length
             /\ Len(content) <= MaxBytes
             /\ content = NewestLines(seen, q.length, q.lines)
<1> DEFINE n == Len(log)
           upTo == Min({q.start + MaxBytes, n})
           seen == SubSeq(log, 1, upTo)
<1>1. /\ q.length \in Nat /\ q.start \in Nat /\ q.lines \in Nat \ {0} /\ n \in Nat
      /\ q.length <= q.start + MaxBytes /\ q.start <= q.length /\ q.start + MaxBytes \in Nat
  BY BoundsAssumption DEF ToRead, WindowStart
<1>2. upTo = IF q.start + MaxBytes <= n THEN q.start + MaxBytes ELSE n
  <2> DEFINE S == {q.start + MaxBytes, n}
  <2>1. \A y \in S : y \in Int BY <1>1
  <2>2. CASE q.start + MaxBytes <= n
    <3>1. q.start + MaxBytes \in S /\ \A y \in S : q.start + MaxBytes <= y BY <1>1, <2>2
    <3> HIDE DEF S
    <3>2. Min(S) = q.start + MaxBytes BY <2>1, <3>1, MinIs
    <3> QED BY <2>2, <3>2 DEF S
  <2>3. CASE ~(q.start + MaxBytes <= n)
    <3>1. n \in S /\ \A y \in S : n <= y BY <1>1, <2>3
    <3> HIDE DEF S
    <3>2. Min(S) = n BY <2>1, <3>1, MinIs
    <3> QED BY <2>3, <3>2 DEF S
  <2> QED BY <2>2, <2>3
<1>3. upTo \in 0 .. n /\ upTo >= q.length /\ upTo <= q.start + MaxBytes /\ q.start \in 0 .. upTo BY <1>1, <1>2
<1> HIDE DEF upTo
<1>4. /\ seen = Part(log, 0, upTo) /\ seen \in Seq(Byte) /\ Len(seen) = upTo
      /\ \A i \in 1 .. upTo : seen[i] = log[i]
  BY <1>3 DEF Part
<1>5. SubSeq(log, q.start + 1, upTo) = Part(seen, q.start, Len(seen))
  <2>1. 0 \in 0 .. upTo /\ upTo \in 0 .. upTo - 0 /\ 0 + q.start = q.start /\ 0 + upTo = upTo BY <1>3
  <2>2. Part(Part(log, 0, upTo), q.start, upTo) = Part(log, 0 + q.start, 0 + upTo) BY <1>3, <2>1, PartOfPart
  <2>3. Part(seen, q.start, upTo) = Part(log, q.start, upTo) BY <1>4, <2>1, <2>2, Zenon
  <2> QED BY <1>4, <2>3, Zenon DEF Part
<1> HIDE DEF seen
<1>6. q.boundary = StartsAtBoundary(seen, q.start) BY <1>3, <1>4 DEF StartsAtBoundary
<1>7. KeepLast(DropPartialLast(DropPartialFirst(SubSeq(log, q.start + 1, upTo), q.boundary)), q.lines)
          = NewestLines(seen, q.length, q.lines)
  <2>1. q.length \in 0 .. Len(seen) BY <1>1, <1>3, <1>4
  <2>2. KeepLast(DropPartialLast(DropPartialFirst(Part(seen, WindowStart(q.length), Len(seen)),
                     StartsAtBoundary(seen, WindowStart(q.length)))), q.lines)
          = NewestLines(seen, q.length, q.lines)
    BY <1>1, <1>4, <2>1, NewestOfWindow
  <2> QED BY <1>5, <1>6, <2>2, Zenon
<1>8. Len(NewestLines(seen, q.length, q.lines)) <= MaxBytes BY <1>1, <1>3, <1>4, NewestFit
<1> QED BY <1>3, <1>4, <1>7, <1>8 DEF seen, upTo

LEMMA RequestFacts ==
  ASSUME NEW q, IsRequest(q)
  PROVE  /\ q.at = "opened" => q \in Opened
         /\ q.at = "stat" => q \in ToStat
         /\ q.at = "peek" => q \in ToPeek
         /\ q.at = "read" => q \in ToRead
  BY DEF IsRequest, Opened, ToStat, ToPeek, ToRead

LEMMA InitInv == Init => Inv
<1> SUFFICES ASSUME Init PROVE Inv OBVIOUS
<1>1. log \in Seq(Byte) BY DEF Init
<1>2. \A r \in Request : request[r].at = "none" BY DEF Init, NoRequest
<1>3. DOMAIN request = Request BY DEF Init
<1>4. \A r \in Request : IsRequest(request[r]) BY <1>2 DEF IsRequest
<1>5. TypeOK BY <1>1, <1>3, <1>4, Zenon DEF Init, TypeOK
<1>6. \A r \in Request : LookHolds(request[r]) BY <1>2 DEF LookHolds
<1>7. \A r \in Request : HoldsNewest(request[r]) BY <1>2 DEF HoldsNewest
<1> QED BY <1>5, <1>6, <1>7 DEF Inv, TailIsNewest

\* A request that has nothing to look at, or is given an answer without
\* content.
LEMMA PlainRequest ==
  ASSUME NEW q, q.at \in {"none", "idle", "receiving", "accepted"} \/ (q.at = "answered" /\ q.answer # "content")
  PROVE  IsRequest(q) /\ LookHolds(q) /\ HoldsNewest(q)
  BY DEF IsRequest, LookHolds, HoldsNewest

LEMMA BecomesKeepsInv ==
  ASSUME Inv, NEW r \in Request, NEW next, Becomes(r, next), IsRequest(next), LookHolds(next), HoldsNewest(next)
  PROVE  Inv'
<1>1. /\ UNCHANGED <<file, mode, thread, status, stop, log, place>>
      /\ request'[r] = next /\ \A e \in Request \ {r} : request'[e] = request[e]
      /\ DOMAIN request' = Request
  BY DEF Becomes, Inv, TypeOK
<1>2. \A e \in Request : IsRequest(request[e])' BY <1>1 DEF Inv, TypeOK
<1>3. TypeOK' BY <1>1, <1>2 DEF Inv, TypeOK
<1>4. \A q : LookHolds(q) => LookHolds(q)' BY <1>1 DEF LookHolds
<1>5. \A e \in Request : LookHolds(request'[e]) BY <1>1 DEF Inv
<1>6. \A e \in Request : LookHolds(request[e])' BY <1>4, <1>5
<1>7. \A e \in Request : HoldsNewest(request[e])' BY <1>1 DEF Inv, TailIsNewest
<1> QED BY <1>3, <1>6, <1>7 DEF Inv, TailIsNewest

LEMMA HandleKeepsInv ==
  ASSUME Inv, NEW r \in Request, Client(r) \/ Handle(r)
  PROVE  Inv'
<1> DEFINE q == request[r]
<1>1. IsRequest(q) /\ LookHolds(q) /\ log \in Seq(Byte) BY DEF Inv, TypeOK
<1>2. ASSUME NEW next, Becomes(r, next),
             next.at \in {"none", "idle", "receiving", "accepted"} \/ (next.at = "answered" /\ next.answer # "content")
      PROVE  Inv'
  BY <1>2, PlainRequest, BecomesKeepsInv
<1>3. ASSUME NEW answer, answer # "content", Becomes(r, Answered(answer)) PROVE Inv'
  <2>1. Answered(answer).at = "answered" /\ Answered(answer).answer = answer BY DEF Answered
  <2> QED BY <1>2, <1>3, <2>1
<1>4. CASE Accept(r) BY <1>2, <1>4 DEF Accept
<1>5. CASE Connect(r) \/ BeginRequest(r) \/ TakeAnswer(r) \/ Disconnect(r)
  BY <1>2, <1>5 DEF Connect, BeginRequest, TakeAnswer, Disconnect, NoRequest, Idle, Receiving
<1>6. CASE HandlerFails(r)
  <2>1. q.at \in {"accepted", "opened", "stat", "peek", "read"}
    BY <1>6 DEF HandlerFails, InFlight
  <2>2. Failure[q.at] # "content" BY <2>1 DEF Failure
  <2> QED BY <1>3, <1>6, <2>2 DEF HandlerFails
<1>7. CASE OpenFile(r)
  <2> DEFINE next == [at |-> "opened", lines |-> Lines(q.tail)]
  <2>1. CASE Becomes(r, next) /\ Lines(q.tail) # None
    <3>1. Lines(q.tail) \in 1 .. MaxLines BY <2>1, BoundsAssumption DEF Lines
    <3>2. next \in Opened BY <3>1 DEF Opened
    <3>3. IsRequest(next) /\ LookHolds(next) /\ HoldsNewest(next) BY <3>2 DEF IsRequest, LookHolds, HoldsNewest
    <3> QED BY <2>1, <3>3, BecomesKeepsInv
  <2>2. \/ Becomes(r, next) /\ Lines(q.tail) # None
        \/ \E answer \in {"untrusted_client", "invalid_tail", "invalid_path", "file_not_found"} :
              Becomes(r, Answered(answer))
    BY <1>7 DEF OpenFile
  <2> QED BY <1>3, <2>1, <2>2
<1>8. CASE AuthorizeTarget(r)
  <2> DEFINE next == [at |-> "stat", lines |-> q.lines, recreated |-> FALSE]
  <2>1. CASE Becomes(r, next)
    <3>1. q \in Opened BY <1>1, <1>8, RequestFacts DEF AuthorizeTarget
    <3>2. next \in ToStat BY <3>1 DEF Opened, ToStat
    <3>3. IsRequest(next) /\ LookHolds(next) /\ HoldsNewest(next) BY <3>2 DEF IsRequest, LookHolds, HoldsNewest
    <3> QED BY <2>1, <3>3, BecomesKeepsInv
  <2>2. Becomes(r, next) \/ Becomes(r, Answered("forbidden_path")) BY <1>8 DEF AuthorizeTarget
  <2> QED BY <1>3, <2>1, <2>2
<1>9. CASE Stat(r)
  <2> DEFINE next == [at |-> "peek", lines |-> q.lines, recreated |-> q.recreated,
                      length |-> Len(log), start |-> WindowStart(Len(log))]
  <2>1. q \in ToStat BY <1>1, <1>9, RequestFacts DEF Stat
  <2>2. Len(log) \in Nat /\ WindowStart(Len(log)) \in Nat BY <1>1, BoundsAssumption DEF WindowStart
  <2>3. next \in ToPeek BY <2>1, <2>2 DEF ToStat, ToPeek
  <2>4. IsRequest(next) /\ LookHolds(next) /\ HoldsNewest(next) BY <2>2, <2>3 DEF IsRequest, LookHolds, HoldsNewest
  <2>5. Becomes(r, next) BY <1>9 DEF Stat
  <2> QED BY <2>4, <2>5, BecomesKeepsInv
<1>10. CASE Peek(r)
  <2> DEFINE next == [at |-> "read", lines |-> q.lines, recreated |-> q.recreated, length |-> q.length,
                      start |-> q.start, boundary |-> StartsAtBoundary(log, q.start)]
  <2>1. CASE Becomes(r, next)
    <3>1. q \in ToPeek BY <1>1, <1>10, RequestFacts DEF Peek
    <3>2. StartsAtBoundary(log, q.start) \in BOOLEAN BY DEF StartsAtBoundary
    <3>3. next \in ToRead BY <3>1, <3>2 DEF ToPeek, ToRead
    <3>4. q.start = WindowStart(q.length) /\ (~q.recreated => q.length <= Len(log))
      BY <1>1, <3>1 DEF LookHolds, ToPeek
    <3>5. LookHolds(next) BY <3>4 DEF LookHolds
    <3>6. IsRequest(next) /\ HoldsNewest(next) BY <3>3 DEF IsRequest, HoldsNewest
    <3> QED BY <2>1, <3>5, <3>6, BecomesKeepsInv
  <2>2. Becomes(r, next) \/ Becomes(r, Answered("read_failed")) BY <1>10 DEF Peek
  <2> QED BY <1>3, <2>1, <2>2
<1>11. CASE ReadWindow(r)
  <2> DEFINE upTo == Min({q.start + MaxBytes, Len(log)})
             bytes == SubSeq(log, q.start + 1, upTo)
             content == KeepLast(DropPartialLast(DropPartialFirst(bytes, q.boundary)), q.lines)
             next == [at |-> "answered", answer |-> "content", asked |-> q, upTo |-> log, content |-> content]
  <2>1. q \in ToRead BY <1>1, <1>11, RequestFacts DEF ReadWindow
  <2>2. HoldsNewest(next)
    <3>1. CASE q.recreated BY <3>1 DEF HoldsNewest
    <3>2. CASE ~q.recreated
      <4>1. /\ q.start = WindowStart(q.length) /\ q.length <= Len(log)
            /\ q.boundary = StartsAtBoundary(log, q.start)
        BY <1>1, <2>1, <3>2 DEF LookHolds, ToRead
      <4>2. LET seen == SubSeq(log, 1, upTo)
            IN  /\ Len(seen) >= q.length /\ Len(content) <= MaxBytes
                /\ content = NewestLines(seen, q.length, q.lines)
        BY <1>1, <2>1, <4>1, ReadIsNewest, Zenon
      <4> QED BY <4>2, Zenon DEF HoldsNewest
    <3> QED BY <3>1, <3>2
  <2>3. IsRequest(next) /\ LookHolds(next) BY DEF IsRequest, LookHolds
  <2>4. Becomes(r, next) BY <1>11, Zenon DEF ReadWindow
  <2> QED BY <2>2, <2>3, <2>4, BecomesKeepsInv
<1> QED BY <1>4, <1>5, <1>6, <1>7, <1>8, <1>9, <1>10, <1>11 DEF Client, Handle

\* A log that grows keeps what has been looked at.
LEMMA AppendKeepsLooks ==
  ASSUME log \in Seq(Byte), NEW b \in Byte, log' = Append(log, b), NEW q, IsRequest(q), LookHolds(q)
  PROVE  LookHolds(q)'
<1>1. Len(log) \in Nat /\ Len(log') = Len(log) + 1 /\ \A i \in 1 .. Len(log) : log'[i] = log[i] OBVIOUS
<1>2. CASE q.at = "peek"
  <2>1. q \in ToPeek BY <1>2, RequestFacts
  <2>2. q.length \in Nat BY <2>1 DEF ToPeek
  <2> QED BY <1>1, <1>2, <2>2 DEF LookHolds
<1>3. CASE q.at = "read"
  <2>1. q \in ToRead BY <1>3, RequestFacts
  <2>2. q.length \in Nat /\ q.start \in Nat BY <2>1 DEF ToRead
  <2>3. q.start = WindowStart(q.length) BY <1>3 DEF LookHolds
  <2>4. q.start <= q.length BY <2>2, <2>3, BoundsAssumption DEF WindowStart
  <2>5. ASSUME ~q.recreated PROVE q.length <= Len(log') /\ q.boundary = StartsAtBoundary(log', q.start)
    <3>1. q.length <= Len(log) /\ q.boundary = StartsAtBoundary(log, q.start) BY <1>3, <2>5 DEF LookHolds
    <3>2. q.start = 0 \/ q.start \in 1 .. Len(log) BY <1>1, <2>2, <2>4, <3>1
    <3> QED BY <1>1, <2>2, <3>1, <3>2 DEF StartsAtBoundary
  <2> QED BY <1>3, <2>3, <2>5 DEF LookHolds
<1> QED BY <1>2, <1>3 DEF LookHolds

\* One that is created anew marks the readers it has.
LEMMA RecreateKeepsRequest ==
  ASSUME Recreate, NEW r \in Request, IsRequest(request[r]), LookHolds(request[r]), HoldsNewest(request[r])
  PROVE  IsRequest(request[r])' /\ LookHolds(request[r])' /\ HoldsNewest(request[r])'
<1> DEFINE q == request[r]
           p == [q EXCEPT !.recreated = TRUE]
<1>1. log' = << >> /\ request'[r] = IF q.at \in {"stat", "peek", "read"} THEN p ELSE q BY DEF Recreate
<1>2. CASE q.at = "stat"
  <2>1. q \in ToStat BY <1>2, RequestFacts
  <2>2. p \in ToStat /\ p.at = "stat" BY <2>1, Zenon DEF ToStat
  <2> QED BY <1>1, <1>2, <2>2 DEF IsRequest, LookHolds, HoldsNewest
<1>3. CASE q.at = "peek"
  <2>1. q \in ToPeek BY <1>3, RequestFacts
  <2>2. p \in ToPeek /\ p.at = "peek" /\ p.recreated /\ p.start = q.start /\ p.length = q.length BY <2>1, Zenon DEF ToPeek
  <2>3. q.start = WindowStart(q.length) BY <1>3 DEF LookHolds
  <2>4. IsRequest(p) /\ HoldsNewest(p) BY <2>2 DEF IsRequest, HoldsNewest
  <2>5. LookHolds(request[r])' BY <1>1, <1>3, <2>2, <2>3 DEF LookHolds
  <2> QED BY <1>1, <1>3, <2>4, <2>5
<1>4. CASE q.at = "read"
  <2>1. q \in ToRead BY <1>4, RequestFacts
  <2>2. p \in ToRead /\ p.at = "read" /\ p.recreated /\ p.start = q.start /\ p.length = q.length BY <2>1, Zenon DEF ToRead
  <2>3. q.start = WindowStart(q.length) BY <1>4 DEF LookHolds
  <2>4. IsRequest(p) /\ HoldsNewest(p) BY <2>2 DEF IsRequest, HoldsNewest
  <2>5. LookHolds(request[r])' BY <1>1, <1>4, <2>2, <2>3 DEF LookHolds
  <2> QED BY <1>1, <1>4, <2>4, <2>5
<1>5. CASE q.at \notin {"stat", "peek", "read"}
  <2>1. request'[r] = q BY <1>1, <1>5
  <2> QED BY <1>5, <2>1 DEF LookHolds
<1> QED BY <1>2, <1>3, <1>4, <1>5

LEMMA StepKeepsInv == Inv /\ [Next]_vars => Inv'
<1> SUFFICES ASSUME Inv, [Next]_vars PROVE Inv' OBVIOUS
<1>1. \A r \in Request : IsRequest(request[r]) /\ LookHolds(request[r]) /\ HoldsNewest(request[r])
  BY DEF Inv, TypeOK, TailIsNewest
\* A step that leaves every request sound.
<1>2. ASSUME /\ file' \in BOOLEAN /\ stop' \in BOOLEAN
             /\ mode' \in {None, "RemoteAllowlist", "LocalhostOnly"}
             /\ thread' \in {"register", "load", "bind", "publish", "serve", "end", "done"}
             /\ status' \in {None, "StartPending", "Running", "Stopped", "Failed"}
             /\ log' \in Seq(Byte)
             /\ place' \in {"folder", "elsewhere"}
             /\ DOMAIN request' = Request,
             \A r \in Request : IsRequest(request[r])' /\ LookHolds(request[r])' /\ HoldsNewest(request[r])'
      PROVE  Inv'
  BY <1>2 DEF Inv, TypeOK, TailIsNewest
<1>3. ASSUME UNCHANGED <<log, request>>
      PROVE  \A r \in Request : IsRequest(request[r])' /\ LookHolds(request[r])' /\ HoldsNewest(request[r])'
  BY <1>1, <1>3 DEF LookHolds
<1>4. CASE \/ Register \/ LoadConfig \/ BindListener \/ PublishRunning \/ ServeReturns
           \/ Stop \/ EditConfig \/ Move \/ UNCHANGED vars
  <2>1. UNCHANGED <<log, request>>
    BY <1>4 DEF Register, LoadConfig, BindListener, PublishRunning, ServeReturns, Stop, EditConfig, Move, vars
  <2>2. /\ file' \in BOOLEAN /\ stop' \in BOOLEAN
        /\ mode' \in {None, "RemoteAllowlist", "LocalhostOnly"}
        /\ thread' \in {"register", "load", "bind", "publish", "serve", "end", "done"}
        /\ status' \in {None, "StartPending", "Running", "Stopped", "Failed"}
        /\ place' \in {"folder", "elsewhere"}
    BY <1>4, Zenon DEF Register, LoadConfig, BindListener, PublishRunning, ServeReturns, Stop, EditConfig, Move, vars,
                StopWithError, Inv, TypeOK
  <2> QED BY <1>2, <1>3, <2>1, <2>2 DEF Inv, TypeOK
<1>5. CASE PublishStopped
  <2>1. /\ UNCHANGED <<file, mode, stop, log, place>> /\ thread' = "done" /\ status' \in {"Stopped", status}
        /\ DOMAIN request' = Request /\ \A r \in Request : request'[r] = NoRequest
    BY <1>5 DEF PublishStopped
  <2>2. ASSUME NEW r \in Request PROVE IsRequest(request[r])' /\ LookHolds(request[r])' /\ HoldsNewest(request[r])'
    <3>1. IsRequest(NoRequest) /\ LookHolds(NoRequest) /\ HoldsNewest(NoRequest) BY PlainRequest DEF NoRequest
    <3>2. IsRequest(request'[r]) /\ LookHolds(request'[r]) /\ HoldsNewest(request'[r]) BY <2>1, <3>1
    <3> QED BY <2>1, <3>2 DEF LookHolds
  <2> QED BY <1>2, <2>1, <2>2 DEF Inv, TypeOK
<1>6. CASE AppendByte
  <2>1. PICK b \in Byte : log' = Append(log, b) BY <1>6 DEF AppendByte
  <2>2. UNCHANGED <<file, mode, thread, status, stop, place, request>> /\ log \in Seq(Byte) /\ log' \in Seq(Byte)
    BY <1>6, <2>1 DEF AppendByte, Inv, TypeOK
  <2>3. ASSUME NEW r \in Request PROVE IsRequest(request[r])' /\ LookHolds(request[r])' /\ HoldsNewest(request[r])'
    <3>1. \A q : IsRequest(q) /\ LookHolds(q) => LookHolds(q)' BY <2>1, <2>2, AppendKeepsLooks
    <3> QED BY <1>1, <2>2, <3>1
  <2> QED BY <1>2, <2>2, <2>3 DEF Inv, TypeOK
<1>7. CASE Recreate
  <2>1. /\ UNCHANGED <<file, mode, thread, status, stop, place>> /\ log' = << >> /\ log' \in Seq(Byte)
        /\ DOMAIN request' = Request
    BY <1>7 DEF Recreate
  <2>2. \A r \in Request : IsRequest(request[r])' /\ LookHolds(request[r])' /\ HoldsNewest(request[r])'
    BY <1>1, <1>7, RecreateKeepsRequest
  <2> QED BY <1>2, <2>1, <2>2 DEF Inv, TypeOK
<1> QED BY <1>4, <1>5, <1>6, <1>7, HandleKeepsInv DEF Next, ServiceThread

-----------------------------------------------------------------------------
(* Theorems.                                                               *)

\* read_bounded_tail_file: what the three looks at a growing log have found
\* out stays so until it is used, unless the log is created anew.
THEOREM LooksStayTrue == Spec => []Inv
  BY InitInv, StepKeepsInv, PTL DEF Spec

\* read_bounded_tail_file: whatever is appended between the looks, the answer
\* is the newest whole lines in the window, at most as many as were asked
\* for and no more bytes than allowed.
THEOREM TailStaysNewest == Spec => []TailIsNewest
<1>1. Inv => TailIsNewest BY DEF Inv
<1> QED BY <1>1, LooksStayTrue, PTL
=============================================================================
