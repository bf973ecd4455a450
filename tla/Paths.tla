------------------------------- MODULE Paths --------------------------------
(***************************************************************************)
(* VirtualPath (path.rs): parse splits a text at its separators, checks    *)
(* the names and joins them to the lookup key; display_path joins them;    *)
(* parent_key splits the key, drops the last piece and joins the others.   *)
(* A split gives one piece a step, and a join takes one piece a step.  A   *)
(* behaviour parses some input, and then what it gets from the path.       *)
(***************************************************************************)
EXTENDS Characters

CONSTANTS
    MaxInput,               \* bound on the length of the input
    MaxPathLength, MaxComponentLength, MaxComponents

ASSUME PathsAssumption ==
    {MaxInput, MaxPathLength, MaxComponentLength, MaxComponents} \subseteq Nat

\* "N" stands for the reserved device names, "*" for the characters that no
\* name may have, "." for a space too, and ":" for NUL too.
Separator == {"/", "\\"}
PathCharacter == Separator \cup {"a", "A", ".", "N", ":", "*"}

VARIABLES
    stage,        \* "idle", "splitting", "joining", "done" or "refused"
    operation,    \* "parse", "display_path" or "parent_key"
    text,         \* the text that is split
    from,         \* where its next piece begins
    pieces,       \* the pieces split off, and then those that are joined
    display,      \* the names of the path
    joined,       \* what has been joined
    \* history
    origin,       \* the operation that gave the text parsed, or "input"
    path,         \* the path that the input was parsed to
    places,       \* where the pieces split off end in text
    ends,         \* where the pieces joined end in joined
    last          \* the text joined before, its pieces and their ends

split == <<text, from, pieces, places>>
join == <<joined, ends>>
past == <<origin, path, last>>
virtualPath == <<stage, operation, split, display, join, past>>

-----------------------------------------------------------------------------
(* Splitting and joining.                                                  *)

\* A key is split at "/" only.
Separators == IF operation = "parse" THEN Separator ELSE {"/"}
IsCut(i) == i \in DOMAIN text => text[i] \in Separators

BeginSplit(s) ==
    /\ text' = s /\ from' = 1 /\ pieces' = << >> /\ places' = << >>
BeginJoin(parts) ==
    /\ stage' = "joining" /\ pieces' = parts
    /\ joined' = << >> /\ ends' = << >>

\* The next piece.  parse leaves out the empty ones.
NextPiece ==
    /\ stage = "splitting" /\ from <= Len(text) + 1
    /\ \E end \in from..Len(text) + 1 :
           /\ IsCut(end) /\ \A i \in from..end - 1 : ~IsCut(i)
           /\ from' = end + 1
           /\ IF operation = "parse" /\ end = from
              THEN UNCHANGED <<pieces, places>>
              ELSE /\ pieces' = Append(pieces, SubSeq(text, from, end - 1))
                   /\ places' = Append(places, end - 1)
    /\ UNCHANGED <<stage, operation, text, display, join, past>>

Glue == IF operation = "display_path" THEN "\\" ELSE "/"

JoinPiece ==
    /\ stage = "joining" /\ Len(ends) < Len(pieces)
    /\ joined' = (IF ends = << >> THEN << >> ELSE Append(joined, Glue)) \o pieces[Len(ends) + 1]
    /\ ends' = Append(ends, Len(joined'))
    /\ UNCHANGED <<stage, operation, split, display, past>>

Joined ==
    /\ stage = "joining" /\ Len(ends) = Len(pieces) /\ stage' = "done"
    /\ UNCHANGED <<operation, split, display, join, past>>

-----------------------------------------------------------------------------
(* parse.                                                                  *)

\* What is_device_or_unc refuses begins with a separator.
Refused(s) ==
    \/ s = << >> \/ Len(s) > MaxPathLength
    \/ s[1] \in Separator
    \/ \E i \in DOMAIN s : s[i] = ":"

\* Not "." or "..", nothing that ends with ".", no forbidden character, and
\* no device name with or without an extension.
ValidComponent(part) ==
    /\ part # << >> /\ Len(part) <= MaxComponentLength
    /\ part[Len(part)] # "."
    /\ \A i \in DOMAIN part : part[i] # "*"
    /\ ~(part[1] = "N" /\ (Len(part) = 1 \/ part[2] = "."))

BeginParse(s) ==
    /\ operation' = "parse" /\ BeginSplit(s)
    /\ stage' = IF Refused(s) THEN "refused" ELSE "splitting"

ParseInput ==
    /\ stage = "idle"
    /\ \E s \in Strings(PathCharacter, MaxInput) : BeginParse(s)
    /\ UNCHANGED <<display, join, past>>

\* Mutant: the key keeps the case of the names.
KeptNames(names) == names
LookupNames(names) == [k \in DOMAIN names |-> LowerAll(names[k])]

IsValid == Len(pieces) \in 1..MaxComponents /\ \A k \in DOMAIN pieces : ValidComponent(pieces[k])

IsSplit == stage = "splitting" /\ from > Len(text) + 1

CheckNames ==
    /\ IsSplit /\ operation = "parse" /\ IsValid
    /\ display' = pieces /\ BeginJoin(LookupNames(pieces))
    /\ UNCHANGED <<operation, text, from, places, past>>
RefuseNames ==
    /\ IsSplit /\ operation = "parse" /\ ~IsValid
    /\ stage' = "refused"
    /\ UNCHANGED <<operation, split, display, join, past>>

-----------------------------------------------------------------------------
(* display_path and parent_key of the path that the input was parsed to,   *)
(* and parse of what they return or of the lookup key.                     *)

\* What the input is parsed to.
Input == stage = "done" /\ origin = "input" /\ operation = "parse"

KeepLast == last' = [text |-> joined, names |-> pieces, ends |-> ends]
KeepPath == path' = [display |-> display, lookup |-> joined]

DisplayPath ==
    /\ Input /\ operation' = "display_path" /\ BeginJoin(display)
    /\ KeepPath /\ KeepLast
    /\ UNCHANGED <<text, from, places, display, origin>>

ParentKey ==
    /\ Input /\ operation' = "parent_key" /\ BeginSplit(joined) /\ stage' = "splitting"
    /\ KeepPath /\ KeepLast
    /\ UNCHANGED <<display, join, origin>>

PopPiece ==
    /\ IsSplit /\ operation = "parent_key"
    /\ LET above == SubSeq(pieces, 1, Len(pieces) - 1)
       IN  IF above = << >> THEN stage' = "refused" /\ UNCHANGED <<pieces, join>> ELSE BeginJoin(above)
    /\ UNCHANGED <<operation, text, from, places, display, past>>

ParseAgain ==
    /\ stage = "done" /\ origin = "input" /\ origin' = operation
    /\ BeginParse(joined)
    /\ KeepLast /\ IF operation = "parse" THEN KeepPath ELSE UNCHANGED path
    /\ UNCHANGED <<display, join>>

-----------------------------------------------------------------------------
PathsInit ==
    /\ stage = "idle" /\ operation = "parse" /\ text = << >> /\ from = 1 /\ pieces = << >>
    /\ display = << >> /\ joined = << >> /\ origin = "input"
    /\ places = << >> /\ ends = << >>
    /\ path = [display |-> << >>, lookup |-> << >>]
    /\ last = [text |-> << >>, names |-> << >>, ends |-> << >>]

PathsNext ==
    \/ ParseInput \/ NextPiece \/ CheckNames \/ RefuseNames \/ JoinPiece \/ Joined
    \/ DisplayPath \/ ParentKey \/ PopPiece \/ ParseAgain

PathsSpec == PathsInit /\ [][PathsNext]_virtualPath

-----------------------------------------------------------------------------
(* Properties.                                                             *)

\* The names of what is parsed again.
InLowerCase(names) == [k \in DOMAIN names |-> LowerAll(names[k])]
NamesOf(how) ==
    CASE how = "display_path" -> path.display
      [] how = "parse" -> InLowerCase(path.display)
      [] how = "parent_key" -> SubSeq(InLowerCase(path.display), 1, Len(path.display) - 1)

\* "A stable display form and canonical lookup key": the display path of what
\* was parsed parses to the same names and the same key; the key parses to the
\* names up to their case and is its own key; the parent's key parses to the
\* names but the last, is its own key, and is there unless there is one name.
KeyIsCanonical ==
    /\ origin # "input" /\ stage \in {"done", "refused"} =>
          /\ stage = "done"
          /\ display = NamesOf(origin)
          /\ joined = IF origin = "parent_key" THEN text ELSE path.lookup
    /\ operation = "parent_key" /\ stage \in {"done", "refused"} =>
          (stage = "refused" <=> Len(path.display) = 1)

-----------------------------------------------------------------------------
(* The invariant.                                                          *)

\* Where the piece k begins when the pieces end at the places given.
Start(at, k) == IF k = 1 THEN 0 ELSE at[k - 1] + 1

Reach(at) == IF at = << >> THEN 0 ELSE at[Len(at)]

\* The pieces are in s one behind the other, with a cut between two.
Lies(piece, s, start) == start + Len(piece) <= Len(s) /\ \A i \in 1..Len(piece) : s[start + i] = piece[i]
Laid(parts, s, at, cuts) ==
    \A k \in 1..Len(at) :
        /\ at[k] = Start(at, k) + Len(parts[k])
        /\ Lies(parts[k], s, Start(at, k))
        /\ k > 1 => s[Start(at, k)] \in cuts

\* There is room for the pieces up to the places where they end.
Fit(parts, at, limit) ==
    \A k \in 1..Len(at) : Start(at, k) + Len(parts[k]) <= at[k] /\ at[k] <= limit

\* A piece that parse splits off, and names.
IsPart(part) == part # << >> /\ \A i \in 1..Len(part) : part[i] \notin Separator \cup {":"}
AreNames(parts) ==
    /\ Len(parts) \in 1..MaxComponents
    /\ \A k \in 1..Len(parts) : IsPart(parts[k]) /\ ValidComponent(parts[k])

\* The form of a key.
Canonical(c) == IF c \in Separator THEN "/" ELSE Lower(c)
IsCanonical(s) == \A i \in 1..Len(s) : Canonical(s[i]) = s[i]
Alike(s, t) == \A i \in 1..Len(s) : Canonical(s[i]) = Canonical(t[i])

HasNoColon(s) == \A i \in 1..Len(s) : s[i] # ":"

\* A text that was joined of names.
Whole(names, s, at, cuts) ==
    /\ AreNames(names) /\ Len(at) = Len(names) /\ Laid(names, s, at, cuts)
    /\ Len(s) = Reach(at) /\ Len(s) <= MaxPathLength /\ HasNoColon(s)

FromInput == origin = "input" /\ operation = "parse"

\* The pieces of a text that was joined are found one by one.
Following ==
    /\ Len(pieces) <= Len(last.names) /\ from = Start(last.ends, Len(pieces) + 1) + 1
    /\ \A k \in 1..Len(pieces) : pieces[k] = last.names[k]

SplitInv ==
    /\ Len(places) = Len(pieces) /\ from <= Len(text) + 2
    /\ Len(text) <= MaxPathLength /\ HasNoColon(text)
    /\ IF FromInput
       THEN Fit(pieces, places, from - 2) /\ \A k \in 1..Len(pieces) : IsPart(pieces[k])
       ELSE Following /\ text = last.text

\* There is room for what is joined; it is as the text joined before, which
\* ends where it ends.
JoinInv ==
    /\ AreNames(pieces) /\ Len(ends) <= Len(pieces)
    /\ stage = "done" => Len(ends) = Len(pieces)
    /\ Laid(pieces, joined, ends, {Glue}) /\ Len(joined) = Reach(ends) /\ HasNoColon(joined)
    /\ operation # "display_path" => IsCanonical(joined) /\ \A k \in 1..Len(pieces) : IsCanonical(pieces[k])
    /\ IF FromInput
       THEN /\ Len(places) = Len(pieces) /\ Fit(pieces, places, MaxPathLength)
            /\ \A k \in 1..Len(ends) : ends[k] <= places[k]
       ELSE /\ Len(pieces) <= Len(last.names)
            /\ \A k \in 1..Len(pieces) : Len(pieces[k]) = Len(last.names[k]) /\ Alike(pieces[k], last.names[k])
            /\ \A k \in 1..Len(ends) : ends[k] = last.ends[k]
            /\ Alike(joined, last.text)

LastInv == Whole(last.names, last.text, last.ends, Separators)

\* The key of the text that is parsed again.
Goal == IF origin = "parent_key" THEN last.text ELSE path.lookup

AgainInv ==
    /\ operation = "parse" /\ stage \in {"splitting", "joining", "done"} /\ text = last.text
    /\ last.names = NamesOf(origin)
    /\ Len(Goal) = Len(last.text) /\ \A i \in 1..Len(Goal) : Goal[i] = Canonical(last.text[i])
    /\ stage # "splitting" => display = last.names /\ pieces = LookupNames(display)

\* The operation that gives what is parsed again.
DerivedInv ==
    /\ last.text = path.lookup /\ IsCanonical(last.text)
    /\ AreNames(path.display) /\ last.names = LookupNames(path.display)
    /\ operation = "display_path" => stage \in {"joining", "done"} /\ pieces = path.display
    /\ operation = "parent_key" =>
          /\ stage \in {"splitting", "joining", "done", "refused"}
          /\ stage \in {"joining", "done"} => pieces = SubSeq(last.names, 1, Len(last.names) - 1)
          /\ stage = "refused" => Len(last.names) = 1

Word == Seq(PathCharacter)
PathsTypeOK ==
    /\ stage \in {"idle", "splitting", "joining", "done", "refused"}
    /\ operation \in {"parse", "display_path", "parent_key"}
    /\ origin \in {"input", "parse", "display_path", "parent_key"}
    /\ text \in Word /\ joined \in Word
    /\ pieces \in Seq(Word) /\ display \in Seq(Word)
    /\ from \in Nat \ {0} /\ places \in Seq(Nat) /\ ends \in Seq(Nat)
    /\ path \in [display : Seq(Word), lookup : Word]
    /\ last \in [text : Word, names : Seq(Word), ends : Seq(Nat)]

PathsInv ==
    /\ PathsTypeOK
    /\ stage = "splitting" => SplitInv
    /\ stage \in {"joining", "done"} => JoinInv
    /\ FromInput /\ stage \in {"joining", "done"} => AreNames(display) /\ pieces = LookupNames(display)
    /\ ~FromInput => LastInv
    /\ origin # "input" => AgainInv
    /\ operation # "parse" => DerivedInv
=============================================================================
