----------------------------- MODULE Selection ------------------------------
(***************************************************************************)
(* Two functions that choose: wildmatch::matches, which names a directory  *)
(* listing shows (dlp-windows-drive), loop step by loop step, and          *)
(* PolicyEvaluator::evaluate, which rule decides (dlp-policy).  call and   *)
(* answer hold the last call.                                              *)
(***************************************************************************)
EXTENDS Characters

CONSTANTS
    PatternCharacter, NameCharacter,
    MaxPattern, MaxName,     \* bounds on the lengths of patterns and names
    RuleId,                  \* an id is its rank among the strings
    Priority,
    MaxRules,                \* bound on the number of rules
    NoRule

\* The store refuses a name with a star.
ASSUME SelectionAssumption ==
    /\ "*" \notin NameCharacter
    /\ MaxPattern \in Nat /\ MaxName \in Nat /\ MaxRules \in Nat
    /\ \A n \in RuleId : n \in Nat
    /\ \A n \in Priority : n \in Nat
    /\ NoRule \notin RuleId

VARIABLES
    call,    \* the function called and its input
    answer,
    loop     \* the variables of the loop of matches

Calls(operation, input, result) ==
    /\ call' = [of |-> operation, input |-> input]
    /\ answer' = result
    /\ UNCHANGED loop

-----------------------------------------------------------------------------
(* wildmatch::matches.  Indices start at 1, and star is 0 when no star has *)
(* been met.                                                               *)

Pattern == LowerAll(call.input.pattern)
Name == LowerAll(call.input.name)

CallMatches ==
    /\ \E pattern \in Strings(PatternCharacter, MaxPattern), name \in Strings(NameCharacter, MaxName) :
           call' = [of |-> "matching", input |-> [pattern |-> pattern, name |-> name]]
    /\ loop' = [i |-> 1, j |-> 1, star |-> 0, match |-> 1]
    /\ UNCHANGED answer

Iterates == call.of = "matching" /\ loop.j <= Len(Name)
Leaves == call.of = "matching" /\ loop.j > Len(Name)

\* The pattern goes on with one of the characters.
GoesOnWith(characters) == loop.i <= Len(Pattern) /\ Pattern[loop.i] \in characters
Fits == GoesOnWith({Name[loop.j], "?"})

TakeCharacter ==
    /\ Iterates /\ Fits
    /\ loop' = [loop EXCEPT !.i = loop.i + 1, !.j = loop.j + 1]
    /\ UNCHANGED <<call, answer>>

\* The star stands for nothing until what follows it does not fit.
MeetStar ==
    /\ Iterates /\ ~Fits /\ GoesOnWith({"*"})
    /\ loop' = [loop EXCEPT !.i = loop.i + 1, !.star = loop.i, !.match = loop.j]
    /\ UNCHANGED <<call, answer>>

\* Mutant: the name is not taken up where the last attempt began.
BackInPattern ==
    /\ Iterates /\ ~Fits /\ ~GoesOnWith({"*"}) /\ loop.star # 0
    /\ loop' = [loop EXCEPT !.i = loop.star + 1, !.match = loop.match + 1]
    /\ UNCHANGED <<call, answer>>

\* The last star stands for one more character.
BackToStar ==
    /\ Iterates /\ ~Fits /\ ~GoesOnWith({"*"}) /\ loop.star # 0
    /\ loop' = [loop EXCEPT !.i = loop.star + 1, !.j = loop.match + 1, !.match = loop.match + 1]
    /\ UNCHANGED <<call, answer>>

Returns(result) ==
    /\ call' = [call EXCEPT !.of = "matches"]
    /\ answer' = result
    /\ UNCHANGED loop

ReturnFalse == Iterates /\ ~Fits /\ ~GoesOnWith({"*"}) /\ loop.star = 0 /\ Returns(FALSE)

SkipStar ==
    /\ Leaves /\ GoesOnWith({"*"})
    /\ loop' = [loop EXCEPT !.i = loop.i + 1]
    /\ UNCHANGED <<call, answer>>

ReturnAtEnd == Leaves /\ ~GoesOnWith({"*"}) /\ Returns(loop.i = Len(Pattern) + 1)

MatchStep == TakeCharacter \/ MeetStar \/ BackToStar \/ ReturnFalse \/ SkipStar \/ ReturnAtEnd

-----------------------------------------------------------------------------
(* PolicyEvaluator::evaluate.                                              *)

Strictness == [allow |-> 0, allow_and_audit |-> 1, warn |-> 2, require_justification |-> 3, block |-> 4]
Action == DOMAIN Strictness
Rule == [id : RuleId, matches : BOOLEAN, priority : Priority, action : Action]

Restrictiveness(action) == Strictness[action]

\* Mutant: the action does not enter the order.
BeforeByIdOnly(l, r) == l.priority > r.priority \/ (l.priority = r.priority /\ l.id < r.id)

\* The comparison the candidates are sorted by.
Before(l, r) ==
    \/ l.priority > r.priority
    \/ /\ l.priority = r.priority
       /\ \/ Restrictiveness(l.action) > Restrictiveness(r.action)
          \/ Restrictiveness(l.action) = Restrictiveness(r.action) /\ l.id < r.id

Candidates(rules) == {i \in DOMAIN rules : rules[i].matches}

\* The decisions evaluate may take: sort_unstable_by may put any of several
\* equal candidates first.
Decisions(default, rules) ==
    LET candidates == Candidates(rules)
        first == {i \in candidates : \A j \in candidates : ~Before(rules[j], rules[i])}
        Reason(i) == IF \E j \in candidates \ {i} : rules[j].priority = rules[i].priority
                     THEN "EqualPriorityConflict" ELSE "MatchedRule"
    IN  IF candidates = {}
        THEN {[action |-> default, rule |-> NoRule,
               reason |-> IF rules = <<>> THEN "EmptyPolicy" ELSE "DefaultAction"]}
        ELSE {[action |-> rules[i].action, rule |-> rules[i].id, reason |-> Reason(i)] : i \in first}

CallEvaluate ==
    \E rules \in Strings(Rule, MaxRules), default \in Action : \E decision \in Decisions(default, rules) :
        Calls("evaluate", [rules |-> rules, default |-> default], decision)

-----------------------------------------------------------------------------
SelectionInit ==
    /\ call = [of |-> "none"]
    /\ answer = NoRule
    /\ loop = [i |-> 1, j |-> 1, star |-> 0, match |-> 1]

SelectionNext == (call.of = "none" /\ (CallMatches \/ CallEvaluate)) \/ MatchStep

SelectionSpec == SelectionInit /\ [][SelectionNext]_<<call, answer, loop>>

-----------------------------------------------------------------------------
(* Properties.                                                             *)

\* What element k of the pattern may stand for: the characters of the name
\* from x up to and without y.
StandsFor(p, n, k, x, y) ==
    IF p[k] = "*" THEN x <= y ELSE y = x + 1 /\ p[k] \in {n[x], "?"}

\* The pattern from its index i on stands for the name from its index j on:
\* f says where in the name each element begins.
Rest(p, n, i, j) ==
    \E f \in [i..Len(p) + 1 -> 1..Len(n) + 1] :
        /\ f[i] = j /\ f[Len(p) + 1] = Len(n) + 1
        /\ \A k \in i..Len(p) : StandsFor(p, n, k, f[k], f[k + 1])

Meant(p, n) == Rest(p, n, 1, 1)

\* matches goes back to the last star only, with two indices and no
\* recursion, and still finds every match there is and no other.
MatchesIsMeant == call.of = "matches" => answer = Meant(Pattern, Name)

\* The decision is the most restrictive action of the highest priority that
\* matches, it names the first such rule by id, and it reports a conflict
\* exactly when another rule of that priority matches.
Decided(rules, default, decision) ==
    LET matching == Candidates(rules)
        top == {i \in matching : \A j \in matching : rules[i].priority >= rules[j].priority}
        Strict(i) == Restrictiveness(rules[i].action)
        strictest == {i \in top : \A j \in top : Strict(i) >= Strict(j)}
    IN  IF matching = {} THEN decision.rule = NoRule /\ decision.action = default
        ELSE /\ \A i \in strictest : decision.action = rules[i].action
             /\ \E i \in strictest : decision.rule = rules[i].id
             /\ \A i \in strictest : decision.rule <= rules[i].id
             /\ decision.reason = "EqualPriorityConflict" <=> \E i, j \in top : i # j

\* "Deterministic, portable policy selection": evaluate decides by the rules
\* and not by their order or by how the unstable sort places equal ones.
DecisionIsOrderFree ==
    call.of = "evaluate" => Decided(call.input.rules, call.input.default, answer)

-----------------------------------------------------------------------------
(* The invariant.                                                          *)

\* A match of the rest is a match; so is one of the pattern behind the last
\* star with as much of the name, or less, as the attempt began with.
Sound(p, n, i, j, star, match) ==
    /\ Rest(p, n, i, j) => Meant(p, n)
    /\ star # 0 => \A m \in match..Len(n) + 1 : Rest(p, n, star + 1, m) => Meant(p, n)

\* The other way round.  What lies between the last star and i takes the same
\* number of characters wherever it begins.
Complete(p, n, i, j, star, match) ==
    IF star = 0 THEN Meant(p, n) => Rest(p, n, i, j)
    ELSE /\ Meant(p, n) => \E m \in match..Len(n) + 1 : Rest(p, n, star + 1, m)
         /\ \A m \in match..Len(n) + 1 : Rest(p, n, star + 1, m) =>
               m + (j - match) <= Len(n) + 1 /\ Rest(p, n, i, m + (j - match))

LoopInv(p, n, i, j, star, match) ==
    /\ i \in 1..Len(p) + 1 /\ j \in 1..Len(n) + 1 /\ star \in 0..i - 1 /\ match \in 1..j
    /\ Sound(p, n, i, j, star, match)
    /\ Complete(p, n, i, j, star, match)

IsMatching ==
    \E pattern \in Strings(PatternCharacter, MaxPattern), name \in Strings(NameCharacter, MaxName) :
        call = [of |-> "matching", input |-> [pattern |-> pattern, name |-> name]]

Loops == loop \in [i : Nat, j : Nat, star : Nat, match : Nat]

SelectionInv ==
    /\ call.of = "matching" =>
          /\ IsMatching
          /\ Loops
          /\ LoopInv(Pattern, Name, loop.i, loop.j, loop.star, loop.match)
    /\ MatchesIsMeant
    /\ DecisionIsOrderFree
=============================================================================
