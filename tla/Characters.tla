----------------------------- MODULE Characters -----------------------------
(***************************************************************************)
(* Characters and strings of them.  "A" is the one upper-case letter.      *)
(***************************************************************************)
EXTENDS Integers, Sequences

Strings(alphabet, length) == UNION {[1..n -> alphabet] : n \in 0..length}

\* to_lowercase and to_ascii_lowercase, on letters that have one letter as
\* their lower case.
Lower(c) == IF c = "A" THEN "a" ELSE c
LowerAll(s) == [i \in DOMAIN s |-> Lower(s[i])]
=============================================================================
