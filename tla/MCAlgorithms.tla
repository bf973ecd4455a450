--------------------------- MODULE MCAlgorithms -----------------------------
(***************************************************************************)
(* Algorithms for model checking.                                          *)
(***************************************************************************)
EXTENDS Algorithms

\* Some values of each kind of field, and of each format.
Sample(field) ==
    CASE field.kind = "byte" -> {<<v>> : v \in {v \in field.allowed : v \in {1, Base - 1} \/ field.allowed = {v}}}
      [] field.kind = "bytes" -> UNION {[1..n -> field.content \cap {0, 1}] : n \in field.lengths}
      [] field.kind = "option" -> {<< >>, <<1, 0, 2>>, <<1, 1, 1>>}
RECURSIVE Samples(_)
Samples(fieldsOf) ==
    IF fieldsOf = << >> THEN {<< >>}
    ELSE {<<v>> \o rest : v \in Sample(Head(fieldsOf)), rest \in Samples(Tail(fieldsOf))}
SampleValues == [name \in FormatName |-> Samples(Layout(name))]

\* Strings of the firmware, and the ones among them that are UTF-8.
Texts == {<<2>>, <<3, 2>>, <<3>>}
Utf8Texts == {<<2>>, <<3, 2>>}
=============================================================================
