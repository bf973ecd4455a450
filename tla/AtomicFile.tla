---------------------------- MODULE AtomicFile ----------------------------
(***************************************************************************)
(* What the encrypted store promises for one file: staged contents replace *)
(* the stored contents in one step, a flush is acknowledged only after     *)
(* that step, and an interruption loses staged contents, never stored ones.*)
(***************************************************************************)
CONSTANTS Content, None

VARIABLES
    value,         \* the stored contents, None before the first commit
    buffer,        \* the staged contents, None when nothing is staged
    acknowledged   \* the last call was a flush that succeeded

Init == value = None /\ buffer = None /\ acknowledged = FALSE

Stage(c) == buffer' = c /\ acknowledged' = FALSE /\ UNCHANGED value

Commit == buffer # None /\ value' = buffer /\ UNCHANGED <<buffer, acknowledged>>

Acknowledge ==
    /\ buffer # None /\ value = buffer
    /\ buffer' = None
    /\ acknowledged' = TRUE
    /\ UNCHANGED value

\* An interruption, or a store opened anew.
Lose == buffer' = None /\ acknowledged' = FALSE /\ UNCHANGED value

\* A call that changes nothing its caller can see.
Other == acknowledged' = FALSE /\ UNCHANGED <<value, buffer>>

Next == (\E c \in Content : Stage(c)) \/ Commit \/ Acknowledge \/ Lose \/ Other

Spec == Init /\ [][Next]_<<value, buffer, acknowledged>>
=============================================================================
