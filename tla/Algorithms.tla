----------------------------- MODULE Algorithms -----------------------------
(***************************************************************************)
(* The pure functions the components rest on, side by side: the two of     *)
(* Selection, the writers and readers of Formats, the reader of Firmware   *)
(* and the path syntax of Paths.  A behaviour is one call on some input.   *)
(***************************************************************************)
EXTENDS Selection, Formats, Firmware, Paths

function == <<call, answer, loop>>
codec == <<phase, writer, reader>>
vars == <<function, codec, firmware, virtualPath>>

Init == SelectionInit /\ FormatsInit /\ FirmwareInit /\ PathsInit

\* One of the functions runs.
Unused ==
    call.of = "none" /\ phase = "idle" /\ step = "firmware" /\ table = << >> /\ stage = "idle"
Next ==
    \/ (Unused \/ call.of # "none") /\ SelectionNext /\ UNCHANGED <<codec, firmware, virtualPath>>
    \/ (Unused \/ phase # "idle") /\ FormatsNext /\ UNCHANGED <<function, firmware, virtualPath>>
    \/ (Unused \/ step # "firmware" \/ table # << >>) /\ FirmwareNext /\ UNCHANGED <<function, codec, virtualPath>>
    \/ (Unused \/ stage # "idle") /\ PathsNext /\ UNCHANGED <<function, codec, firmware>>

Spec == Init /\ [][Next]_vars
=============================================================================
