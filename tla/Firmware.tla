------------------------------ MODULE Firmware ------------------------------
(***************************************************************************)
(* The reader of the SMBIOS serial number (fingerprint.rs) on the table    *)
(* that the firmware built: find_smbios_structure with the loop of         *)
(* find_string_area_end, and read_smbios_string.  A header has two bytes,  *)
(* the type and the length, and the serial number's string number comes    *)
(* right after it.  Offsets count from 0, as in the code.                  *)
(***************************************************************************)
EXTENDS Integers, Sequences

CONSTANTS
    FirmwareText,     \* the strings that the firmware has
    Utf8,             \* the sequences of bytes that are UTF-8
    MaxStructures,    \* bounds on the table
    MaxStrings

\* Strings are not empty and have no zero.
ASSUME FirmwareAssumption ==
    /\ \A text \in FirmwareText : text \in Seq(Nat) /\ text # << >> /\ \A i \in 1..Len(text) : text[i] # 0
    /\ MaxStrings \in Nat

VARIABLES
    step,          \* of the firmware: "firmware", "strings"; of the reader: "finding",
                   \* "scanning", "reading", "done"
    table,         \* the bytes of the table
    structures,    \* history: what the firmware put there, and where
    size,          \* how many of them the reader has got
    offset,        \* find_smbios_structure: the structure looked at
    reached,       \* history: its number
    index,         \* find_string_area_end: the byte looked at
    start,         \* read_smbios_string: where the string begins
    current,       \* its number
    serial         \* the string returned, none for MissingOrSentinel

finder == <<offset, reached, index>>
picker == <<start, current>>
source == <<table, structures, size>>
search == <<size, finder, picker, serial>>
firmware == <<step, table, structures, search>>

Header == 2
SystemInformation == 1

-----------------------------------------------------------------------------
(* The firmware.  A structure has a header, perhaps more of the formatted  *)
(* area, strings with a zero behind each of them, and another zero, or two *)
(* zeros when it has no string.                                            *)

Body == {<< >>} \cup {<<n>> : n \in 0..MaxStrings + 1}

latest == Len(structures)

AddStructure ==
    /\ step = "firmware" /\ latest < MaxStructures
    /\ \E type \in 0..1, body \in Body :
           /\ table' = table \o (<<type, Header + Len(body)>> \o body)
           /\ structures' = Append(structures,
                  [type |-> type, body |-> body, at |-> Len(table), area |-> Len(table'),
                   texts |-> << >>, ends |-> << >>])
    /\ step' = "strings"
    /\ UNCHANGED search

AddString ==
    /\ step = "strings" /\ Len(structures[latest].texts) < MaxStrings
    /\ \E text \in FirmwareText :
           /\ table' = table \o Append(text, 0)
           /\ structures' = [structures EXCEPT ![latest].texts = Append(@, text),
                                               ![latest].ends = Append(@, Len(table) + Len(text))]
    /\ UNCHANGED <<step, search>>

EndStructure ==
    /\ step = "strings"
    /\ table' = table \o (IF structures[latest].texts = << >> THEN <<0, 0>> ELSE <<0>>)
    /\ step' = "firmware"
    /\ UNCHANGED <<structures, search>>

-----------------------------------------------------------------------------
(* smbios_system_serial.                                                   *)

Answers(result) == step' = "done" /\ serial' = result

\* read_smbios_table: the table is truncated to what was written.
ReadTable ==
    /\ step = "firmware" /\ step' = "finding"
    /\ size' \in 0..Len(table)
    /\ offset' = 0 /\ reached' = 1
    /\ UNCHANGED <<table, structures, index, picker, serial>>

\* find_smbios_structure: the formatted area of the structure at the offset.
length == table[offset + 2]
InTable == offset + Header <= size /\ length >= Header /\ offset + length <= size

FindStructure ==
    /\ step = "finding" /\ InTable
    /\ step' = "scanning" /\ index' = offset + length
    /\ UNCHANGED <<source, offset, reached, picker, serial>>
FindNothing ==
    /\ step = "finding" /\ ~InTable
    /\ Answers({})
    /\ UNCHANGED <<source, finder, picker>>

\* find_string_area_end: the two zeros.
AtEnd == table[index + 1] = 0 /\ table[index + 2] = 0

ScanNext ==
    /\ step = "scanning" /\ index + 1 < size /\ ~AtEnd
    /\ index' = index + 1
    /\ UNCHANGED <<step, source, offset, reached, picker, serial>>
ScanNothing ==
    /\ step = "scanning" /\ index + 1 >= size
    /\ Answers({})
    /\ UNCHANGED <<source, finder, picker>>

\* Mutant: one of the two zeros is taken for the next structure.
AfterOneZero(end) == end + 1
AfterStrings(end) == end + 2

\* The next structure, unless this one is of the type.
Skip ==
    /\ step = "scanning" /\ index + 1 < size /\ AtEnd
    /\ table[offset + 1] # SystemInformation
    /\ step' = "finding" /\ offset' = AfterStrings(index) /\ reached' = reached + 1
    /\ UNCHANGED <<source, index, picker, serial>>
Found ==
    /\ step = "scanning" /\ index + 1 < size /\ AtEnd
    /\ table[offset + 1] = SystemInformation
    /\ IF length <= Header \/ table[offset + Header + 1] = 0
       THEN Answers({}) /\ UNCHANGED picker
       ELSE step' = "reading" /\ start' = offset + length /\ current' = 1 /\ UNCHANGED serial
    /\ UNCHANGED <<source, finder>>

\* read_smbios_string: the string from start on, which a zero ends.
EndsAt(end) ==
    /\ end \in start..index - 1 /\ table[end + 1] = 0
    /\ \A i \in start..end - 1 : table[i + 1] # 0

\* String::from_utf8(..).ok(): nothing when the bytes are no UTF-8.
FromUtf8(bytes) == {bytes} \cap Utf8

ReadString ==
    /\ step = "reading"
    /\ \E end \in start..index - 1 :
           /\ EndsAt(end)
           /\ IF current = table[offset + Header + 1]
              THEN Answers(FromUtf8(SubSeq(table, start + 1, end))) /\ UNCHANGED picker
              ELSE start' = end + 1 /\ current' = current + 1 /\ UNCHANGED <<step, serial>>
    /\ UNCHANGED <<source, finder>>
ReadNothing ==
    /\ step = "reading" /\ \A end \in start..index - 1 : table[end + 1] # 0
    /\ Answers({})
    /\ UNCHANGED <<source, finder, picker>>

-----------------------------------------------------------------------------
FirmwareInit ==
    /\ step = "firmware" /\ table = << >> /\ structures = << >> /\ size = 0
    /\ offset = 0 /\ reached = 0 /\ index = 0 /\ start = 0 /\ current = 0 /\ serial = {}

FirmwareNext ==
    \/ AddStructure \/ AddString \/ EndStructure \/ ReadTable
    \/ FindStructure \/ FindNothing \/ ScanNext \/ ScanNothing \/ Skip \/ Found
    \/ ReadString \/ ReadNothing

FirmwareSpec == FirmwareInit /\ [][FirmwareNext]_firmware

-----------------------------------------------------------------------------
(* Properties.                                                             *)

\* Where the two zeros behind the strings of a structure are.
AreaEnd(s) == IF s.texts = << >> THEN s.area ELSE s.ends[Len(s.ends)]

\* The first system structure of the table, or none.
IsSystem(k) == structures[k].type = SystemInformation
First == {k \in 1..latest : IsSystem(k) /\ \A i \in 1..k - 1 : ~IsSystem(i)}

\* The serial number returned is the string the structure refers to, never
\* another one, and every string but the last of the structure's is found
\* when it is UTF-8 and the reader has got the structure.
Referred(s) ==
    /\ serial # {} => s.body # << >> /\ s.body[1] \in 1..Len(s.texts) /\ serial = {s.texts[s.body[1]]}
    /\ /\ s.body # << >> /\ s.body[1] \in 1..Len(s.texts) - 1 /\ s.texts[s.body[1]] \in Utf8
       /\ AreaEnd(s) + 2 <= size
       => serial # {}

\* The serial number is that of the first system structure of the table.
SerialIsReferred ==
    step = "done" => (First = {} => serial = {}) /\ \A k \in First : Referred(structures[k])

-----------------------------------------------------------------------------
(* The invariant.                                                          *)

\* Where the k-th string of a structure begins.
TextStart(s, k) == IF k = 1 THEN s.area ELSE s.ends[k - 1] + 1

\* The structure and its strings are in the table b, and no two zeros before
\* the end of its strings.
Formatted(s, b) ==
    /\ s.area = s.at + Header + Len(s.body) /\ s.area <= Len(b)
    /\ b[s.at + 1] = s.type /\ b[s.at + 2] = Header + Len(s.body)
    /\ s.body # << >> => b[s.at + Header + 1] = s.body[1]
TextIn(s, k, b) ==
    /\ s.area <= TextStart(s, k) /\ s.ends[k] = TextStart(s, k) + Len(s.texts[k])
    /\ s.ends[k] < Len(b) /\ b[s.ends[k] + 1] = 0
    /\ Len(s.texts[k]) > 0
    /\ \A i \in 1..Len(s.texts[k]) : s.texts[k][i] # 0 /\ b[TextStart(s, k) + i] = s.texts[k][i]
    /\ k < Len(s.texts) => s.ends[k] < AreaEnd(s)
SoleEnd(s, b) == \A p \in s.area..AreaEnd(s) - 1 : b[p + 1] # 0 \/ b[p + 2] # 0
Described(s, b) ==
    /\ Formatted(s, b)
    /\ Len(s.ends) = Len(s.texts) /\ \A k \in 1..Len(s.texts) : TextIn(s, k, b)
    /\ SoleEnd(s, b)
Closed(s, b) == AreaEnd(s) + 2 <= Len(b) /\ b[AreaEnd(s) + 1] = 0 /\ b[AreaEnd(s) + 2] = 0

\* Where the structure k is; the one after the last is behind the table.
Place(k) == IF k = 1 THEN 0 ELSE AreaEnd(structures[k - 1]) + 2

Structure ==
    [type : 0..1, body : Seq(Nat), at : Nat, area : Nat, texts : Seq(Seq(Nat)), ends : Seq(Nat)]
TableInv ==
    /\ table \in Seq(Nat) /\ structures \in Seq(Structure)
    /\ \A k \in 1..latest : Described(structures[k], table) /\ structures[k].at = Place(k)
    /\ \A k \in 1..latest : k < latest \/ step # "strings" => Closed(structures[k], table)
    /\ \A i, k \in 1..latest : i < k => AreaEnd(structures[i]) + 2 <= structures[k].at
    /\ IF step = "strings"
       THEN /\ latest > 0
            /\ Len(table) = AreaEnd(structures[latest]) + (IF structures[latest].texts = << >> THEN 0 ELSE 1)
       ELSE Len(table) = Place(latest + 1)

FinderInv ==
    /\ size \in 0..Len(table)
    /\ reached \in 1..latest + 1 /\ offset = Place(reached)
    /\ \A k \in 1..reached - 1 : ~IsSystem(k)

ScannerInv == reached <= latest /\ index \in structures[reached].area..AreaEnd(structures[reached])

\* The string looked at is one of the structure's, up to the one it refers to.
PickerInv ==
    /\ reached <= latest /\ IsSystem(reached) /\ index = AreaEnd(structures[reached]) /\ index + 1 < size
    /\ LET s == structures[reached]
       IN  /\ s.body # << >> /\ s.body[1] # 0
           /\ current \in 1..s.body[1] /\ start = TextStart(s, current)
           /\ s.texts = << >> => current = 1
           /\ s.texts # << >> => current <= Len(s.texts)

FirmwareInv ==
    /\ step \in {"firmware", "strings", "finding", "scanning", "reading", "done"}
    /\ TableInv
    /\ step \in {"finding", "scanning", "reading"} => FinderInv
    /\ step = "scanning" => ScannerInv
    /\ step = "reading" => PickerInv
    /\ SerialIsReferred
=============================================================================
