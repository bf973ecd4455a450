------------------------------ MODULE Formats -------------------------------
(***************************************************************************)
(* The eight length-prefixed formats that are stored or sent: their        *)
(* writers append one field after the other, the bytes are stored or sent  *)
(* and perhaps damaged, and their readers take one field after the other.  *)
(* A byte is a number below Base.  An integer, a tag or a digest of any    *)
(* width is one byte, but for the versions in the pointers file, which the *)
(* reader may find cut short: they have two.                               *)
(***************************************************************************)
EXTENDS Integers, Sequences

CONSTANTS
    Base,        \* bytes are 0 .. Base - 1
    Value,       \* for each format, the values that are written
    Noise,       \* the bytes that damage leaves
    MaxNoise     \* bound on how many of them are added

-----------------------------------------------------------------------------
(* Layouts.  A format is a sequence of fields: a byte of a given set, a    *)
(* length and as many bytes, or an optional digest with its version.  The  *)
(* value of a field is a sequence of bytes.                                *)

Byte(allowed) == [kind |-> "byte", allowed |-> allowed]
Bytes(lengths, content) == [kind |-> "bytes", lengths |-> lengths, content |-> content]
OptionalDigest == [kind |-> "option"]

Number == Byte(0..Base - 1)
Constant(v) == Byte({v})
Text == Bytes(1..2, 1..Base - 1)      \* an identifier; 0 is no letter
AnyBytes == Bytes(0..2, 0..Base - 1)
NonEmpty == Bytes(1..2, 0..Base - 1)

\* EncryptedRecordV1: magic, version, store, file, generation, kind, chunk,
\* plaintext length, nonce, ciphertext.
RecordFormat == <<Constant(1), Number, Text, Text, Number, Byte(1..3), Number, Number, Number, AnyBytes>>
\* EncryptedManifestV1: prefix, generation, file, length, chunk lengths.
ManifestFormat == <<Constant(1), Number, Text, Number, AnyBytes>>
\* CommitRecordV1: generation, file.
CommitFormat == <<Number, Text>>
\* ConfigurationEnvelopeV1: prefix, version, schema, device, bundle version,
\* time, payload.
EnvelopeFormat == <<Constant(1), Constant(1), Constant(1), Text, Text, Number, NonEmpty>>
\* The cached bundle: wire, API and schema version, key, device, bundle
\* version, time, payload, signature, digest.  That the digest must be the
\* envelope's refuses still more bytes.
BundleFormat ==
    <<Constant(1), Constant(1), Constant(1), NonEmpty, Text, Text, Number, NonEmpty, NonEmpty, Number>>
\* The cache pointers: magic, schema, generation, current, last known good.
PointersFormat == <<Constant(1), Constant(1), Number, OptionalDigest, OptionalDigest>>
\* DeviceCredential: format, device, key, chain, serial, expiry, which is 30
\* days or an error.
CredentialFormat == <<Constant(1), Text, NonEmpty, NonEmpty, NonEmpty, Constant(3)>>
\* A pipe frame: a length and the message; what follows is the next frame.
FrameFormat == <<AnyBytes>>

FormatName ==
    {"record", "manifest", "commit", "envelope", "bundle", "pointers", "credential", "frame"}
Layout(name) ==
    CASE name = "record" -> RecordFormat
      [] name = "manifest" -> ManifestFormat
      [] name = "commit" -> CommitFormat
      [] name = "envelope" -> EnvelopeFormat
      [] name = "bundle" -> BundleFormat
      [] name = "pointers" -> PointersFormat
      [] name = "credential" -> CredentialFormat
      [] name = "frame" -> FrameFormat

IsValue(field, v) ==
    /\ v \in Seq(Nat)
    /\ CASE field.kind = "byte" -> Len(v) = 1 /\ v[1] \in field.allowed
         [] field.kind = "bytes" -> Len(v) \in field.lengths /\ \A i \in DOMAIN v : v[i] \in field.content
         [] field.kind = "option" -> Len(v) \in {0, 3}

\* The values written are within the limits of the reader.  A writer does not
\* check them: protect decodes what it has written, the others write what
\* they were given.
ASSUME FormatsAssumption ==
    /\ Base \in Nat /\ Base >= 4
    /\ \A name \in FormatName : \A v \in Value[name] :
           /\ v \in Seq(Seq(Nat)) /\ Len(v) = Len(Layout(name))
           /\ \A k \in DOMAIN v : IsValue(Layout(name)[k], v[k])
    /\ \A x \in Noise : x \in Nat
    /\ MaxNoise \in Nat

VARIABLES
    phase,      \* "idle", "writing", "reading" or "read"
    format,
    written,    \* the value that is written
    bytes,      \* what has been written of it
    marks,      \* history: where its fields end in bytes, behind 0
    input,      \* the bytes that are read
    stops,      \* the reader's position, behind history: its earlier ones
    fields,     \* the values of the fields read
    returned    \* the value the reader returned, none for an error

writer == <<format, written, bytes, marks>>
reader == <<input, stops, fields, returned>>

layout == Layout(format)
Cursor == stops[Len(stops)]

-----------------------------------------------------------------------------
(* Writing.                                                                *)

Encoded(field, v) ==
    CASE field.kind = "byte" -> v
      [] field.kind = "bytes" -> <<Len(v)>> \o v
      [] field.kind = "option" -> IF v = << >> THEN <<0>> ELSE <<1>> \o v

BeginWriting ==
    /\ phase = "idle" /\ phase' = "writing"
    /\ format' \in FormatName
    /\ written' \in Value[format']
    /\ bytes' = << >> /\ marks' = <<0>>
    /\ UNCHANGED reader

WriteField ==
    /\ phase = "writing" /\ Len(marks) <= Len(layout)
    /\ bytes' = bytes \o Encoded(layout[Len(marks)], written[Len(marks)])
    /\ marks' = Append(marks, Len(bytes'))
    /\ UNCHANGED <<phase, format, written, reader>>

\* What a reader may be given for the bytes b: b cut short, b with a byte
\* altered, b and something behind it, something else.
Added == UNION {[1..n -> Noise] : n \in 0..MaxNoise}
Damaged(b) ==
    {SubSeq(b, 1, n) : n \in 0..Len(b)}
        \cup {[b EXCEPT ![i] = x] : i \in DOMAIN b, x \in Noise}
        \cup {b \o more : more \in Added} \cup Added

BeginReading ==
    /\ phase = "writing" /\ Len(marks) > Len(layout) /\ phase' = "reading"
    /\ input' \in Damaged(bytes)
    /\ stops' = <<0>> /\ fields' = << >>
    /\ UNCHANGED <<writer, returned>>

-----------------------------------------------------------------------------
(* Reading.                                                                *)

\* Mutant: the reader takes what is left when there is less than the length.
TakeAvailable(b, at, n) == {SubSeq(b, at + 1, IF at + n <= Len(b) THEN at + n ELSE Len(b))}
\* take, read_bytes: the next n bytes, nothing when there are fewer.  Numbers
\* do not overflow here; the code adds with checked_add.
Take(b, at, n) == IF at + n <= Len(b) THEN {SubSeq(b, at + 1, at + n)} ELSE {}

\* Reads one field of b behind at: its value and the bytes it took.
ReadByte(b, at, allowed) ==
    {[value |-> t, size |-> 1] : t \in {t \in Take(b, at, 1) : t # << >> /\ t[1] \in allowed}}
ReadBytes(b, at, lengths, content) ==
    IF at = Len(b) \/ b[at + 1] \notin lengths THEN {}
    ELSE {[value |-> t, size |-> 1 + b[at + 1]] :
              t \in {t \in Take(b, at + 1, b[at + 1]) : \A i \in DOMAIN t : t[i] \in content}}
\* read_optional_digest, and the version: read_u64().unwrap_or(0), which
\* takes nothing when it fails.
ReadOption(b, at) ==
    IF at = Len(b) THEN {}
    ELSE IF b[at + 1] = 0 THEN {[value |-> << >>, size |-> 1]}
    ELSE IF b[at + 1] = 1 /\ at + 4 <= Len(b) THEN {[value |-> SubSeq(b, at + 2, at + 4), size |-> 4]}
    ELSE IF b[at + 1] = 1 /\ at + 2 <= Len(b) THEN {[value |-> <<b[at + 2], 0, 0>>, size |-> 2]}
    ELSE {}
ReadField(field, b, at) ==
    CASE field.kind = "byte" -> ReadByte(b, at, field.allowed)
      [] field.kind = "bytes" -> ReadBytes(b, at, field.lengths, field.content)
      [] field.kind = "option" -> ReadOption(b, at)

NextField == ReadField(layout[Len(stops)], input, Cursor)

ReadNext ==
    /\ phase = "reading" /\ Len(stops) <= Len(layout)
    /\ \E read \in NextField :
           fields' = Append(fields, read.value) /\ stops' = Append(stops, Cursor + read.size)
    /\ UNCHANGED <<phase, writer, input, returned>>

ReadReturns(values) ==
    /\ phase' = "read"
    /\ returned' = values
    /\ UNCHANGED <<writer, input, stops, fields>>

ReadFails == phase = "reading" /\ Len(stops) <= Len(layout) /\ NextField = {} /\ ReadReturns({})

\* Bytes that are left over are an error, but behind a frame.
ReadEnds ==
    /\ phase = "reading" /\ Len(stops) > Len(layout)
    /\ ReadReturns(IF format = "frame" \/ Cursor = Len(input) THEN {fields} ELSE {})

-----------------------------------------------------------------------------
FormatsInit ==
    /\ phase = "idle" /\ format = "frame" /\ written = << >> /\ bytes = << >> /\ marks = << >>
    /\ input = << >> /\ stops = << >> /\ fields = << >> /\ returned = {}

FormatsNext == BeginWriting \/ WriteField \/ BeginReading \/ ReadNext \/ ReadFails \/ ReadEnds

FormatsSpec == FormatsInit /\ [][FormatsNext]_<<phase, writer, reader>>

-----------------------------------------------------------------------------
(* Properties.                                                             *)

\* Between two positions, b has s.
Has(b, from, to, s) == to = from + Len(s) /\ to <= Len(b) /\ \A i \in 1..Len(s) : b[from + i] = s[i]

\* The field k of the value was read without its version, of which at most
\* a byte was left, and has version 0.
Lacks(value, b, at, k) ==
    /\ layout[k].kind = "option" /\ Len(value[k]) = 3 /\ value[k][2] = 0 /\ value[k][3] = 0
    /\ Len(b) - at[k + 1] < 2

\* The first fields of the value are in b one after the other, at the
\* positions given, but for the version of the field lost.
Encodes(value, b, at, lost) ==
    \A k \in DOMAIN value :
        Has(b, at[k], at[k + 1], IF k = lost THEN <<1, value[k][1]>> ELSE Encoded(layout[k], value[k]))

\* As far as both go, what is read is what was written.
Agree(b, w) == \A i \in DOMAIN b \cap DOMAIN w : b[i] = w[i]
Undamaged == Agree(input, bytes)

\* The input has nothing but the encoding of the value, and was not cut
\* short.  There is one exception, the pointers file: a version that is
\* missing is returned as 0.
Accepted(value) ==
    /\ Len(value) = Len(layout) /\ Len(stops) = Len(layout) + 1
    /\ format = "frame" \/ Cursor = Len(input)
    /\ \E lost \in {0} \cup {k \in 1..Len(layout) : Lacks(value, input, stops, k)} :
           /\ Encodes(value, input, stops, lost)
           /\ lost # 0 => format = "pointers"
           /\ Undamaged /\ Len(input) < Len(bytes) => lost # 0

\* A reader gives back what was written.  It accepts only the encoding of
\* what it returns, whatever the bytes are, and nothing that was cut short,
\* but for the version at the end of a pointers file.
DecodedIsEncoded ==
    phase = "read" =>
        /\ input = bytes => returned = {written}
        /\ \A value \in returned : Accepted(value)

-----------------------------------------------------------------------------
(* The invariant.                                                          *)

\* The fields written so far are in bytes one after the other.
WriterInv ==
    /\ written \in Value[format]
    /\ Len(marks) \in 1..Len(layout) + 1 /\ marks[1] = 0 /\ marks[Len(marks)] = Len(bytes)
    /\ \A k \in 1..Len(marks) - 1 : Has(bytes, marks[k], marks[k + 1], Encoded(layout[k], written[k]))
    /\ phase # "writing" => Len(marks) = Len(layout) + 1

\* Reading the value up to the positions at, the reader has stopped where
\* the writer did and has read what it wrote.
InStep(value, at) ==
    /\ \A k \in 1..Len(at) : at[k] = marks[k]
    /\ \A k \in 1..Len(value) : value[k] = written[k]

\* The fields of the value were in the input one after the other, and with
\* undamaged bytes the reader is in step until a version is missing.
ReadSoFar(value, at, lost) ==
    /\ lost # 0 => Lacks(value, input, at, lost) /\ Len(input) - at[Len(at)] < 2
    /\ Encodes(value, input, at, lost)
    /\ Undamaged => IF lost = 0 THEN InStep(value, at) ELSE Len(input) < Len(bytes)

ReaderInv ==
    /\ Len(stops) \in 1..Len(layout) + 1 /\ Len(stops) = Len(fields) + 1
    /\ stops[1] = 0 /\ Cursor <= Len(input)
    /\ \E lost \in 0..Len(fields) : ReadSoFar(fields, stops, lost)

FormatsInv ==
    /\ phase \in {"idle", "writing", "reading", "read"} /\ format \in FormatName
    /\ bytes \in Seq(Nat) /\ marks \in Seq(Nat)
    /\ input \in Seq(Nat) /\ stops \in Seq(Nat) /\ fields \in Seq(Seq(Nat))
    /\ phase # "idle" => WriterInv
    /\ phase = "reading" => ReaderInv
    /\ DecodedIsEncoded
=============================================================================
