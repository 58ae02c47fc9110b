---------------------------- MODULE Conversions ----------------------------
(***************************************************************************)
(* to_cbor, to_msgpack, to_ubjson, to_bjdata and to_bson, and what from_*  *)
(* makes of their bytes: of all of them, of a part, with others behind     *)
(* them, or with one of them changed; a value that was read from changed   *)
(* bytes is written and read again.                                        *)
(***************************************************************************)
EXTENDS Cbor, MessagePack, Ubjson, Bson

CONSTANTS
    Form,       \* format, use_count, use_type, draft3 and tag_handler
    Sample,     \* for each format, the values that are converted
    Damage,     \* bytes that others are changed into
    MaxDamaged  \* bound: the length of the bytes that are damaged

FormType == [format: {"cbor", "msgpack", "ubjson", "bjdata", "bson"}, use_count: BOOLEAN,
             use_type: BOOLEAN, draft3: BOOLEAN, tag_handler: TagHandler]

\* use_type is asserted to come with use_count.
ASSUME ConversionAssumption ==
    /\ Form \subseteq FormType /\ \A f \in Form : f.use_type => f.use_count
    /\ Damage \subseteq Byte /\ MaxDamaged \in Nat

VARIABLES
    form,       \* the format and its options
    value,      \* what is written
    bytes,      \* what was written, or damaged since
    damage,     \* how
    outcome,    \* what from_* returned or threw
    stage       \* what comes next

convVars == <<form, value, bytes, damage, outcome, stage>>

-----------------------------------------------------------------------------
\* The values in a value.
RECURSIVE Nodes(_)
Nodes(j) ==
    {j} \cup CASE TypeOf(j) = "array" -> UNION {Nodes(Content(j)[i]) : i \in DOMAIN Content(j)}
               [] TypeOf(j) = "object" -> UNION {Nodes(Content(j)[i][2]) : i \in DOMAIN Content(j)}
               [] OTHER -> {}

Keys(j) == UNION {{Content(n)[i][1] : i \in DOMAIN Content(n)} : n \in {n \in Nodes(j) : TypeOf(n) = "object"}}

\* The type of an ndarray is taken for a string before anything else is looked
\* at; BSON has objects only, and no zero in their keys.
ToBjdata(j, f) ==
    IF \E n \in Nodes(j) : IsNdarray(n) /\ TypeOf(MemberAt(Content(n), ArrayType)) # "string" THEN Error("type_error.302")
    ELSE Read(WriteUbjson(j, TRUE, f @@ [bjdata |-> TRUE]), 1)

ToBson(j) ==
    CASE TypeOf(j) # "object" -> Error("type_error.317")
      [] TypeOf(j) = "object" /\ \E k \in Keys(j) : \E i \in DOMAIN k : k[i] = 0 -> Error("out_of_range.409")
      [] OTHER -> Read(WriteBsonObject(Content(j)), 1)

To(f, j) ==
    CASE f.format = "cbor" -> Read(WriteCbor(j), 1)
      [] f.format = "msgpack" -> Read(WriteMsgpack(j), 1)
      [] f.format = "ubjson" -> Read(WriteUbjson(j, TRUE, f @@ [bjdata |-> FALSE]), 1)
      [] f.format = "bjdata" -> ToBjdata(j, f)
      [] f.format = "bson" -> ToBson(j)

\* A bug to catch: strict is passed over.
FromLoosely(f, in) ==
    CASE f.format = "cbor" -> ParseCbor(in, 1, f.tag_handler)
      [] f.format = "msgpack" -> ParseMsgpack(in, 1)
      [] f.format = "bson" -> ParseBsonDocument(in, 1, FALSE)
      [] OTHER -> ParseUbjson(in, 1, f.format = "bjdata")

\* sax_parse, with strict: only the end may follow, in UBJSON behind any N.
From(f, in) ==
    LET ubjson == f.format \in {"ubjson", "bjdata"}
        Strict(v, next) ==
            IF (IF ubjson THEN SkipNoop(in, next) ELSE next) <= Len(in) THEN Error("parse_error.110") ELSE Read(v, next)
    IN CASE f.format = "cbor" -> Then(ParseCbor(in, 1, f.tag_handler), Strict)
         [] f.format = "msgpack" -> Then(ParseMsgpack(in, 1), Strict)
         [] f.format = "bson" -> Then(ParseBsonDocument(in, 1, FALSE), Strict)
         [] OTHER -> Then(ParseUbjson(in, 1, f.format = "bjdata"), Strict)

-----------------------------------------------------------------------------
None == Error("none")

CInit ==
    /\ form \in Form /\ value \in Sample[form.format]
    /\ bytes = <<>> /\ damage = "none" /\ outcome = None /\ stage = "write"

Write ==
    /\ stage = "write"
    /\ \E written \in {To(form, value)} :
        \/ Failed(written) /\ outcome' = written /\ stage' = "refused" /\ UNCHANGED bytes
        \/ ~Failed(written) /\ bytes' = written.value /\ stage' = "read" /\ outcome' = None
    /\ UNCHANGED <<form, value, damage>>

Undamaged == stage = "read" /\ damage = "none" /\ Len(bytes) <= MaxDamaged

Cut ==
    /\ Undamaged
    /\ \E k \in 0 .. Len(bytes) - 1 : bytes' = SubSeq(bytes, 1, k)
    /\ damage' = "cut"
    /\ UNCHANGED <<form, value, outcome, stage>>

Extend ==
    /\ Undamaged
    /\ \E b \in Damage : bytes' = Append(bytes, b)
    /\ damage' = "longer"
    /\ UNCHANGED <<form, value, outcome, stage>>

Change ==
    /\ Undamaged
    /\ \E i \in DOMAIN bytes, b \in Damage : bytes' = [bytes EXCEPT ![i] = b]
    /\ damage' = "changed"
    /\ UNCHANGED <<form, value, outcome, stage>>

ReadBack ==
    /\ stage = "read"
    /\ outcome' = From(form, bytes) /\ stage' = "done"
    /\ UNCHANGED <<form, value, bytes, damage>>

Again ==
    /\ stage = "done" /\ damage = "changed" /\ ~Failed(outcome)
    /\ value' = outcome.value /\ bytes' = <<>> /\ damage' = "rewritten" /\ stage' = "write"
    /\ outcome' = None
    /\ UNCHANGED form

CNext == Write \/ Cut \/ Extend \/ Change \/ ReadBack \/ Again

CSpec == CInit /\ [][CNext]_convVars

-----------------------------------------------------------------------------
(* What a format keeps of a value.                                         *)

\* A number by its value, and every NaN as one.
NaN == <<127, 248, 0, 0, 0, 0, 0, 0>>
RECURSIVE Normal(_)
Normal(j) ==
    CASE TypeOf(j) = "integer" /\ ~IsNegative(Content(j)) -> Unsigned(Content(j))
      [] TypeOf(j) = "float" /\ IsNaN(Content(j)) -> Float(NaN)
      [] TypeOf(j) = "array" -> Json("array", [i \in DOMAIN Content(j) |-> Normal(Content(j)[i])])
      [] TypeOf(j) = "object" -> Json("object", [i \in DOMAIN Content(j) |-> <<Content(j)[i][1], Normal(Content(j)[i][2])>>])
      [] OTHER -> j

ArrayOf(elements) == Json("array", elements)
Bytewise(b) == ArrayOf([i \in DOMAIN b |-> Unsigned(ZeroExtended(<<b[i]>>))])

\* A binary: its subtype has eight bits in MessagePack and BSON, which always
\* has one; UBJSON has none, nor binaries, except BJData from its draft 3 on.
KeptBinary(f, subtype, b) ==
    CASE f.format = "cbor" -> Binary(IF f.tag_handler = "store" THEN subtype ELSE <<>>, b)
      [] f.format = "msgpack" -> Binary(IF subtype = <<>> THEN <<>> ELSE ZeroExtended(Low(subtype, 1)), b)
      [] f.format = "bson" -> Binary(IF subtype = <<>> THEN Zeros(8) ELSE ZeroExtended(Low(subtype, 1)), b)
      [] f.format = "bjdata" /\ f.draft3 /\ f.use_type -> Binary(<<>>, b)
      [] OTHER -> Bytewise(b)

\* An ndarray of one row is the row, one with no elements is an empty array.
KeptNdarray(members, dim) ==
    LET elements == ArrayOf(ElementsOf(MemberAt(members, ArrayData)))
        type == Content(MemberAt(members, ArrayType))[1]
        row == Len(dim) = 1 \/ (Len(dim) = 2 /\ Content(dim[1]) = EightBytes(1))
    IN CASE row \/ Content(elements) = <<>> ->
                CASE type = Marker.Byte ->
                         Binary(<<>>, [i \in DOMAIN Content(elements) |-> Content(Content(elements)[i])[8]])
                  [] type = Marker.Char ->
                         ArrayOf([i \in DOMAIN Content(elements) |-> StringOf(<<Content(Content(elements)[i])[8]>>)])
                  [] OTHER -> elements
         [] OTHER -> Json("object", members)

RECURSIVE Kept(_, _)
Kept(f, j) ==
    CASE TypeOf(j) = "binary" -> KeptBinary(f, Content(j)[1], Content(j)[2])
      [] TypeOf(j) = "array" -> ArrayOf([i \in DOMAIN Content(j) |-> Kept(f, Content(j)[i])])
      [] TypeOf(j) = "object" ->
             IF f.format = "bjdata" /\ IsNdarray(j) /\ IsWritten(Content(j))
             THEN KeptNdarray(Content(j), ElementsOf(MemberAt(Content(j), ArraySize)))
             ELSE Json("object", [i \in DOMAIN Content(j) |-> <<Content(j)[i][1], Kept(f, Content(j)[i][2])>>])
      [] OTHER -> j

\* The default of from_cbor refuses what to_cbor writes for a subtype.
Tagged(j) == \E n \in Nodes(j) : TypeOf(n) = "binary" /\ Content(n)[1] # <<>>

\* What was written is read as the value it was, number for number, except for
\* what the format does not keep: at every width a length or a number can have,
\* with and without counts and types in front, and for every value that changed
\* bytes are read as (the six pairs of writers and readers in
\* json.hpp:15807-17490 and 9947-12540, which share no table of the formats).
RoundTrip ==
    stage = "done" /\ damage \in {"none", "rewritten"} =>
        IF form.format = "cbor" /\ form.tag_handler = "error" /\ Tagged(value) THEN outcome = Error("parse_error.112")
        ELSE ~Failed(outcome) /\ Normal(outcome.value) = Normal(Kept(form, value))

\* No part of what was written is taken for a value, and nothing may follow it
\* but the N of UBJSON: a reader that lost track of a count, a size or an end
\* would return what it has (binary_reader::sax_parse and unexpect_eof).
EndIsFound ==
    /\ stage = "done" /\ damage = "cut" => Failed(outcome)
    /\ stage = "done" /\ damage = "longer" =>
           Failed(outcome) \/ (form.format \in {"ubjson", "bjdata"} /\ bytes[Len(bytes)] = Marker.Noop)

\* The sizes in front of the documents of BSON, which are computed before they
\* are written and which this reader does not look at, are those of the bytes
\* (calc_bson_*_size and write_bson_*, json.hpp:16710-17036).
SizesAgree ==
    stage = "read" /\ damage \in {"none", "rewritten"} /\ form.format = "bson" =>
        /\ Len(bytes) = CalcBsonObjectSize(Content(value))
        /\ \A n \in Nodes(value) :
               /\ TypeOf(n) = "object" => Len(WriteBsonObject(Content(n))) = CalcBsonObjectSize(Content(n))
               /\ TypeOf(n) = "array" => Len(WriteBsonArray(<<>>, Content(n))) = 2 + CalcBsonArraySize(Content(n))
=============================================================================
