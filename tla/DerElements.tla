----------------------------- MODULE DerElements -----------------------------
(***************************************************************************)
(* The DER reader as its callers see it (der.rs): a reader is the sequence *)
(* of the elements it has not consumed yet.  How an element is found in    *)
(* the octets is the subject of module Der.                                *)
(*                                                                         *)
(* An element is [tag, content].  The content is the sequence of the       *)
(* elements of a constructed element or of an OCTET STRING, the sequence   *)
(* of octets of an INTEGER, a BOOLEAN, an ENUMERATED, a BIT STRING and the *)
(* flags of distribution points, and an opaque string otherwise (object    *)
(* identifiers by their names, "malformed" for a time that is).            *)
(* The element Malformed is a header that cannot be read: it has the tag   *)
(* of no caller.  The decoders return Result<[value, rest]>.               *)
(***************************************************************************)
EXTENDS WellFormed

Element(tag, content) == [tag |-> tag, content |-> content]

Malformed == Element("Malformed", << >>)

Tags(elements) == [i \in DOMAIN elements |-> elements[i].tag]

Octets(s) == IsSeq(s) /\ \A i \in DOMAIN s : s[i] \in 0..255

\* What is assumed of readers: an element is a record, the content of a constructed
\* element and of an OCTET STRING is a reader again, as deep as its parsers look, and
\* that of a number or a BIT STRING is octets.
ReaderOf(s, Inner(_)) ==
    /\ IsSeq(s)
    /\ \A i \in DOMAIN s :
           /\ s[i] = Element(s[i].tag, s[i].content)
           /\ s[i].tag \in {"Sequence", "Set", "OctetString", "ContextSpecificConstructed0",
                            "ContextSpecificConstructed3"} => Inner(s[i].content)
           /\ s[i].tag \in {"Integer", "Boolean", "BitString"} => Octets(s[i].content)
           /\ s[i].tag = "Malformed" => s[i] = Malformed

Reader1(s) == ReaderOf(s, IsSeq)
Reader2(s) == ReaderOf(s, Reader1)
Reader3(s) == ReaderOf(s, Reader2)
Reader4(s) == ReaderOf(s, Reader3)
Reader5(s) == ReaderOf(s, Reader4)
Reader6(s) == ReaderOf(s, Reader5)
Reader7(s) == ReaderOf(s, Reader6)
Reader8(s) == ReaderOf(s, Reader7)
Reader9(s) == ReaderOf(s, Reader8)

\* Reading on after a success; `?' on a Result<T, Error>.
AndThen(r, Continue(_)) == IF r.result = "Ok" THEN Continue(r.value) ELSE r

\* A loop over a sequence that carries a value and stops at the first error.
Loop(Body(_, _), start, items) ==
    LET after[i \in 0..Len(items)] ==
            IF i = 0 THEN Ok(start)
            ELSE AndThen(after[i - 1], LAMBDA carried : Body(carried, items[i]))
    IN  after[Len(items)]

Read(value, rest) == Ok([value |-> value, rest |-> rest])

peek(reader, tag) == reader # << >> /\ Head(reader).tag = tag

expect_tag(reader, tag) ==
    IF peek(reader, tag) THEN Read(Head(reader).content, Tail(reader)) ELSE Err("BadDer")

\* untrusted::Input::read_all: the decoder's own error comes first, what it did
\* not consume is the given error.
read_to_end(reader, error, Decode(_)) ==
    LET decoded == Decode(reader)
    IN  IF decoded.result # "Ok" THEN decoded
        ELSE IF decoded.value.rest # << >> THEN Err(error)
        ELSE Ok(decoded.value.value)

\* An element of another tag is the same error as data after the content.
nested(reader, tag, error, Decode(_)) ==
    LET outer == expect_tag(reader, tag)
    IN  IF outer.result # "Ok" THEN Err(error)
        ELSE AndThen(read_to_end(outer.value.value, error, Decode),
                     LAMBDA v : Read(v, outer.value.rest))

\* Mutant of nonnegative_integer: every leading zero is taken off.
nonnegative_integer_lenient(reader) ==
    AndThen(expect_tag(reader, "Integer"), LAMBDA r :
        LET v == r.value
        IN  IF v = << >> \/ v[1] >= 128 THEN Err("BadDer")
            ELSE Read(IF v[1] = 0 /\ Len(v) > 1 THEN Tail(v) ELSE v, r.rest))

\* nonnegative_integer: no sign bit, and a leading zero only where it is needed.
nonnegative_integer(reader) ==
    AndThen(expect_tag(reader, "Integer"), LAMBDA r :
        LET v == r.value
        IN  IF v = << >> \/ v[1] >= 128 \/ (v[1] = 0 /\ Len(v) > 1 /\ v[2] < 128)
            THEN Err("BadDer")
            ELSE Read(IF v[1] = 0 /\ Len(v) > 1 THEN Tail(v) ELSE v, r.rest))

\* FromDer for u8.
u8_from_der(reader) ==
    AndThen(nonnegative_integer(reader), LAMBDA r :
        IF Len(r.value) = 1 THEN Read(r.value[1], r.rest) ELSE Err("BadDer"))

\* FromDer for bool: FALSE if there is none.
bool_from_der(reader) ==
    LET octets == Head(reader).content
    IN  IF ~peek(reader, "Boolean") THEN Read(FALSE, reader)
        ELSE IF octets = << >> \/ octets[1] \notin {0, 255} THEN Err("BadDer")
        ELSE IF Len(octets) > 1 THEN Err("TrailingData")
        ELSE Read(octets[1] = 255, Tail(reader))

bit_string_with_no_unused_bits(reader) ==
    LET outer == expect_tag(reader, "BitString")
        value == outer.value.value
    IN  IF outer.result # "Ok" THEN Err("TrailingData")
        ELSE IF value = << >> \/ value[1] # 0 THEN Err("BadDer")
        ELSE Read(Tail(value), outer.value.rest)

\* FromDer for Time, of which only the outcome matters here (see module Time).
Time_from_der(reader) ==
    LET tag   == IF peek(reader, "UTCTime") THEN "UTCTime" ELSE "GeneralizedTime"
        outer == expect_tag(reader, tag)
    IN  IF outer.result # "Ok" THEN Err("TrailingData")
        ELSE IF outer.value.value = "malformed" THEN Err("BadDerTime")
        ELSE outer

\* SignedData::from_der: tbs || signatureAlgorithm || signature.
SignedData_from_der(der) ==
    AndThen(expect_tag(der, "Sequence"), LAMBDA tbs :
    AndThen(expect_tag(tbs.rest, "Sequence"), LAMBDA algorithm :
    AndThen(bit_string_with_no_unused_bits(algorithm.rest), LAMBDA signature :
        Read([tbs |-> tbs.value,
              signed_data |-> [data |-> Head(der), algorithm |-> algorithm.value,
                               signature |-> signature.value]],
             signature.rest))))
=============================================================================
