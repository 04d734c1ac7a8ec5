-------------------------- MODULE SubjectNameText --------------------------
(***************************************************************************)
(* Reading a subject name from text (name.rs: SubjectNameRef::             *)
(* try_from_ascii): first as an IPv4 address, then as an uncompressed IPv6 *)
(* address, then as a DNS name.  Both address parsers (ip_address.rs) are  *)
(* loops over the characters, with the digits of the current group, the    *)
(* number of separators and the octets found so far.                       *)
(*                                                                         *)
(* A DNS name is then compared with one that a certificate presents; so is *)
(* a name constraint, which is not read from text.                         *)
(***************************************************************************)
EXTENDS DnsMatching

CONSTANTS
    OCTETS,     \* octets of an IPv4 address, 4 in the code
    BLOCKS,     \* blocks of an IPv6 address, 8 in the code
    Texts,      \* the texts that a caller passes
    ConstraintNames,    \* DNS constraints of an issuer
    PresentedNames      \* DNS names that certificates present

ASSUME ShapeAssumption ==
    /\ OCTETS \in Nat \ {0} /\ BLOCKS \in Nat \ {0}
    /\ Texts \cup ConstraintNames \cup PresentedNames \subseteq Seq(Alphabet)

VARIABLES
    text,
    parser,     \* "V4", "V6" or "Done"; "None" for a constraint
    at,         \* the position read_byte reads next
    current,    \* the digits of the current octet or block
    separators, \* dot_count or colon_count
    octets,
    result

text_vars == << text, parser, at, current, separators, octets, result >>

vars == << text_vars, match_vars >>

-----------------------------------------------------------------------------

digit(c) == (CHOOSE i \in DOMAIN HexDigits : HexDigits[i] = ascii_lower(c)) - 1

IsHex(c) == ascii_lower(c) \in Range(HexDigits)

radix10_to_octet(digits) == FoldLeft(LAMBDA n, d : 10 * n + d, 0, digits)

Start(next) ==
    /\ parser' = next
    /\ at' = 1 /\ current' = << >> /\ separators' = 0 /\ octets' = << >>

Finish(outcome) ==
    /\ parser' = "Done" /\ result' = outcome
    /\ UNCHANGED << at, current, separators, octets >>

Init ==
    /\ \/ text \in Texts /\ parser = "V4"
       \/ text \in ConstraintNames /\ parser = "None"
    /\ at = 1 /\ current = << >> /\ separators = 0 /\ octets = << >>
    /\ result = Err("None")
    /\ Idle

-----------------------------------------------------------------------------
(* parse_ipv4_address.                                                     *)

\* Mutant of the checks at a dot: any number of dots.
dot_allowed_v4_uncounted ==
    /\ at > 1 /\ at < Len(text)
    /\ current # << >>
    /\ radix10_to_octet(current) <= 255

dot_allowed_v4 ==
    /\ at > 1 /\ at < Len(text)
    /\ separators < OCTETS - 1
    /\ current # << >>
    /\ radix10_to_octet(current) <= 255

\* Mutant of the checks at a digit: a number may begin with zeros.
number_allowed_leading_zero(number) == Len(current) < 3

number_allowed(number) ==
    /\ number = 0 /\ current = << >> => peek(text, at + 1, ".") \/ at = Len(text)
    /\ Len(current) < 3

Dot ==
    /\ parser = "V4" /\ peek(text, at, ".") /\ dot_allowed_v4
    /\ separators' = separators + 1
    /\ octets' = Append(octets, radix10_to_octet(current))
    /\ current' = << >>
    /\ at' = at + 1
    /\ UNCHANGED << text, parser, result >>

AtNumber ==
    at <= Len(text) /\ text[at] \in Digits /\ number_allowed(digit(text[at]))

Number ==
    /\ parser = "V4" /\ AtNumber /\ at < Len(text)
    /\ current' = Append(current, digit(text[at]))
    /\ at' = at + 1
    /\ UNCHANGED << text, parser, separators, octets, result >>

\* The last character is a digit, since no address ends with a dot.
last_octet == radix10_to_octet(Append(current, digit(text[at])))

complete_v4 ==
    /\ AtNumber /\ at = Len(text)
    /\ last_octet <= 255
    /\ separators = OCTETS - 1

Ipv4 ==
    /\ parser = "V4" /\ complete_v4
    /\ Finish(Ok([type |-> "V4", octets |-> Append(octets, last_octet)]))
    /\ UNCHANGED text

\* The text ends at once, has another character or fails a check.
NotIpv4 ==
    /\ parser = "V4"
    /\ ~(peek(text, at, ".") /\ dot_allowed_v4)
    /\ ~(AtNumber /\ at < Len(text))
    /\ ~complete_v4
    /\ Start("V6")
    /\ UNCHANGED << text, result >>

-----------------------------------------------------------------------------
(* parse_ipv6_address.  previous_character is Some exactly when the        *)
(* current block has an odd number of digits.                              *)

colon_allowed ==
    /\ at > 1 /\ at < Len(text)
    /\ separators < BLOCKS - 1
    /\ Len(current) = 4

length_v6 == Len(text) = 5 * BLOCKS - 1

AtHex == at <= Len(text) /\ IsHex(text[at]) /\ Len(current) < 4

with_hex(c) ==
    IF Len(current) % 2 = 1
    THEN Append(octets, 16 * current[Len(current)] + digit(c)) ELSE octets

Colon ==
    /\ parser = "V6" /\ length_v6 /\ peek(text, at, ":") /\ colon_allowed
    /\ separators' = separators + 1
    /\ current' = << >>
    /\ at' = at + 1
    /\ UNCHANGED << text, parser, octets, result >>

Hex ==
    /\ parser = "V6" /\ length_v6 /\ AtHex /\ at < Len(text)
    /\ octets' = with_hex(text[at])
    /\ current' = Append(current, digit(text[at]))
    /\ at' = at + 1
    /\ UNCHANGED << text, parser, separators, result >>

complete_v6 == AtHex /\ at = Len(text) /\ separators = BLOCKS - 1

Ipv6 ==
    /\ parser = "V6" /\ length_v6 /\ complete_v6
    /\ Finish(Ok([type |-> "V6", octets |-> with_hex(text[at])]))
    /\ UNCHANGED text

\* The last attempt: DnsNameRef::try_from_ascii.
NotIpv6 ==
    /\ parser = "V6"
    /\ length_v6 => /\ ~(peek(text, at, ":") /\ colon_allowed)
                    /\ ~(AtHex /\ at < Len(text))
                    /\ ~complete_v6
    /\ Finish(IF is_dns_name(text) THEN Ok([type |-> "DnsName"])
                                   ELSE Err("InvalidSubjectNameError"))
    /\ UNCHANGED text

ReadNext == Dot \/ Number \/ Ipv4 \/ NotIpv4 \/ Colon \/ Hex \/ Ipv6 \/ NotIpv6

-----------------------------------------------------------------------------

Is(type) == parser = "Done" /\ result.result = "Ok" /\ result.value.type = type

\* A name of a certificate against the name that was read, or against a constraint.
MatchReference ==
    Is("DnsName") /\ \E n \in PresentedNames : Match(n, text, "Reference")

MatchConstraint ==
    parser = "None" /\ \E n \in PresentedNames : Match(n, text, "NameConstraint")

Next ==
    \/ ReadNext /\ UNCHANGED match_vars
    \/ (MatchReference \/ MatchConstraint \/ MatchNext) /\ UNCHANGED text_vars

Spec == Init /\ [][Next]_vars

-----------------------------------------------------------------------------
(* The text of an address (IpAddr::from of a std::net::IpAddr).            *)

Char(d) == HexDigits[d + 1]

\* std::net::Ipv4Addr::to_string, one octet.
decimal(n) ==
    (IF n >= 100 THEN << Char(n \div 100) >> ELSE << >>)
    \o (IF n >= 10 THEN << Char((n \div 10) % 10) >> ELSE << >>)
    \o << Char(n % 10) >>

ipv4_to_string(os) ==
    FoldLeft(LAMBDA s, i : s \o << "." >> \o decimal(os[i]),
             decimal(os[1]), [i \in 1..(Len(os) - 1) |-> i + 1])

ipv6_to_uncompressed_string(os) ==
    [k \in 1..(5 * BLOCKS - 1) |->
        LET octet == os[2 * ((k - 1) \div 5) + (IF (k - 1) % 5 < 2 THEN 1 ELSE 2)]
        IN  CASE k % 5 = 0       -> ":"
              [] k % 5 \in {1, 3} -> Char(octet \div 16)
              [] k % 5 \in {2, 4} -> Char(octet % 16)]

-----------------------------------------------------------------------------

\* is_valid_dns_id, with its five running variables, accepts exactly the names whose
\* labels are valid, in every role and with or without wildcards.
ValidityByLabels ==
    at = 1 /\ pc = "idle" =>
        \A id_role \in {"Reference", "Presented", "NameConstraint"}, wildcards \in BOOLEAN :
            is_valid_dns_id(text, id_role, wildcards)
                <=> ValidByLabels(text, id_role, wildcards)

DecimalTexts == {decimal(n) : n \in 0..255}

\* Exactly the texts that the conversion from std::net::IpAddr writes, in either
\* case, are read as addresses, and reading such a text gives back the octets.  The
\* order of the attempts is of no matter: no such text is a DNS name.
ReadsWhatIsWritten ==
    parser = "Done" =>
        LET written4 == /\ Len(Labels(text)) = OCTETS
                        /\ Range(Labels(text)) \subseteq DecimalTexts
            written6 == /\ length_v6
                        /\ \A k \in DOMAIN text :
                               IF k % 5 = 0 THEN text[k] = ":" ELSE IsHex(text[k])
        IN  /\ written4 <=> Is("V4")
            /\ written6 <=> Is("V6")
            /\ written4 => ipv4_to_string(result.value.octets) = text
            /\ written6 => ipv6_to_uncompressed_string(result.value.octets) = to_owned(text)
            /\ written4 \/ written6 => ~is_dns_name(text)

\* Neither parser writes past the end of its arrays, octets and current_octet.
WithinArrays ==
    /\ parser = "V4" => Len(octets) < OCTETS /\ Len(current) <= 3
    /\ parser = "V6" => Len(octets) <= 2 * BLOCKS
=============================================================================
