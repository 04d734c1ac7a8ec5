------------------------------ MODULE DnsNames ------------------------------
(***************************************************************************)
(* Validity of DNS names, character by character (dns_name.rs:             *)
(* is_valid_dns_id, DnsNameRef, WildcardDnsNameRef).                       *)
(*                                                                         *)
(* A name is a sequence of characters.  The classes of characters that the *)
(* code tells apart have one or a few members each: see Alphabet.          *)
(***************************************************************************)
EXTENDS Errors, SequencesExt

CONSTANTS
    MAX_LABEL_LENGTH,   \* 63 in the code
    MAX_NAME_LENGTH     \* 253 in the code

ASSUME LengthAssumption == MAX_LABEL_LENGTH \in Nat /\ MAX_NAME_LENGTH \in Nat

HexDigits == << "0", "1", "2", "3", "4", "5", "6", "7", "8", "9",
                "a", "b", "c", "d", "e", "f" >>
UpperHex  == << "A", "B", "C", "D", "E", "F" >>

Digits    == {HexDigits[i] : i \in 1..10}
Letters   == (Range(HexDigits) \ Digits) \cup Range(UpperHex) \cup {"_"}

\* "!" stands for every octet that is in no other class.
Alphabet  == Digits \cup Letters \cup {"-", ".", "*", ":", "!"}

lower     == [c \in Alphabet |->
                 IF c \in Range(UpperHex)
                 THEN HexDigits[10 + (CHOOSE i \in 1..6 : UpperHex[i] = c)] ELSE c]

ascii_lower(c) == lower[c]

\* Reader::peek at position i.
peek(name, i, c) == i <= Len(name) /\ name[i] = c

\* Mutant of the check at a dot: a label may end with a hyphen.
dot_allowed_after_hyphen(s, id_role) ==
    s.label_length = 0 => id_role = "NameConstraint" /\ s.is_first_byte

dot_allowed(s, id_role) ==
    /\ s.label_length = 0 => id_role = "NameConstraint" /\ s.is_first_byte
    /\ ~s.label_ends_with_hyphen

\* One round of the loop of is_valid_dns_id; ok tells if it has not returned yet.
scan(s, c, id_role) ==
    IF c = "."
    THEN [s EXCEPT !.ok = @ /\ dot_allowed(s, id_role), !.dot_count = @ + 1,
                   !.label_length = 0, !.is_first_byte = FALSE]
    ELSE [ ok |-> /\ s.ok
                  /\ c \in Digits \cup Letters \cup {"-"}
                  /\ c = "-" => s.label_length > 0
                  /\ s.label_length < MAX_LABEL_LENGTH,
           dot_count |-> s.dot_count, label_length |-> s.label_length + 1,
           label_is_all_numeric |->
               c \in Digits /\ (s.label_length = 0 \/ s.label_is_all_numeric),
           label_ends_with_hyphen |-> c = "-", is_first_byte |-> FALSE ]

\* The checks after the loop.
scan_end(s, id_role, is_wildcard) ==
    /\ s.ok
    /\ s.label_length = 0 => id_role = "Reference"
    /\ ~s.label_ends_with_hyphen
    /\ ~s.label_is_all_numeric
    /\ is_wildcard => s.dot_count + (IF s.label_length = 0 THEN 0 ELSE 1) >= 3

is_valid_dns_id(hostname, id_role, allow_wildcards) ==
    LET is_wildcard == allow_wildcards /\ peek(hostname, 1, "*")
        first == IF is_wildcard THEN 3 ELSE 1
        start == [ ok |-> TRUE, dot_count |-> IF is_wildcard THEN 1 ELSE 0,
                   label_length |-> 0, label_is_all_numeric |-> FALSE,
                   label_ends_with_hyphen |-> FALSE, is_first_byte |-> ~is_wildcard ]
        after[k \in (first - 1)..Len(hostname)] ==
            IF k < first THEN start ELSE scan(after[k - 1], hostname[k], id_role)
    IN  /\ Len(hostname) <= MAX_NAME_LENGTH
        /\ \/ id_role = "NameConstraint" /\ hostname = << >>
           \/ /\ is_wildcard => peek(hostname, 2, ".")
              /\ Len(hostname) >= first      \* the loop reads at least one character
              /\ scan_end(after[Len(hostname)], id_role, is_wildcard)

\* DnsNameRef::try_from_ascii.
is_dns_name(name) == is_valid_dns_id(name, "Reference", FALSE)

\* DnsNameRef::to_owned.
to_owned(name) == [i \in DOMAIN name |-> ascii_lower(name[i])]

-----------------------------------------------------------------------------
(* DNS names as lists of labels.                                           *)

\* The labels between the dots; one more than there are dots.
Labels(name) ==
    FoldLeft(LAMBDA ls, c : IF c = "." THEN Append(ls, << >>)
                            ELSE [ls EXCEPT ![Len(ls)] = Append(@, c)],
             << << >> >>, name)

Label(l) ==
    /\ Len(l) \in 1..MAX_LABEL_LENGTH
    /\ Range(l) \subseteq Digits \cup Letters \cup {"-"}
    /\ l[1] # "-" /\ l[Len(l)] # "-"

\* The labels without what only one role may have: the empty label after the last
\* dot of an absolute reference, the one before the first dot of a constraint and
\* the wildcard label.
Proper(name, id_role, wildcards) ==
    LET ls   == Labels(name)
        last == IF id_role = "Reference" /\ Len(ls) > 1 /\ ls[Len(ls)] = << >>
                THEN Len(ls) - 1 ELSE Len(ls)
        from == IF \/ id_role = "NameConstraint" /\ Len(ls) > 1 /\ ls[1] = << >>
                   \/ wildcards /\ ls[1] = << "*" >>
                THEN 2 ELSE 1
    IN  SubSeq(ls, from, last)

\* A name is valid if it is short and its labels are, the last one is not a number
\* and two labels follow a wildcard; an empty constraint is valid as well.
ValidByLabels(name, id_role, wildcards) ==
    LET ls == Proper(name, id_role, wildcards)
    IN  /\ Len(name) <= MAX_NAME_LENGTH
        /\ \/ id_role = "NameConstraint" /\ name = << >>
           \/ /\ ls # << >>
              /\ \A k \in DOMAIN ls : Label(ls[k])
              /\ ~(Range(ls[Len(ls)]) \subseteq Digits)
              /\ wildcards /\ peek(name, 1, "*") => Len(ls) >= 2
=============================================================================
