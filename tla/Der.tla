--------------------------------- MODULE Der ---------------------------------
(***************************************************************************)
(* DerIterator over the octets of an input (der.rs): every call of next    *)
(* reads one tag, length and value.  Callers go on after an error, so the  *)
(* position that a failed read leaves behind matters.                      *)
(*                                                                         *)
(* The input is a sequence of octets and a number of further octets, all   *)
(* zero, so that long values need no long sequences.                       *)
(***************************************************************************)
EXTENDS BitStrings

CONSTANTS
    Inputs,     \* records [octets, pad, limit]: octets, a number of zeros after
                \* them, and the size_limit
    MaxReads    \* bound on the calls of next

\* What four octets can express.
FourOctets(n) == n \in Nat /\ n \div 256 < 16777216

\* Every limit of the code is one of them: MAX_DER_SIZE is the greatest.
ASSUME InputsAssumption ==
    \A i \in Inputs : Octets(i.octets) /\ i.pad \in Nat /\ FourOctets(i.limit)

VARIABLES
    input, pad, size_limit,
    pos,        \* of the first octet that is not consumed, from 1
    reads,      \* calls of next that returned an item
    last        \* the last item, with the position where it was read

vars == << input, pad, size_limit, pos, reads, last >>

Size     == Len(input) + pad
Octet(i) == IF i <= Len(input) THEN input[i] ELSE 0
at_end   == pos > Size

Init ==
    /\ \E i \in Inputs : input = i.octets /\ pad = i.pad /\ size_limit = i.limit
    /\ pos = 1
    /\ reads = 0
    /\ last = [result |-> "None"]

\* Mutant of the bounds: a form may encode what the next shorter one could.
shortest_loose == << 127, 255, 65535, 16777215 >>

\* The least length that a long form of one to four octets may encode:
\* SHORT_FORM_LEN_MAX, or what is over LONG_FORM_LEN_ONE_BYTE_MAX and so on.
shortest == << 128, 256, 65536, 16777216 >>

\* The k octets from position i as a number.
combined(i, k) ==
    LET number[j \in 0..k] == IF j = 0 THEN 0 ELSE number[j - 1] * 256 + Octet(i + j - 1)
    IN  number[k]

\* The length at position i: Result<[value, next]>.  An error has the position that
\* it leaves behind.
Failed(next) == [result |-> "BadDer", next |-> next]

read_length(i) ==
    LET n == Octet(i)
        k == n - 128
    IN  IF i > Size THEN Failed(i)
        ELSE IF n < 128 THEN Ok([length |-> n, next |-> i + 1])
        ELSE IF k \notin 1..4 THEN Failed(i + 1)
        ELSE IF i + k > Size THEN Failed(Size + 1)
        ELSE IF combined(i + 1, k) < shortest[k] THEN Failed(i + 1 + k)
        ELSE Ok([length |-> combined(i + 1, k), next |-> i + 1 + k])

\* read_tag_and_get_value_limited at position i.
read_tag_and_get_value_limited(i) ==
    LET length == read_length(i + 1)
        start  == length.value.next
    IN  IF Octet(i) % 32 = 31 THEN Failed(i + 1)
        ELSE IF length.result # "Ok" THEN length
        ELSE IF length.value.length >= size_limit THEN Failed(start)
        ELSE IF start + length.value.length > Size + 1 THEN Failed(start)
        ELSE Ok([ tag |-> Octet(i), start |-> start, length |-> length.value.length,
                  next |-> start + length.value.length ])

\* Mutant of the reader: a failed read is undone.
position_after_rewound(read) == IF read.result = "Ok" THEN read.value.next ELSE pos

position_after(read) == IF read.result = "Ok" THEN read.value.next ELSE read.next

\* DerIterator::next.
ReadItem ==
    /\ ~at_end /\ reads < MaxReads
    /\ LET read == read_tag_and_get_value_limited(pos)
       IN  /\ last' = [from |-> pos, read |-> read]
           /\ pos' = position_after(read)
    /\ reads' = reads + 1
    /\ UNCHANGED << input, pad, size_limit >>

\* The iterator is exhausted, or the bound is reached.
Stop == (at_end \/ reads = MaxReads) /\ UNCHANGED vars

Next == ReadItem \/ Stop

Spec == Init /\ [][Next]_vars /\ WF_vars(ReadItem)

-----------------------------------------------------------------------------
(* Distinguished encoding: the length in as few octets as possible.        *)

Place == << 1, 256, 65536, 16777216 >>

Digits(n, k) == [j \in 1..k |-> (n \div Place[k - j + 1]) % 256]

Encode(tag, length) ==
    IF length < 128 THEN << tag, length >>
    ELSE LET k == IF length < 256 THEN 1 ELSE IF length < 65536 THEN 2
                  ELSE IF length < 16777216 THEN 3 ELSE 4
         IN  << tag, 128 + k >> \o Digits(length, k)

\* The octets from position i on are the header of a value that is there.
IsElement(i, tag, length) ==
    LET header == Encode(tag, length)
    IN  /\ i + Len(header) + length <= Size + 1
        /\ \A j \in DOMAIN header : Octet(i + j - 1) = header[j]

\* Lengths at the boundaries of the forms and of the limits.
Boundary ==
    UNION {{n - 1, n, n + 1} : n \in {1, 128, 256, 65536, 16777216, size_limit}}

HasRead == reads > 0

\* What the reader returns is exactly the distinguished encoding at its position:
\* it reads no value from a length in a longer form than needed, and it misses no
\* value below the limit (read_tag_and_get_value_limited).
ReadsDistinguished ==
    HasRead =>
        IF last.read.result = "Ok"
        THEN LET v == last.read.value
             IN  /\ IsElement(last.from, v.tag, v.length)
                 /\ v.next = last.from + Len(Encode(v.tag, v.length)) + v.length
                 /\ v.length < size_limit
        ELSE LET tag == Octet(last.from)
             IN  tag % 32 = 31 \/
                 ~\E n \in Boundary : n < size_limit /\ IsElement(last.from, tag, n)

\* A caller that skips items which do not decode still reaches the end: a read
\* that fails consumes something as well (DerIterator::next).  The bound on the
\* calls leaves enough of them for an input of that many octets.
Exhausted == Size <= MaxReads => <>at_end

-----------------------------------------------------------------------------
(* Contents of the values, as their decoders see them.                     *)

Content ==
    SubSeq(input, last.read.value.start, last.read.value.next - 1)

\* The value lies in the sequence of octets, not in the zeros after it.
InInput(tag) ==
    /\ HasRead /\ last.read.result = "Ok"
    /\ last.read.value.tag = tag /\ last.read.value.next <= Len(input) + 1

\* u8::from_der reads exactly the distinguished encodings of 0 to 255.
IntegersAgree ==
    InInput(2) =>
        LET read == u8_from_der(<< Element("Integer", Content) >>)
            encodes(v) == Content = IF v < 128 THEN << v >> ELSE << 0, v >>
        IN  IF read.result = "Ok" THEN encodes(read.value.value)
            ELSE \A v \in 0..255 : ~encodes(v)

\* The flags of a BIT STRING: its bits from the left, without the padding.
Flags ==
    LET bits == 8 * (Len(Content) - 1)
        n    == combined(last.read.value.start + 1, Len(Content) - 1)
    IN  {b \in 0..(bits - 1) : (n \div 2^(bits - 1 - b)) % 2 = 1}

\* bit_string_flags accepts a BIT STRING with flags exactly if its padding is zero,
\* and bit_set tells for every number whether the flag is there and set.
FlagsAgree ==
    InInput(3) /\ Len(Content) > 1 =>
        LET flags == bit_string_flags(Content)
            used  == 8 * (Len(Content) - 1) - Head(Content)
        IN  /\ flags.result = "Ok" <=> (Head(Content) <= 7 /\ \A b \in Flags : b < used)
            /\ flags.result = "Ok" =>
                   \A b \in 0..31 : bit_set(flags.value, b) <=> b \in Flags

\* The comment of bit_string_flags: "if the raw bitflags are empty there should be no
\* padding".  A BIT STRING without flags and without padding has an outcome.
EmptyFlagsDecode == InInput(3) => bit_string_flags(Content).result # "Panic"
=============================================================================
