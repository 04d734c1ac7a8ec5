-------------------------------- MODULE MCDer --------------------------------
(***************************************************************************)
(* Inputs of the DER reader: every form of a length at its boundaries, and *)
(* short sequences of octets that decode in many ways.                     *)
(***************************************************************************)
EXTENDS Der

CONSTANT MaxOctets

Prefixes(s) == {SubSeq(s, 1, n) : n \in 1..Len(s)}

Lengths ==
    {<< n >> : n \in {0, 1, 127, 128, 133, 255}}
    \cup {<< 129, a >> : a \in {0, 127, 128, 129, 255}}
    \cup {<< 130, a, b >> : a \in {0, 1, 255}, b \in {0, 1, 254, 255}}
    \cup {<< 131, a, b, c >> : a \in {0, 1, 255}, b \in {0, 255}, c \in {0, 1, 255}}
    \cup {<< 132, a, b, c, d >> : a \in {0, 1, 31, 32}, b \in {0, 255}, c \in {0, 255},
                                  d \in {0, 254, 255}}

LongInputs == UNION {Prefixes(<< tag >> \o length) : tag \in {48, 31, 191}, length \in Lengths}

LongPads ==
    {0, 1, 126, 127, 128, 255, 256, 257, 65534, 65535, 65536, 65537,
     16777215, 16777216, 16777217, 536870910, 536870911, 536870912}

\* MAX_DER_SIZE is scaled to 2^29: the sum of two sizes has 31 bits.
LongLimits == {65535, 536870912}

ShortOctets == {0, 1, 2, 3, 7, 31, 127, 128, 129, 130, 255}

ShortInputs == UNION {[1..n -> ShortOctets] : n \in 1..MaxOctets}

\* Contents of INTEGER and BIT STRING values.
Contents ==
    {<< >>} \cup {<< a >> : a \in 0..255} \cup {<< a, b >> : a \in {0, 1, 3, 7, 8, 128}, b \in 0..255}
    \cup {<< a, b, c >> : a \in {0, 4, 7}, b \in {0, 128, 165}, c \in {0, 1, 16, 128, 160}}

ValueInputs == {<< tag, Len(c) >> \o c : tag \in {2, 3}, c \in Contents}

Sources(octets, pads, limits) == [octets : octets, pad : pads, limit : limits]

MCInputs ==
    Sources(LongInputs, LongPads, LongLimits)
    \cup Sources(ShortInputs, 0..2, {3, 65535})
    \cup Sources(ValueInputs, {0}, {65535})
=============================================================================
