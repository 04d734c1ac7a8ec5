----------------------------- MODULE BitStrings -----------------------------
(***************************************************************************)
(* BIT STRINGs that hold sets of flags (der.rs: bit_string_flags,          *)
(* BitStringFlags), as sequences of octets.                                *)
(***************************************************************************)
EXTENDS DerElements

\* bit_string_flags: an octet with the number of padding bits, then the flags.
\* Without flags, the index of the last octet is len() - 1 of an empty slice.
bit_string_flags(octets) ==
    LET padding_bits == Head(octets)
        raw_bits     == Tail(octets)
    IN  IF octets = << >> \/ padding_bits > 7 \/ (raw_bits = << >> /\ padding_bits # 0)
        THEN Err("BadDer")
        ELSE IF raw_bits = << >> THEN Err("Panic")
        ELSE IF raw_bits[Len(raw_bits)] % 2^padding_bits # 0 THEN Err("BadDer")
        ELSE Ok(raw_bits)

\* Mutant of bit_set: the first flag is the least significant bit.
bit_set_from_right(raw_bits, bit) ==
    LET byte_index == bit \div 8
    IN  Len(raw_bits) > byte_index /\ (raw_bits[byte_index + 1] \div 2^(bit % 8)) % 2 = 1

\* BitStringFlags::bit_set: flags that are not there are not set.
bit_set(raw_bits, bit) ==
    LET byte_index == bit \div 8
        bit_shift  == 7 - (bit % 8)
    IN  IF Len(raw_bits) < byte_index + 1 THEN FALSE
        ELSE (raw_bits[byte_index + 1] \div 2^bit_shift) % 2 = 1
=============================================================================
