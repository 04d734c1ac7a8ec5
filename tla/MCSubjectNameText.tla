------------------------- MODULE MCSubjectNameText -------------------------
(***************************************************************************)
(* Texts put together from groups at and around every limit: numbers with  *)
(* leading zeros, of four digits, above 255; blocks that are too short or  *)
(* too long, in both cases; empty groups at both ends and in the middle.   *)
(* All short names, names with labels at and around the limits, and pairs  *)
(* of names of up to three labels.                                         *)
(***************************************************************************)
EXTENDS SubjectNameText

CONSTANT MaxLength

Numbers == {<< >>, << "0" >>, << "0", "7" >>, << "4", "2" >>, << "2", "5", "5" >>,
            << "2", "5", "6" >>, << "1", "0", "0", "1" >>}

Blocks == {<< >>, << "0" >>, << "0", "7", "a" >>, << "0", "1", "F", "f" >>,
           << "9", "A", "0", "c" >>, << "0", "1", "2", "3", "4" >>,
           << "0", "_", "2", "3" >>}

Others == {<< "a" >>, << "-" >>, << "*" >>}

Joined(separator, groups) ==
    FoldLeft(LAMBDA s, i : s \o << separator >> \o groups[i],
             groups[1], [i \in 1..(Len(groups) - 1) |-> i + 1])

Lists(groups, max) == UNION {[1..n -> groups] : n \in 1..max}

ShortNames == UNION {[1..n -> {"a", "1", "-", ".", "*"}] : n \in 0..MaxLength}

LabelSet == {<< "a" >>, << "A", "b" >>, << "b" >>}

Names(first) ==
    {Joined(".", << l >> \o ls) : l \in first, ls \in {<< >>} \cup Lists(LabelSet, 2)}

MCPresented ==
    Names(LabelSet \cup {<< "*" >>}) \cup {<< >>, << "a", "." >>, << ".", "a" >>}

Plain == Names(LabelSet)

MCConstraintNames ==
    Plain \cup {Append(n, ".") : n \in Plain} \cup {<< "." >> \o n : n \in Plain}
    \cup {<< >>, << "." >>, << "*", ".", "a", ".", "b" >>}

\* Labels of a length, with either end of one that is almost too long a hyphen, and names
\* of them, which are at and around the limit of a name as well.
LabelOf(n) == [i \in 1..n |-> "a"]

Sizes == (1..4) \cup ((MAX_LABEL_LENGTH - 1)..(MAX_LABEL_LENGTH + 1))

LongLabels ==
    {LabelOf(n) : n \in Sizes}
    \cup {[LabelOf(MAX_LABEL_LENGTH) EXCEPT ![i] = "-"] : i \in {1, MAX_LABEL_LENGTH}}

LongNames ==
    LET names == {Joined(".", ls) : ls \in Lists(LongLabels, 3)}
    IN  names \cup {Append(n, ".") : n \in names} \cup {<< "*", "." >> \o n : n \in names}

MCTexts ==
    {Joined(".", g) : g \in Lists(Numbers, OCTETS + 1) \cup Lists(Numbers \cup Others, 3)}
    \cup {Joined(":", g) : g \in Lists(Blocks, BLOCKS + 1)}
    \cup ShortNames \cup LongNames \cup Plain \cup {Append(n, ".") : n \in Plain}
=============================================================================
