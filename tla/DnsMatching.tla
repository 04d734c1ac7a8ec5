---------------------------- MODULE DnsMatching ----------------------------
(***************************************************************************)
(* Comparison of a presented DNS name with a reference or a constraint,    *)
(* character by character (dns_name.rs:                                    *)
(* presented_id_matches_reference_id_internal), and its relation to the    *)
(* comparison of labels in module Names, which path building uses.         *)
(* SubjectNameText makes the calls.                                        *)
(***************************************************************************)
EXTENDS DnsNames

VARIABLES
    presented, reference, role,   \* the arguments
    pc,         \* "idle", "validate", "skip", "wildcard", "expand", "compare", "end", "done"
    p, r,       \* positions of the two readers
    matches     \* Result<bool>, when pc = "done"

match_vars == << presented, reference, role, pc, p, r, matches >>

Idle ==
    /\ presented = << >> /\ reference = << >> /\ role = "Reference"
    /\ pc = "idle"
    /\ p = 1 /\ r = 1
    /\ matches = Err("None")

\* The call of the function.
Match(presented_dns_id, reference_dns_id, reference_role) ==
    /\ pc = "idle" /\ pc' = "validate"
    /\ presented' = presented_dns_id /\ reference' = reference_dns_id
    /\ role' = reference_role
    /\ UNCHANGED << p, r, matches >>

Return(value) ==
    /\ pc' = "done"
    /\ matches' = value
    /\ UNCHANGED << presented, reference, role, p, r >>

Continue(next, p_next, r_next) ==
    /\ pc' = next
    /\ p' = p_next /\ r' = r_next
    /\ UNCHANGED << presented, reference, role, matches >>

Validate ==
    /\ pc = "validate"
    /\ IF ~is_valid_dns_id(presented, "Presented", TRUE)
       THEN Return(Err("MalformedDnsIdentifier"))
       ELSE IF ~is_valid_dns_id(reference, role, FALSE)
       THEN Return(Err(IF role = "NameConstraint" THEN "MalformedNameConstraint"
                       ELSE "MalformedDnsIdentifier"))
       ELSE Continue("skip", p, r)

\* Mutant of the skip: what precedes the compared part need not end with a dot.
ends_with_dot_unchecked(k) == TRUE

ends_with_dot(k) == presented[k] = "."

\* The part of a presented name that is longer than the constraint is skipped.
SkipPrefix ==
    LET longer == Len(presented) - Len(reference)
    IN  /\ pc = "skip"
        /\ IF role = "Reference" \/ longer <= 0 THEN Continue("wildcard", p, r)
           ELSE IF reference = << >> THEN Return(Ok(TRUE))
           ELSE IF peek(reference, 1, ".") THEN Continue("wildcard", p + longer, r)
           ELSE IF ends_with_dot(longer) THEN Continue("wildcard", longer + 1, r)
           ELSE Return(Ok(FALSE))

Wildcard ==
    /\ pc = "wildcard"
    /\ IF peek(presented, p, "*") THEN Continue("expand", p + 1, r)
                                  ELSE Continue("compare", p, r)

\* One character of the reference for which the wildcard stands.
Expand ==
    /\ pc = "expand"
    /\ IF r > Len(reference) THEN Return(Ok(FALSE))
       ELSE Continue(IF peek(reference, r + 1, ".") THEN "compare" ELSE "expand", p, r + 1)

Compare ==
    /\ pc = "compare"
    /\ IF \/ p > Len(presented) \/ r > Len(reference)
          \/ ascii_lower(presented[p]) # ascii_lower(reference[r])
       THEN Return(Ok(FALSE))
       ELSE IF p < Len(presented) THEN Continue("compare", p + 1, r + 1)
       ELSE IF presented[p] = "." THEN Return(Err("MalformedDnsIdentifier"))
       ELSE Continue("end", p + 1, r + 1)

\* A final dot of the reference may be left, but not of a constraint.  Then both
\* readers are asserted to be at their ends.
End ==
    LET rest == IF role = "Reference" /\ peek(reference, r, ".") THEN r + 1 ELSE r
    IN  /\ pc = "end"
        /\ Return(IF rest <= Len(reference) THEN Ok(FALSE)
                  ELSE IF p # Len(presented) + 1 THEN Err("Panic")
                  ELSE Ok(TRUE))

MatchNext == Validate \/ SkipPrefix \/ Wildcard \/ Expand \/ Compare \/ End

-----------------------------------------------------------------------------
ByLabels == INSTANCE Names WITH Wildcard <- << "*" >>

\* The labels of a name without regard to case.
NameOf(name, id_role) == Proper(to_owned(name), id_role, FALSE)

View(name, id_role) ==
    [ valid |-> ValidByLabels(name, id_role, id_role = "Presented"),
      labels |-> IF name = << >> THEN << >> ELSE NameOf(name, id_role),
      leading_dot |-> peek(name, 1, ".") ]

\* The comparison of characters, with its skipped prefix, expanded wildcard and
\* final dot, gives what the comparison of labels in Names gives; in particular
\* no assertion of the code fails.
ComputesLabelMatching ==
    pc = "done" =>
        matches = IF role = "NameConstraint"
                  THEN ByLabels!dns_matches_constraint(View(presented, "Presented"),
                                                       View(reference, role))
                  ELSE ByLabels!dns_matches_reference(View(presented, "Presented"),
                                                      View(reference, role))
=============================================================================
