-------------------------------- MODULE Names --------------------------------
(***************************************************************************)
(* Matching of presented names against name constraints and against the    *)
(* name a caller expects: DNS names                                        *)
(* (subject_name/dns_name.rs) and IP addresses (subject_name/ip_address.rs)*)
(*                                                                         *)
(* A DNS name is [valid, labels]; a DNS constraint also has leading_dot.   *)
(* Labels are opaque (comparison is per label and ignores case), except    *)
(* for the wildcard label; "valid" is the outcome of is_valid_dns_id in    *)
(* the role the name has.                                                  *)
(* An IP address is its sequence of octets; an IP constraint is the octets *)
(* of the address followed by those of the mask.                           *)
(***************************************************************************)
EXTENDS Errors

CONSTANT Wildcard   \* the label "*"

\* The last n labels.
LastLabels(labels, n) == [i \in 1..n |-> labels[Len(labels) - n + i]]

\* Mutant of dns_matches_constraint: a wildcard stands for no label.
dns_matches_constraint_literally(name, base) ==
    IF ~name.valid THEN Err("MalformedDnsIdentifier")
    ELSE IF ~base.valid THEN Err("MalformedNameConstraint")
    ELSE Ok(\/ /\ Len(name.labels) > Len(base.labels)
               /\ LastLabels(name.labels, Len(base.labels)) = base.labels
            \/ ~base.leading_dot /\ name.labels = base.labels)

\* dns_name::presented_id_matches_constraint.  A constraint is matched by the
\* names that add labels to its left, by the name equal to it unless it starts
\* with a dot, and by a wildcard that stands for its first label.
dns_matches_constraint(name, base) ==
    LET n     == Len(name.labels)
        m     == Len(base.labels)
        below == n > m /\ LastLabels(name.labels, m) = base.labels
        equal == ~base.leading_dot /\ name.labels = base.labels
        wild  == /\ n = m /\ n > 0
                 /\ name.labels[1] = Wildcard
                 /\ LastLabels(name.labels, n - 1) = LastLabels(base.labels, n - 1)
    IN  IF ~name.valid THEN Err("MalformedDnsIdentifier")
        ELSE IF ~base.valid THEN Err("MalformedNameConstraint")
        ELSE Ok(below \/ equal \/ wild)

\* Mutant of dns_matches_reference: the wildcard stands for any number of labels.
dns_matches_reference_deep(name, reference) ==
    LET n == Len(name.labels)
        m == Len(reference.labels)
    IN  IF ~name.valid THEN Err("MalformedDnsIdentifier")
        ELSE Ok(\/ name.labels = reference.labels
                \/ /\ n <= m /\ name.labels[1] = Wildcard
                   /\ LastLabels(name.labels, n - 1) = LastLabels(reference.labels, n - 1))

\* dns_name::presented_id_matches_reference_id.  The reference, a DnsNameRef, is
\* valid, without wildcard, and may be absolute.
dns_matches_reference(name, reference) ==
    LET n    == Len(name.labels)
        wild == /\ n = Len(reference.labels) /\ n > 0
                /\ name.labels[1] = Wildcard
                /\ LastLabels(name.labels, n - 1) = LastLabels(reference.labels, n - 1)
    IN  IF ~name.valid THEN Err("MalformedDnsIdentifier")
        ELSE Ok(name.labels = reference.labels \/ wild)

-----------------------------------------------------------------------------
\* The octets that are k zero bits below 8 - k one bits, as octet -> 2^k.
MaskGrain == [m \in {0, 128, 192, 224, 240, 248, 252, 254, 255} |-> 256 - m]

\* ip_address::presented_id_matches_constraint.  The octets are scanned from
\* the left; the first one with an unacceptable mask or a masked difference
\* decides.
ip_matches_constraint(name, constraint) ==
    LET n       == Len(name)
        address == [i \in 1..n |-> constraint[i]]
        mask    == [i \in 1..n |-> constraint[n + i]]
        seen_zero_bit(i) == \E j \in 1..(i - 1) : mask[j] # 255
        bad_mask(i) == \/ mask[i] \notin DOMAIN MaskGrain
                       \/ seen_zero_bit(i) /\ mask[i] # 0
        differs(i)  == name[i] \div MaskGrain[mask[i]]
                         # address[i] \div MaskGrain[mask[i]]
        stops == {i \in 1..n : bad_mask(i) \/ differs(i)}
    IN  IF n \notin {4, 16} THEN Err("BadDer")
        ELSE IF Len(constraint) \notin {8, 32}
             THEN Err("InvalidNetworkMaskConstraint")
        ELSE IF Len(constraint) # 2 * n \/ stops = {}
             THEN Ok(Len(constraint) = 2 * n)
        ELSE IF bad_mask(Min(stops)) THEN Err("InvalidNetworkMaskConstraint")
        ELSE Ok(FALSE)

\* ip_address::presented_id_matches_reference_id.
ip_matches_reference(name, reference) == Len(name) \in {4, 16} /\ name = reference
=============================================================================
