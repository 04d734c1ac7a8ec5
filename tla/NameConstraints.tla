--------------------------- MODULE NameConstraints ---------------------------
(***************************************************************************)
(* Name constraints of an issuer, applied to every certificate below it    *)
(* (subject_name/verify.rs: check_name_constraints).                       *)
(*                                                                         *)
(* A general name is [type, value]; type is "DnsName", "DirectoryName",    *)
(* "IpAddress", "Uri" or "Unsupported" (value: the tag).  The extension    *)
(* is Option<[permitted, excluded : Result<Option<subtrees>>, trailing]>,  *)
(* subtrees being a sequence of Result<GeneralName>.  In a certificate,    *)
(* subject_alt_name is Option<sequence of Result<GeneralName>> and         *)
(* common_name is Result<Option<DNS name>>, the outcome of common_name()   *)
(* on the subject.                                                         *)
(***************************************************************************)
EXTENDS Names

\* What one subtree says of a name: "skip" (another name form), "match",
\* "mismatch", or an error.  Directory names are rejected by matching no
\* permitted and every excluded subtree.
subtree_outcome(name, subtree, excluded) ==
    LET base == subtree.value
        outcome(r) == IF r.result # "Ok" THEN r.result
                      ELSE IF r.value THEN "match" ELSE "mismatch"
    IN  IF subtree.result # "Ok" THEN subtree.result
        ELSE IF name.type # base.type THEN "skip"
        ELSE CASE name.type = "DnsName" ->
                      outcome(dns_matches_constraint(name.value, base.value))
               [] name.type = "IpAddress" ->
                      outcome(ip_matches_constraint(name.value, base.value))
               [] name.type = "DirectoryName" ->
                      IF excluded THEN "match" ELSE "mismatch"
               [] name.type = "Unsupported" ->
                      IF name.value = base.value
                      THEN "NameConstraintViolation" ELSE "skip"
               [] OTHER -> "skip"

\* One pass over permittedSubtrees or excludedSubtrees: the first error or
\* excluded match ends it; a permitted form must be matched at least once.
check_subtrees(name, subtrees, excluded) ==
    LET outcome == [i \in 1..Len(subtrees) |->
                        subtree_outcome(name, subtrees[i], excluded)]
        said(o) == \E i \in 1..Len(subtrees) : outcome[i] = o
        verdict == [i \in 1..Len(subtrees) |->
            IF \/ outcome[i] \in {"skip", "mismatch"}
               \/ outcome[i] = "match" /\ ~excluded THEN "Ok"
            ELSE IF outcome[i] = "match" THEN "NameConstraintViolation"
            ELSE outcome[i]]
    IN  FirstErr(verdict)
        ?? Require(~excluded /\ said("mismatch") => said("match"),
                   "NameConstraintViolation")

check_presented_id_conforms_to_constraints(name, permitted, excluded) ==
    (IF IsSome(permitted) THEN check_subtrees(name, The(permitted), FALSE) ELSE "Ok")
    ?? (IF IsSome(excluded) THEN check_subtrees(name, The(excluded), TRUE) ELSE "Ok")

\* All the names that NameIterator yields for one certificate: the entries of
\* subjectAltName (a malformed one ends the iteration with its error), the
\* subject, and its common name where that may hold a DNS name.
check_names(cert, permitted, excluded, cn_is_dns_name) ==
    LET conforms(type, value) ==
            check_presented_id_conforms_to_constraints(
                [type |-> type, value |-> value], permitted, excluded)
        san == IF IsSome(cert.subject_alt_name)
               THEN The(cert.subject_alt_name) ELSE << >>
        cn  == cert.common_name
    IN  FirstErr([i \in 1..Len(san) |->
            san[i].result ?? conforms(san[i].value.type, san[i].value.value)])
        ?? conforms("DirectoryName", cert.subject)
        ?? (IF ~cn_is_dns_name THEN "Ok"
            ELSE cn.result
                 ?? (IF IsSome(cn.value) THEN conforms("DnsName", The(cn.value))
                                         ELSE "Ok"))

\* Mutant of check_name_constraints: only the direct subordinate is looked at.
check_name_constraints_of_child(name_constraints, chain, cn_is_dns_name) ==
    LET nc == The(name_constraints)
    IN  IF ~IsSome(name_constraints) THEN "Ok"
        ELSE read_all(nc.trailing,
                 nc.permitted.result ?? nc.excluded.result
                 ?? check_names(chain[Len(chain)], nc.permitted.value,
                                nc.excluded.value, cn_is_dns_name))

\* chain is the sequence of subordinate certificates, the end entity first;
\* they are visited from the last one, the issuer's direct subordinate.
check_name_constraints(name_constraints, chain, cn_is_dns_name) ==
    LET nc == The(name_constraints)
    IN  IF ~IsSome(name_constraints) THEN "Ok"
        ELSE read_all(nc.trailing,
                 nc.permitted.result ?? nc.excluded.result
                 ?? FirstErr([i \in 1..Len(chain) |->
                        check_names(chain[Len(chain) + 1 - i], nc.permitted.value,
                                    nc.excluded.value, cn_is_dns_name)]))
=============================================================================
