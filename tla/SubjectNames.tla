---------------------------- MODULE SubjectNames ----------------------------
(***************************************************************************)
(* The names of a certificate, one by one: NameIterator and the four       *)
(* functions that search it (subject_name/verify.rs):                      *)
(*   "dns"          verify_cert_dns_name                                   *)
(*   "ip"           verify_cert_subject_name, for an IP address            *)
(*   "list"         list_cert_dns_names                                    *)
(*   "constraints"  the inner loop of check_name_constraints               *)
(*                                                                         *)
(* A presented DNS name also has as_reference: is_valid_dns_id accepts it  *)
(* as a reference, which may be absolute, with a wildcard allowed.         *)
(***************************************************************************)
EXTENDS NameConstraints, WellFormed

CONSTANT Queries   \* records [kind, cert] and reference, or permitted,
                   \* excluded and cn_is_dns_name

VARIABLES
    query,                   \* the call
    subject_alt_name,        \* NameIterator: what is left of the extension
    subject_directory_name,  \* NameIterator: the subject is still to be yielded
    subject_common_name,     \* NameIterator: so is its common name
    names,                   \* list_cert_dns_names: the names found so far
    result                   \* "pending", or the Result of the call

vars == << query, subject_alt_name, subject_directory_name, subject_common_name,
           names, result >>

\* The entries of subjectAltName.
Alternatives(cert) ==
    IF IsSome(cert.subject_alt_name) THEN The(cert.subject_alt_name) ELSE << >>

\* What is assumed of a call, besides what is assumed of all data: a name has the
\* form its type says; is_valid_dns_id accepts as a reference what it accepts as a
\* presented name; an address to look for has four or sixteen octets.
NameWellFormed(name) ==
    name.type = "DnsName" => /\ name.value.labels \in Seq(STRING)
                             /\ name.value.valid => name.value.as_reference

QueryWellFormed(q) ==
    LET names_of == Alternatives(q.cert)
    IN  /\ AllResults(names_of) /\ IsSeq(names_of)
        /\ \A i \in 1..Len(names_of) :
               names_of[i].result = "Ok" => NameWellFormed(names_of[i].value)
        /\ IsResult(q.cert.common_name)
        /\ q.kind \in {"dns", "ip", "list", "constraints"}
        /\ q.kind = "dns" => q.reference.labels \in Seq(STRING)
        /\ q.kind = "ip" => Len(q.reference) \in {4, 16}
        /\ q.kind = "constraints" =>
               /\ OptionalSubtrees(q.permitted) /\ OptionalSubtrees(q.excluded)
               /\ IsSome(q.excluded) =>
                      /\ IsSeq(The(q.excluded))
                      /\ \A i \in 1..Len(The(q.excluded)) :
                             LET base == The(q.excluded)[i].value
                             IN  base.type = "DnsName" => base.value.labels \in Seq(STRING)

ASSUME QueriesAssumption == \A q \in Queries : QueryWellFormed(q)

\* Which names NameIterator::new is told to consider.
\* Mutant of considers_subject: not if there are alternative names.
considers_subject_only(q) == q.kind # "ip" /\ ~IsSome(q.cert.subject_alt_name)

considers_subject(q) == q.kind # "ip"

considers_common_name(q) ==
    \/ q.kind = "list"
    \/ q.kind = "constraints" /\ q.cn_is_dns_name

Init ==
    /\ query \in Queries
    /\ subject_alt_name = query.cert.subject_alt_name
    /\ subject_directory_name = considers_subject(query)
    /\ subject_common_name = (considers_subject(query) /\ considers_common_name(query))
    /\ names = << >>
    /\ result = "pending"

\* What the search makes of a name: "pending" to go on, or the final Result.  A
\* malformed DNS name is passed over, except by name constraints.
visit(q, name) ==
    CASE q.kind = "dns" ->
           IF /\ name.type = "DnsName"
              /\ dns_matches_reference(name.value, q.reference) = Ok(TRUE)
           THEN "Ok" ELSE "pending"
      [] q.kind = "ip" ->
           IF name.type = "IpAddress" /\ ip_matches_reference(name.value, q.reference)
           THEN "Ok" ELSE "pending"
      [] q.kind = "list" -> "pending"
      [] q.kind = "constraints" ->
           LET r == check_presented_id_conforms_to_constraints(name, q.permitted, q.excluded)
           IN  IF r = "Ok" THEN "pending" ELSE r

\* list_cert_dns_names lists the DNS names that could be references.
\* Mutant: without the wildcards.
lists_no_wildcard(q, name) ==
    /\ q.kind = "list"
    /\ name.type = "DnsName"
    /\ name.value.as_reference
    /\ name.value.labels[1] # Wildcard

lists(q, name) ==
    q.kind = "list" /\ name.type = "DnsName" /\ name.value.as_reference

Visit(name) ==
    /\ result' = visit(query, name)
    /\ names' = IF lists(query, name) THEN Append(names, name.value) ELSE names

AlternativesLeft == IsSome(subject_alt_name) /\ The(subject_alt_name) # << >>

-----------------------------------------------------------------------------
(* NameIterator::next, one action for each way it can go.                  *)

AlternativeName ==
    /\ result = "pending" /\ AlternativesLeft
    /\ Head(The(subject_alt_name)).result = "Ok"
    /\ subject_alt_name' = Some(Tail(The(subject_alt_name)))
    /\ Visit(Head(The(subject_alt_name)).value)
    /\ UNCHANGED << query, subject_directory_name, subject_common_name >>

\* The error is final: nothing is yielded after it.
MalformedAlternativeName ==
    /\ result = "pending" /\ AlternativesLeft
    /\ Head(The(subject_alt_name)).result # "Ok"
    /\ result' = Head(The(subject_alt_name)).result
    /\ subject_alt_name' = None
    /\ subject_directory_name' = FALSE
    /\ subject_common_name' = FALSE
    /\ UNCHANGED << query, names >>

DirectoryName ==
    /\ result = "pending" /\ ~AlternativesLeft
    /\ subject_directory_name
    /\ subject_alt_name' = None
    /\ subject_directory_name' = FALSE
    /\ Visit([type |-> "DirectoryName", value |-> query.cert.subject])
    /\ UNCHANGED << query, subject_common_name >>

CommonName ==
    /\ result = "pending" /\ ~AlternativesLeft /\ ~subject_directory_name
    /\ subject_common_name
    /\ query.cert.common_name.result = "Ok" => IsSome(query.cert.common_name.value)
    /\ subject_alt_name' = None
    /\ subject_common_name' = FALSE
    /\ IF query.cert.common_name.result = "Ok"
       THEN Visit([type |-> "DnsName", value |-> The(query.cert.common_name.value)])
       ELSE result' = query.cert.common_name.result /\ UNCHANGED names
    /\ UNCHANGED << query, subject_directory_name >>

\* No name is left, or the subject has no common name: the search ends without
\* a match, which is what list_cert_dns_names and the constraints hope for.
NoMoreNames ==
    /\ result = "pending" /\ ~AlternativesLeft /\ ~subject_directory_name
    /\ subject_common_name => query.cert.common_name = Ok(None)
    /\ subject_alt_name' = None
    /\ subject_common_name' = FALSE
    /\ result' = IF query.kind \in {"dns", "ip"} THEN "CertNotValidForName" ELSE "Ok"
    /\ UNCHANGED << query, subject_directory_name, names >>

Done == result # "pending" /\ UNCHANGED vars

Next ==
    \/ AlternativeName \/ MalformedAlternativeName \/ DirectoryName \/ CommonName
    \/ NoMoreNames \/ Done

Spec == Init /\ [][Next]_vars

-----------------------------------------------------------------------------
\* A presented DNS name stands for a name: label by label, a leading wildcard
\* standing for one label.
StandsFor(presented, name) ==
    /\ Len(presented.labels) = Len(name.labels)
    /\ \A i \in DOMAIN name.labels :
           \/ presented.labels[i] = name.labels[i]
           \/ i = 1 /\ presented.labels[i] = Wildcard

\* The name lies in the subtree of a DNS constraint.
Inside(name, base) ==
    LET extra == Len(name.labels) - Len(base.labels)
    IN  /\ IF base.leading_dot THEN extra > 0 ELSE extra >= 0
        /\ \A i \in DOMAIN base.labels : base.labels[i] = name.labels[extra + i]

\* An alternative name with property P comes before any malformed one.
Presents(cert, P(_)) ==
    \E i \in DOMAIN Alternatives(cert) :
        /\ \A j \in 1..i : Alternatives(cert)[j].result = "Ok"
        /\ P(Alternatives(cert)[i].value)

PresentsDns(cert, reference) ==
    LET is(n) == n.type = "DnsName" /\ n.value.valid /\ StandsFor(n.value, reference)
    IN  Presents(cert, is)

PresentsIp(cert, reference) ==
    LET is(n) == n.type = "IpAddress" /\ n.value = reference
    IN  Presents(cert, is)

\* The DNS names that callers ask about.
References == {q.reference : q \in {r \in Queries : r.kind = "dns"}}

-----------------------------------------------------------------------------
\* verify_cert_dns_name and verify_cert_subject_name accept a certificate exactly
\* if one of its alternative names stands for the name; the subject and its
\* common name never do, and other names, malformed DNS names included, do not
\* stand in the way.
VerifiedByAlternativeName ==
    /\ query.kind = "dns" /\ result # "pending" =>
           (result = "Ok" <=> PresentsDns(query.cert, query.reference))
    /\ query.kind = "ip" /\ result # "pending" =>
           (result = "Ok" <=> PresentsIp(query.cert, query.reference))

\* list_cert_dns_names and verify_cert_dns_name go together: whatever name the
\* certificate would be accepted for, a listed name stands for it.
ListCoversVerified ==
    query.kind = "list" /\ result = "Ok" =>
        \A r \in References :
            PresentsDns(query.cert, r) => \E i \in DOMAIN names : StandsFor(names[i], r)

\* The names of one certificate, visited through NameIterator, get the verdict
\* that path building uses for them.
ComputesCheckNames ==
    query.kind = "constraints" /\ result # "pending" =>
        result = check_names(query.cert, query.permitted, query.excluded,
                             query.cn_is_dns_name)

\* Name constraints and name verification go together: a certificate that the
\* excluded subtrees of an issuer let pass is not accepted by verify_cert_dns_name
\* for any name in them, by way of a wildcard or otherwise.
ExcludedNamesNeverVerify ==
    query.kind = "constraints" /\ result = "Ok" /\ IsSome(query.excluded) =>
        \A i \in DOMAIN The(query.excluded), r \in References :
            LET base == The(query.excluded)[i].value
            IN  base.type = "DnsName" /\ Inside(r, base.value)
                    => ~PresentsDns(query.cert, r)
=============================================================================
