------------------------------- MODULE MCPaths -------------------------------
(***************************************************************************)
(* Instances of PathBuilding for TLC: small sets of calls of build_chain.  *)
(***************************************************************************)
EXTENDS PathRefinement

algs == << [signature_alg |-> "sha256rsa", public_key_alg |-> "rsa"],
           [signature_alg |-> "sha256ecdsa", public_key_alg |-> "p256"] >>

spki(key) == Ok([algorithm |-> "rsa", key |-> key])

SignedBy(key) == [algorithm |-> "sha256rsa", signer |-> key]

Valid(from, to) == [not_before |-> Ok(from), not_after |-> Ok(to), trailing |-> FALSE]

CA == Some([ca |-> Ok(TRUE), path_len |-> None, trailing |-> FALSE])

CAWithPathLen(n) == Some([ca |-> Ok(TRUE), path_len |-> Some(Ok(n)), trailing |-> FALSE])

\* A well-formed certificate that every check accepts at time 5.
Cert(subject, key, issuer, signer) ==
    [serial |-> subject, subject |-> subject, issuer |-> issuer,
     spki |-> spki(key), signed_data |-> SignedBy(signer),
     validity |-> Valid(0, 9), basic_constraints |-> CA, eku |-> None,
     key_usage |-> None, name_constraints |-> None, subject_alt_name |-> None,
     common_name |-> Ok(None), crl_distribution_points |-> None]

EndEntity == [Cert("E", "kE", "A", "kA") EXCEPT !.basic_constraints = None]

Anchor(subject, key) ==
    [subject |-> subject, spki |-> spki(key), name_constraints |-> None]

Call(cert, intermediates, anchors) ==
    [cert |-> cert, time |-> 5, eku |-> server_auth, supported_sig_algs |-> algs,
     trust_anchors |-> anchors, intermediate_certs |-> intermediates,
     revocation |-> None]

\* Sequences over S of length at most n.
SeqsUpTo(S, n) == UNION {[1..k -> S] : k \in 0..n}

-----------------------------------------------------------------------------
(* Search: certificates that issue each other in circles, cross-signed     *)
(* and renewed certificates, wrong keys, expired and malformed ones.       *)

SearchPool ==
    { Ok(Cert("A", "kA", "B", "kB")),      \* A below B
      Ok(Cert("B", "kB", "A", "kA")),      \* and B below A: a circle
      Ok(Cert("A", "kA", "R", "kR")),      \* A below the root
      Ok(Cert("B", "kB", "R", "kR")),      \* B below the root
      Ok(Cert("A", "kX", "R", "kR")),      \* another key of A
      Ok(Cert("B", "kB", "E", "kE")),      \* issued by the end entity
      Ok([Cert("A", "kA", "R", "kR") EXCEPT !.validity = Valid(0, 3)]),
      Ok([Cert("B", "kB", "R", "kR") EXCEPT !.basic_constraints = None]),
      Err("BadDer") }

\* The end entities: below A, below the root, and an impostor of the root's.
SearchEntities ==
    { EndEntity, [EndEntity EXCEPT !.issuer = "R", !.signed_data = SignedBy("kX")] }

\* Lists of two intermediates with several lists of anchors, of three with one anchor.
SearchInputs ==
    {Call(EndEntity, i, << Anchor("R", "kR") >>) : i \in SeqsUpTo(SearchPool, 3)}
    \cup
    {Call(e, i, a) : e \in SearchEntities, i \in SeqsUpTo(SearchPool, 2),
         a \in {<< >>, << Anchor("R", "kX"), Anchor("R", "kR") >>,
                << Anchor("R", "kR"), Anchor("A", "kA") >>}}

-----------------------------------------------------------------------------
(* Places: validity, basic constraints, path length and key purpose, each  *)
(* at its boundary, in every position of the path E - A - B - C - R.       *)

Validities ==
    {Valid(0, 9), Valid(5, 5), Valid(6, 9), Valid(0, 4), Valid(6, 4),
     [Valid(0, 9) EXCEPT !.trailing = TRUE],
     [Valid(0, 9) EXCEPT !.not_after = Err("BadDerTime")]}

Constraints ==
    {None, CA, CAWithPathLen(0), CAWithPathLen(1),
     Some([ca |-> Ok(FALSE), path_len |-> Some(Ok(0)), trailing |-> FALSE]),
     Some([ca |-> Ok(FALSE), path_len |-> None, trailing |-> TRUE]),
     Some([ca |-> Err("BadDer"), path_len |-> None, trailing |-> FALSE]),
     Some([ca |-> Ok(TRUE), path_len |-> Some(Err("BadDer")), trailing |-> FALSE])}

Server == Ok(EKU_SERVER_AUTH)
Client == Ok(EKU_CLIENT_AUTH)

Purposes ==
    {None, Some(<< >>), Some(<< Server >>), Some(<< Client, Server >>), Some(<< Client >>),
     Some(<< Server, Err("BadDer") >>), Some(<< Err("BadDer"), Server >>)}

PlaceVariants(c) ==
    {[c EXCEPT !.validity = v] : v \in Validities}
    \cup {[c EXCEPT !.basic_constraints = b] : b \in Constraints}
    \cup {[c EXCEPT !.eku = p] : p \in Purposes}

PathLenVariants(c) == {[c EXCEPT !.basic_constraints = b] :
                           b \in {CA, CAWithPathLen(0), CAWithPathLen(1)}}

CertA == Cert("A", "kA", "B", "kB")
CertB == Cert("B", "kB", "C", "kC")
CertC == Cert("C", "kC", "R", "kR")
Root  == << Anchor("R", "kR") >>

\* End entity, intermediates and usage.
Places ==
    {<< e, << Ok(a), Ok(CertB), Ok(CertC) >>, u >> :
         e \in PlaceVariants(EndEntity), a \in PlaceVariants(CertA),
         u \in {server_auth, client_auth, required(EKU_SERVER_AUTH)}}
    \cup
    {<< EndEntity, << Ok(c), Ok(b), Ok(a) >>, server_auth >> :
         a \in PathLenVariants(CertA), b \in PathLenVariants(CertB),
         c \in PathLenVariants(CertC)}
    \cup
    {<< EndEntity, << Ok(CertB), Ok(a), Ok(CertA), Ok(CertC) >>, server_auth >> :
         a \in PlaceVariants(CertA)}

PlaceInputs == {[Call(p[1], p[2], Root) EXCEPT !.eku = p[3]] : p \in Places}

-----------------------------------------------------------------------------
(* Name constraints of A, of B and of the trust anchor on the names of the *)
(* end entity and of A.                                                    *)

Dns(labels) == [type |-> "DnsName", value |-> [valid |-> TRUE, labels |-> labels]]
BadDns      == [type |-> "DnsName", value |-> [valid |-> FALSE, labels |-> << "x" >>]]
Ip(octets)  == [type |-> "IpAddress", value |-> octets]
Mail        == [type |-> "Unsupported", value |-> 1]
Uri(u)      == [type |-> "Uri", value |-> u]
Directory   == [type |-> "DirectoryName", value |-> "D"]

DnsBase(labels, dot) ==
    Ok([type |-> "DnsName", value |-> [valid |-> TRUE, labels |-> labels,
                                       leading_dot |-> dot]])

BadDnsBase == Ok([type |-> "DnsName", value |-> [valid |-> FALSE, labels |-> << "x" >>,
                                                 leading_dot |-> FALSE]])

AltNames ==
    {None, Some(<< >>),
     Some(<< Ok(Dns(<< "a", "c" >>)) >>),
     Some(<< Ok(Dns(<< "w", "a", "c" >>)), Ok(Mail) >>),
     Some(<< Ok(Dns(<< "*", "a", "c" >>)) >>),
     Some(<< Ok(Ip(<< 10, 1, 2, 3 >>)), Ok(Uri("u")) >>),
     Some(<< Ok(Ip(<< 10, 1, 2 >>)) >>),
     Some(<< Ok(BadDns), Ok(Dns(<< "a", "c" >>)) >>),
     Some(<< Ok(Dns(<< "b", "c" >>)), Err("BadDer") >>)}

Subtrees ==
    {<< DnsBase(<< "a", "c" >>, FALSE) >>, << DnsBase(<< "a", "c" >>, TRUE) >>,
     << DnsBase(<< >>, FALSE) >>, << DnsBase(<< "w", "a", "c" >>, FALSE) >>,
     << DnsBase(<< "b", "c" >>, FALSE), DnsBase(<< "w", "a", "c" >>, TRUE) >>,
     << Ok(Ip(<< 10, 1, 0, 0, 255, 255, 0, 0 >>)) >>,
     << Ok(Ip(<< 10, 0, 0, 0, 255, 254, 0, 0 >>)), DnsBase(<< "b", "c" >>, FALSE) >>,
     << Ok(Ip(<< 11, 1, 0, 0, 255, 240, 0, 0 >>)) >>,
     << Ok(Ip(<< 10, 1, 0, 0, 255, 0, 255, 0 >>)) >>,
     << Ok(Ip(<< 10, 1, 0, 0, 255, 250, 0, 0 >>)) >>,
     << Ok(Ip(<< 11, 1, 0, 0, 255, 0, 255, 0 >>)) >>,
     << Ok(Ip(<< 10, 1, 255, 255 >>)) >>, << Ok(Ip([i \in 1..32 |-> 0])) >>,
     << Ok(Mail) >>, << Ok(Directory) >>, << BadDnsBase >>, << Err("BadDer") >>, << >>}

NameConstraint(permitted, excluded) ==
    Some([permitted |-> Ok(permitted), excluded |-> Ok(excluded), trailing |-> FALSE])

NameConstraintSet ==
    {NameConstraint(Some(s), None) : s \in Subtrees}
    \cup {NameConstraint(None, Some(s)) : s \in Subtrees}
    \cup {NameConstraint(Some(<< DnsBase(<< "c" >>, FALSE) >>), Some(s)) : s \in Subtrees}
    \cup {Some([permitted |-> Ok(None), excluded |-> Err("BadDer"), trailing |-> FALSE]),
          Some([permitted |-> Ok(None), excluded |-> Ok(None), trailing |-> TRUE])}

\* The constraints are A's, B's or the anchor's; the names are E's or A's.
NameCall(e, a, nc, place) ==
    LET constrain(c, p) == [c EXCEPT !.name_constraints = IF p = place THEN nc ELSE None]
    IN  Call(e, << Ok(constrain(Cert("B", "kB", "R", "kR"), "B")), Ok(constrain(a, "A")) >>,
             << constrain(Anchor("R", "kR"), "R") >>)

\* End entity and A, one of which has names.
Named ==
    {<< [EndEntity EXCEPT !.subject_alt_name = n], CertA >> : n \in AltNames}
    \cup {<< EndEntity, [CertA EXCEPT !.subject_alt_name = n] >> : n \in AltNames}
    \cup {<< [EndEntity EXCEPT !.common_name = cn], CertA >> :
              cn \in {Ok(Some(Dns(<< "a", "c" >>).value)), Ok(Some(BadDns.value)),
                      Err("TrailingData")}}

NameInputs ==
    {NameCall(n[1], n[2], nc, place) :
         n \in Named, nc \in NameConstraintSet, place \in {"A", "B", "R"}}

-----------------------------------------------------------------------------
(* Revocation on the path E - A - R: lists of CRLs of A and of R, scopes,  *)
(* distribution points, key usages and policies.                           *)

Crl(issuer, key, revoked) ==
    [issuer |-> issuer, issuing_distribution_point |-> None,
     signed_data |-> SignedBy(key), revoked |-> revoked]

Idp(user_only, ca_only, names) ==
    Some([only_contains_user_certs |-> user_only, only_contains_ca_certs |-> ca_only,
          names |-> names])

CrlPool ==
    {Crl("A", "kA", << >>), Crl("A", "kA", << Ok("F"), Ok("E") >>), Crl("A", "kX", << >>),
     Crl("A", "kA", << Err("BadDer"), Ok("E") >>),
     [Crl("A", "kA", << >>) EXCEPT !.signed_data.algorithm = "md5rsa"],
     Crl("R", "kR", << >>), Crl("R", "kR", << Ok("A") >>),
     [Crl("A", "kA", << >>) EXCEPT
         !.issuing_distribution_point = Idp(TRUE, FALSE, << Ok(Directory), Ok(Uri("u")) >>)],
     [Crl("A", "kA", << Ok("E") >>) EXCEPT
         !.issuing_distribution_point = Idp(FALSE, FALSE, << Ok(Uri("v")) >>)],
     [Crl("R", "kR", << >>) EXCEPT
         !.issuing_distribution_point = Idp(FALSE, TRUE, << Ok(Uri("u")) >>)]}

Point(full_name) == [crl_issuer |-> FALSE, reasons |-> FALSE, full_name |-> full_name]

DistributionPoints ==
    {None, Some(<< >>),
     Some(<< Ok(Point(Some(<< Ok(Uri("w")), Ok(Uri("u")) >>))) >>),
     Some(<< Ok(Point(Some(<< Ok(Uri("v")) >>))), Err("BadDer") >>),
     Some(<< Ok(Point(None)) >>), Some(<< Err("BadDer") >>),
     Some(<< Ok([Point(Some(<< Ok(Uri("u")) >>)) EXCEPT !.reasons = TRUE]) >>),
     Some(<< Ok([Point(Some(<< Ok(Uri("u")) >>)) EXCEPT !.crl_issuer = TRUE]) >>)}

KeyUsages == {None, Some(Ok({5, 6})), Some(Ok({5})), Some(Err("BadDer"))}

Policies == [crls : {l \in SeqsUpTo(CrlPool, 2) : l # << >>},
             depth : {"Chain", "EndEntity"}, status_requirement : {"Allow", "Deny"}]

RevocationCall(dps, ku, policy) ==
    [Call([EndEntity EXCEPT !.crl_distribution_points = dps],
          << Ok([Cert("A", "kA", "R", "kR") EXCEPT !.key_usage = ku]) >>, Root)
        EXCEPT !.revocation = Some(policy)]

RevocationInputs ==
    {RevocationCall(d[1], d[2], p) : p \in Policies,
         d \in (DistributionPoints \X {None}) \cup ({None} \X KeyUsages)}

-----------------------------------------------------------------------------
(* Budget: more signatures than the budget allows, from several anchors    *)
(* and several certificates of the same subject.                           *)

BudgetPool ==
    { Ok(Cert("A", "kA", "R", "kR")), Ok(Cert("A", "kX", "R", "kX")),
      Ok(Cert("A", "kA", "B", "kB")), Ok(Cert("B", "kB", "R", "kR")),
      Ok(Cert("B", "kB", "C", "kC")), Ok(Cert("C", "kC", "R", "kR")),
      Ok([Cert("A", "kA", "R", "kR") EXCEPT !.validity = Valid(0, 3)]) }

BudgetInputs ==
    {Call(EndEntity, i, a) : i \in SeqsUpTo(BudgetPool, 3),
         a \in {<< Anchor("R", "kR") >>, << Anchor("R", "kX"), Anchor("R", "kR") >>,
                << Anchor("A", "kX"), Anchor("R", "kX"), Anchor("R", "kR") >>,
                << Anchor("A", "kX"), Anchor("A", "kB"), Anchor("A", "kC"),
                   Anchor("A", "kR"), Anchor("R", "kR") >>}}

-----------------------------------------------------------------------------
(* Depth: chains of three CAs, and of four, which is one too many, in      *)
(* every order.                                                            *)

DepthPool ==
    { Ok(CertA), Ok(CertB), Ok(CertC),
      Ok(Cert("C", "kC", "D", "kD")), Ok(Cert("D", "kD", "R", "kR")) }

DepthInputs ==
    {Call(EndEntity, i, Root) :
         i \in {l \in [1..4 -> DepthPool] : \A j, k \in 1..4 : l[j] = l[k] => j = k}}

-----------------------------------------------------------------------------

\* For the search.
ManyPaths == SearchInputs \cup BudgetInputs \cup DepthInputs

\* All of them.  The union of pairs is one that TLC need not form.
MCInputs == {p[2] : p \in UNION {{1} \X ManyPaths, {2} \X PlaceInputs,
                                 {3} \X NameInputs, {4} \X RevocationInputs}}

\* The reference of PathSpec is about all of these calls.
ASSUME PathsAreRegular == \A in \in MCInputs : Reference!Regular(in)
=============================================================================
