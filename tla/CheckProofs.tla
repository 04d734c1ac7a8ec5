---------------------------- MODULE CheckProofs ----------------------------
(***************************************************************************)
(* Every check that path building calls yields a verdict, for every        *)
(* well-formed argument: Ok, or an Error other than the fatal one, which   *)
(* only the budget of check_signatures gives.  And, for the proofs about   *)
(* the parsers of certificates and CRLs, what the shared readers take.     *)
(***************************************************************************)
EXTENDS NameConstraints, Revocation, X509, WellFormed,
        TLAPS, WellFoundedInduction, NaturalsInduction

-----------------------------------------------------------------------------
(* Results.                                                                *)

\* What a check may yield: Ok or an Error, but never the fatal one.
Verdicts == Results \ {Fatal}

\* A nonempty set of indices has a least element, which Min finds.
LEMMA MinOfIndices ==
    ASSUME NEW S \in SUBSET Nat, S # {}
    PROVE  Min(S) \in S /\ \A y \in S : Min(S) <= y
<1>1. IsWellFoundedOn(OpToRel(<, Nat), Nat)
  BY NatLessThanWellFounded
<1>2. \E x \in S : \A y \in S : ~(<<y, x>> \in OpToRel(<, Nat))
  BY <1>1, WFMin
<1>3. OpToRel(<, Nat) = {p \in Nat \X Nat : p[1] < p[2]}
  BY Zenon DEF OpToRel
<1>4. PICK x \in S : \A y \in S : ~(<<y, x>> \in {p \in Nat \X Nat : p[1] < p[2]})
  BY <1>2, <1>3, Zenon
<1>5. ASSUME NEW y \in S PROVE x <= y
  <2>1. <<y, x>> \in Nat \X Nat
    OBVIOUS
  <2>2. ~(<<y, x>>[1] < <<y, x>>[2])
    BY <1>4, <2>1, Zenon
  <2>3. <<y, x>>[1] = y /\ <<y, x>>[2] = x
    OBVIOUS
  <2> QED
    BY <2>2, <2>3
<1> QED
  BY <1>5 DEF Min

\* A set of indices has a greatest one.
LEMMA GreatestIndex ==
    ASSUME NEW n \in Nat, NEW I \in SUBSET (1..n), I # {}
    PROVE  \E k \in I : \A i \in I : i <= k
<1> DEFINE T == {n - i : i \in I}
<1>1. T \in SUBSET Nat /\ T # {}
  <2>1. \A i \in I : n - i \in Nat
    OBVIOUS
  <2>2. PICK i \in I : TRUE
    OBVIOUS
  <2>3. n - i \in T
    OBVIOUS
  <2> QED
    BY <2>1, <2>3
<1>2. Min(T) \in T /\ \A y \in T : Min(T) <= y
  <2> HIDE DEF T
  <2> QED
    BY <1>1, MinOfIndices
<1>3. PICK k \in I : Min(T) = n - k
  BY <1>2
<1>4. \A i \in I : n - k <= n - i
  BY <1>2, <1>3
<1>5. \A i \in I : i \in Int /\ k \in Int
  OBVIOUS
<1> QED
  BY <1>4, <1>5

\* The least index of a set is the one that Min finds.
LEMMA FirstIsMin ==
    ASSUME NEW n \in Nat, NEW I \in SUBSET (1..n), NEW k \in I, \A i \in I : k <= i
    PROVE  Min(I) = k
<1>1. \A x \in I : x \in Int
  OBVIOUS
<1>2. \A x \in I : (\A y \in I : x <= y) => x = k
  BY <1>1
<1> QED
  BY <1>2 DEF Min

\* Every rank is a natural number.
LEMMA RankIsNat == \A e \in Error : rank[e] \in Nat
  BY DEF Error, rank

\* most_specific chooses one of its arguments, of the greater rank.
LEMMA MostSpecificChooses ==
    ASSUME NEW a \in Error, NEW b \in Error
    PROVE  /\ most_specific(a, b) \in {a, b}
           /\ rank[a] <= rank[most_specific(a, b)]
           /\ rank[b] <= rank[most_specific(a, b)]
  BY RankIsNat DEF most_specific

\* A loop stops at its first failure.
LEMMA FirstErrIsFirst == \A v : FirstErr(v) = FirstFailure(v)
<1> TAKE v
<1>1. {FirstFailure(w) : w \in {v}} = {FirstFailure(v)}
  OBVIOUS
<1> QED
  BY <1>1 DEF FirstErr

\* A sequence of results has a result as its first failure; there is none
\* exactly if all of them are Ok.
LEMMA FirstErrIsResult ==
    ASSUME NEW n \in Nat, NEW v, DOMAIN v = 1..n, \A i \in 1..n : v[i] \in Verdicts
    PROVE  FirstErr(v) \in Verdicts
<1> DEFINE failures == {i \in DOMAIN v : v[i] # "Ok"}
<1>1. failures \in SUBSET Nat
  OBVIOUS
<1>2. CASE failures = {}
  BY <1>2, FirstErrIsFirst DEF FirstFailure, Verdicts, Results, Fatal
<1>3. CASE failures # {}
  <2>1. Min(failures) \in failures
    BY <1>1, <1>3, MinOfIndices
  <2> QED
    BY <2>1, <1>3, FirstErrIsFirst DEF FirstFailure
<1> QED
  BY <1>2, <1>3

\* A loop that stops at the first failure.
LEMMA FirstErrStops ==
    ASSUME NEW n \in Nat, NEW v, DOMAIN v = 1..n, NEW k \in 1..n, v[k] # "Ok",
           \A j \in 1..(k - 1) : v[j] = "Ok"
    PROVE  FirstErr(v) = v[k]
<1> DEFINE failures == {i \in DOMAIN v : v[i] # "Ok"}
<1>1. failures \in SUBSET (1..n) /\ k \in failures
  OBVIOUS
<1>2. \A i \in failures : k <= i
  <2>1. \A i \in failures : i \in 1..n /\ ~(i \in 1..(k - 1))
    OBVIOUS
  <2> QED
    BY <2>1
<1>3. Min(failures) = k
  <2> HIDE DEF failures
  <2> QED
    BY <1>1, <1>2, FirstIsMin
<1> QED
  BY <1>1, <1>3, FirstErrIsFirst DEF FirstFailure

\* A loop that meets no failure.
LEMMA FirstErrPasses ==
    ASSUME NEW n \in Nat, NEW v, DOMAIN v = 1..n
    PROVE  FirstErr(v) = "Ok" <=> \A i \in 1..n : v[i] = "Ok"
<1> DEFINE failures == {i \in DOMAIN v : v[i] # "Ok"}
<1>1. failures \in SUBSET Nat
  OBVIOUS
<1>2. CASE failures = {}
  BY <1>2, FirstErrIsFirst DEF FirstFailure
<1>3. CASE failures # {}
  <2>1. Min(failures) \in failures
    BY <1>1, <1>3, MinOfIndices
  <2> QED
    BY <2>1, <1>3, FirstErrIsFirst DEF FirstFailure
<1> QED
  BY <1>2, <1>3

\* SelectInSeq returns an index of the sequence or 0.
LEMMA OptionalIndex ==
    ASSUME NEW n \in Nat, NEW I \in SUBSET (1..n)
    PROVE  I # {} => Min(I) \in I
  BY MinOfIndices

\* Signature verification yields a result.
LEMMA VerifySignedDataResult ==
    ASSUME NEW algs, NEW spki, IsResult(spki), NEW signed
    PROVE  verify_signed_data(algs, spki, signed) \in Verdicts
<1>1. \A alg : verify_signature(alg, spki, signed) \in Verdicts
  BY DEF verify_signature, IsResult, Verdicts, Results, Error, rank, Fatal, ??, Require
<1> QED
  BY <1>1 DEF verify_signed_data, Verdicts, Results, Error, rank, Fatal

\* The checks of one certificate yield a result.
LEMMA CheckEkuResult ==
    ASSUME NEW eku, NEW extension, IsSome(extension) => AllResults(The(extension))
    PROVE  check_eku(eku, extension) \in Verdicts
<1> DEFINE oids == The(extension)
           stops(o) == o.result # "Ok" \/ key_purpose_id_equals(eku, o.value)
           I == {i \in 1..Len(oids) : stops(oids[i])}
           k == SelectInSeq(oids, stops)
<1>1. CASE ~IsSome(extension)
  BY <1>1 DEF check_eku, Require, Verdicts, Results, Error, rank, Fatal
<1>2. CASE IsSome(extension)
  <2>1. k = IF I # {} THEN Min(I) ELSE 0
    BY DEF SelectInSeq
  <2>2. k # 0 => oids[k].result \in Verdicts
    <3>1. Len(oids) \in Nat /\ I \in SUBSET (1..Len(oids))
      BY <1>2 DEF AllResults
    <3>2. I # {} => Min(I) \in 1..Len(oids)
      BY <3>1, OptionalIndex
    <3> HIDE DEF I, k
    <3> QED
      BY <1>2, <2>1, <3>2 DEF AllResults, IsResult, Verdicts
  <2>3. check_eku(eku, extension) =
            Require(oids # << >>, "BadDer") ?? Require(k # 0, "RequiredEkuNotFound")
            ?? oids[k].result
    BY <1>2 DEF check_eku
  <2> HIDE DEF k
  <2> QED
    BY <2>2, <2>3 DEF Require, ??, Verdicts, Results, Error, rank, Fatal
<1> QED
  BY <1>1, <1>2

LEMMA CheckValidityResult ==
    ASSUME NEW c, CertWellFormed(c), NEW time
    PROVE  check_validity(c.validity, time) \in Verdicts
  BY DEF CertWellFormed, IsResult, check_validity, Require, ??,
         Verdicts, Results, Error, rank, Fatal

LEMMA CheckBasicConstraintsResult ==
    ASSUME NEW c, CertWellFormed(c), NEW as_ca, NEW n
    PROVE  check_basic_constraints(c.basic_constraints, as_ca, n) \in Verdicts
  BY DEF CertWellFormed, IsResult, check_basic_constraints, parse_basic_constraints,
         Require, ??, Verdicts, Results, Error, rank, Fatal

LEMMA ReadAllResult ==
    ASSUME NEW trailing, NEW r \in Verdicts
    PROVE  read_all(trailing, r) \in Verdicts
  BY DEF read_all, Require, ??, Verdicts, Results, Error, rank, Fatal

LEMMA CheckPropertiesResult ==
    ASSUME NEW c, CertWellFormed(c), NEW time, NEW as_ca, NEW n, NEW eku
    PROVE  check_issuer_independent_properties(c, time, as_ca, n, eku) \in Verdicts
<1>1. check_eku(eku, c.eku) \in Verdicts
  BY CheckEkuResult DEF CertWellFormed
<1>2. \A t : read_all(t, check_validity(c.validity, time)) \in Verdicts
  BY CheckValidityResult, ReadAllResult
<1>3. \A t : read_all(t, check_basic_constraints(c.basic_constraints, as_ca, n)) \in Verdicts
  BY CheckBasicConstraintsResult, ReadAllResult
<1> QED
  BY <1>1, <1>2, <1>3 DEF check_issuer_independent_properties, ??

-----------------------------------------------------------------------------
(* Name constraints yield a result.                                        *)

Outcomes == Verdicts \cup {"skip", "match", "mismatch"}

LEMMA SubtreeOutcome ==
    ASSUME NEW name, NEW subtree, IsResult(subtree), NEW excluded
    PROVE  subtree_outcome(name, subtree, excluded) \in Outcomes
<1>1. dns_matches_constraint(name.value, subtree.value.value).result \in Verdicts
  BY DEF dns_matches_constraint, Ok, Err, Verdicts, Results, Error, rank, Fatal
<1>2. ip_matches_constraint(name.value, subtree.value.value).result \in Verdicts
  BY DEF ip_matches_constraint, Ok, Err, Verdicts, Results, Error, rank, Fatal
<1> QED
  BY <1>1, <1>2
     DEF subtree_outcome, IsResult, Outcomes, Verdicts, Results, Error, rank, Fatal

LEMMA CheckSubtreesResult ==
    ASSUME NEW name, NEW subtrees, AllResults(subtrees), NEW excluded
    PROVE  check_subtrees(name, subtrees, excluded) \in Verdicts
<1> DEFINE n == Len(subtrees)
           outcome == [i \in 1..n |-> subtree_outcome(name, subtrees[i], excluded)]
           said(o) == \E i \in 1..n : outcome[i] = o
           verdict == [i \in 1..n |->
               IF \/ outcome[i] \in {"skip", "mismatch"}
                  \/ outcome[i] = "match" /\ ~excluded THEN "Ok"
               ELSE IF outcome[i] = "match" THEN "NameConstraintViolation"
               ELSE outcome[i]]
<1>1. \A i \in 1..n : outcome[i] \in Outcomes
  BY SubtreeOutcome DEF AllResults
<1>2. \A i \in 1..n : verdict[i] \in Verdicts
  <2> HIDE DEF outcome
  <2> QED
    BY <1>1 DEF Outcomes, Verdicts, Results, Error, rank, Fatal
<1>3. FirstErr(verdict) \in Verdicts
  <2>1. n \in Nat /\ DOMAIN verdict = 1..n
    BY DEF AllResults
  <2> HIDE DEF verdict, n
  <2> QED
    BY <1>2, <2>1, FirstErrIsResult
<1>4. check_subtrees(name, subtrees, excluded) =
        FirstErr(verdict) ?? Require(~excluded /\ said("mismatch") => said("match"),
                                     "NameConstraintViolation")
  BY DEF check_subtrees
<1> HIDE DEF verdict, said
<1> QED
  BY <1>3, <1>4 DEF Require, ??, Verdicts, Results, Error, rank, Fatal

LEMMA ConformsResult ==
    ASSUME NEW name, NEW permitted, NEW excluded,
           OptionalSubtrees(permitted), OptionalSubtrees(excluded)
    PROVE  check_presented_id_conforms_to_constraints(name, permitted, excluded) \in Verdicts
<1>1. IsSome(permitted) => check_subtrees(name, The(permitted), FALSE) \in Verdicts
  BY CheckSubtreesResult DEF OptionalSubtrees
<1>2. IsSome(excluded) => check_subtrees(name, The(excluded), TRUE) \in Verdicts
  BY CheckSubtreesResult DEF OptionalSubtrees
<1> QED
  BY <1>1, <1>2 DEF check_presented_id_conforms_to_constraints, ??, Verdicts, Results, Fatal

LEMMA CheckNamesResult ==
    ASSUME NEW c, CertWellFormed(c), NEW permitted, NEW excluded, NEW cn_is_dns_name,
           OptionalSubtrees(permitted), OptionalSubtrees(excluded)
    PROVE  check_names(c, permitted, excluded, cn_is_dns_name) \in Verdicts
<1> DEFINE conforms(type, value) ==
               check_presented_id_conforms_to_constraints(
                   [type |-> type, value |-> value], permitted, excluded)
           san == IF IsSome(c.subject_alt_name) THEN The(c.subject_alt_name) ELSE << >>
           cn == c.common_name
           verdict == [i \in 1..Len(san) |->
               san[i].result ?? conforms(san[i].value.type, san[i].value.value)]
           last == IF ~cn_is_dns_name THEN "Ok"
                   ELSE cn.result ?? (IF IsSome(cn.value)
                                      THEN conforms("DnsName", The(cn.value)) ELSE "Ok")
<1>1. \A type, value : conforms(type, value) \in Verdicts
  BY ConformsResult
<1> HIDE DEF conforms
<1>2. AllResults(san)
  BY DEF CertWellFormed, AllResults
<1> HIDE DEF san
<1>3. FirstErr(verdict) \in Verdicts
  <2>1. \A i \in 1..Len(san) : verdict[i] \in Verdicts
    BY <1>1, <1>2 DEF AllResults, IsResult, Verdicts, ??
  <2>2. Len(san) \in Nat /\ DOMAIN verdict = 1..Len(san)
    BY <1>2 DEF AllResults
  <2> HIDE DEF verdict
  <2> QED
    BY <2>1, <2>2, FirstErrIsResult
<1>4. last \in Verdicts
  BY <1>1 DEF CertWellFormed, IsResult, ??, Verdicts, Results, Fatal
<1>5. check_names(c, permitted, excluded, cn_is_dns_name) =
        FirstErr(verdict) ?? conforms("DirectoryName", c.subject) ?? last
  BY DEF check_names, conforms, san
<1> HIDE DEF verdict, last
<1> QED
  BY <1>1, <1>3, <1>4, <1>5 DEF ??

LEMMA CheckNameConstraintsResult ==
    ASSUME NEW o, ConstraintsWellFormed(o), NEW chain, NEW cn_is_dns_name,
           Len(chain) \in Nat, \A i \in 1..Len(chain) : CertWellFormed(chain[i])
    PROVE  check_name_constraints(o, chain, cn_is_dns_name) \in Verdicts
<1> DEFINE nc == The(o)
           verdict == [i \in 1..Len(chain) |->
               check_names(chain[Len(chain) + 1 - i], nc.permitted.value,
                           nc.excluded.value, cn_is_dns_name)]
<1>1. CASE ~IsSome(o)
  BY <1>1 DEF check_name_constraints, Verdicts, Results, Fatal
<1>2. CASE IsSome(o)
  <2>1. IsResult(nc.permitted) /\ IsResult(nc.excluded)
    BY <1>2 DEF ConstraintsWellFormed, SubtreesWellFormed
  <2>2. ASSUME nc.permitted.result = "Ok", nc.excluded.result = "Ok"
        PROVE  FirstErr(verdict) \in Verdicts
    <3>1. OptionalSubtrees(nc.permitted.value) /\ OptionalSubtrees(nc.excluded.value)
      BY <1>2, <2>2 DEF ConstraintsWellFormed, SubtreesWellFormed
    <3>2. \A i \in 1..Len(chain) : Len(chain) + 1 - i \in 1..Len(chain)
      OBVIOUS
    <3>3. \A i \in 1..Len(chain) : verdict[i] \in Verdicts
      BY <3>1, <3>2, CheckNamesResult
    <3>4. DOMAIN verdict = 1..Len(chain)
      OBVIOUS
    <3> HIDE DEF verdict
    <3> QED
      BY <3>3, <3>4, FirstErrIsResult
  <2>3. check_name_constraints(o, chain, cn_is_dns_name) =
          read_all(nc.trailing, nc.permitted.result ?? nc.excluded.result ?? FirstErr(verdict))
    BY <1>2 DEF check_name_constraints
  <2>4. (nc.permitted.result ?? nc.excluded.result ?? FirstErr(verdict)) \in Verdicts
    <3> HIDE DEF verdict
    <3> QED
      BY <2>1, <2>2 DEF ??, IsResult, Verdicts
  <2> HIDE DEF verdict
  <2> QED
    BY <2>3, <2>4, ReadAllResult
<1> QED
  BY <1>1, <1>2

-----------------------------------------------------------------------------
(* Revocation checking yields a result.                                    *)

LEMMA FindSerialResult ==
    ASSUME NEW crl, AllResults(crl.revoked), NEW serial
    PROVE  find_serial(crl, serial).result \in Verdicts
<1> DEFINE stops(entry) == entry.result # "Ok" \/ entry.value = serial
           I == {i \in 1..Len(crl.revoked) : stops(crl.revoked[i])}
           k == SelectInSeq(crl.revoked, stops)
<1>1. k = IF I # {} THEN Min(I) ELSE 0
  BY DEF SelectInSeq
<1>2. Len(crl.revoked) \in Nat /\ I \in SUBSET (1..Len(crl.revoked))
  BY DEF AllResults
<1>3. I # {} => Min(I) \in 1..Len(crl.revoked)
  BY <1>2, OptionalIndex
<1>4. find_serial(crl, serial) =
        IF k = 0 THEN Ok(FALSE)
        ELSE IF crl.revoked[k].result # "Ok" THEN crl.revoked[k] ELSE Ok(TRUE)
  BY DEF find_serial
<1> HIDE DEF I, k
<1> QED
  BY <1>1, <1>3, <1>4 DEF AllResults, IsResult, Ok, Verdicts, Results, Fatal

LEMMA ConsultCrlResult ==
    ASSUME NEW algs, NEW crl, AllResults(crl.revoked), NEW c,
           NEW spki, IsResult(spki), NEW ku, IsSome(ku) => IsResult(The(ku))
    PROVE  consult_crl(algs, crl, c, spki, ku) \in Verdicts
<1>1. verify_signed_data(algs, spki, crl.signed_data) \in Verdicts
  BY VerifySignedDataResult
<1>2. crl_signature_err(verify_signed_data(algs, spki, crl.signed_data)) \in Verdicts
  BY <1>1 DEF crl_signature_err, Verdicts, Results, Error, rank, Fatal
<1>3. check_key_usage(ku) \in Verdicts
  BY DEF check_key_usage, Require, ??, IsResult, Verdicts, Results, Error, rank, Fatal
<1>4. find_serial(crl, c.serial).result \in Verdicts
  BY FindSerialResult
<1> QED
  BY <1>2, <1>3, <1>4 DEF consult_crl, Require, ??, Verdicts, Results, Error, rank, Fatal

LEMMA CheckCrlsResult ==
    ASSUME NEW algs, NEW c, NEW is_ca, NEW spki, IsResult(spki),
           NEW ku, IsSome(ku) => IsResult(The(ku)), NEW revocation,
           Len(revocation.crls) \in Nat,
           \A i \in 1..Len(revocation.crls) : AllResults(revocation.crls[i].revoked)
    PROVE  check_crls(algs, c, is_ca, spki, ku, revocation) \in Verdicts
<1> DEFINE crls == revocation.crls
           authoritative(crl) == crl_authoritative(crl, c, is_ca)
           I == {i \in 1..Len(crls) : authoritative(crls[i])}
           k == SelectInSeq(crls, authoritative)
<1>1. k = IF I # {} THEN Min(I) ELSE 0
  BY DEF SelectInSeq
<1>2. I # {} => Min(I) \in 1..Len(crls)
  BY OptionalIndex
<1>3. k # 0 => consult_crl(algs, crls[k], c, spki, ku) \in Verdicts
  <2> HIDE DEF I, k
  <2> QED
    BY <1>1, <1>2, ConsultCrlResult
<1>4. check_crls(algs, c, is_ca, spki, ku, revocation) =
        IF revocation.depth = "EndEntity" /\ is_ca THEN "Ok"
        ELSE IF k = 0 THEN Require(revocation.status_requirement = "Allow",
                                   "UnknownRevocationStatus")
        ELSE consult_crl(algs, crls[k], c, spki, ku)
  BY DEF check_crls
<1> HIDE DEF k
<1> QED
  BY <1>3, <1>4 DEF Require, Verdicts, Results, Error, rank, Fatal

-----------------------------------------------------------------------------
(* Lists that an iterator consumes.                                        *)

LEMMA ListFacts ==
    ASSUME NEW s, IsSeq(s)
    PROVE  /\ Len(s) \in Nat /\ DOMAIN s = 1..Len(s)
           /\ s = << >> <=> Len(s) = 0
  BY DEF IsSeq

LEMMA ListConsumed ==
    ASSUME NEW s, IsSeq(s), s # << >>
    PROVE  /\ IsSeq(Tail(s)) /\ Len(Tail(s)) = Len(s) - 1
           /\ Len(s) \in Nat /\ Len(s) > 0
           /\ Head(s) = s[1]
           /\ \A i \in 1..(Len(s) - 1) : Tail(s)[i] = s[i + 1]
<1> DEFINE S == {s[i] : i \in DOMAIN s}
           t == Tail(s)
<1>1. s \in Seq(S)
  BY DEF IsSeq
<1> HIDE DEF S
<1>2. Len(s) \in Nat /\ Len(s) > 0
  BY <1>1
<1>3. /\ t \in Seq(S) /\ Len(t) = Len(s) - 1 /\ Head(s) = s[1]
      /\ \A i \in 1..(Len(s) - 1) : t[i] = s[i + 1]
  BY <1>1, <1>2
<1>4. IsSeq(t)
  <2> DEFINE T == {t[i] : i \in DOMAIN t}
  <2> HIDE DEF t
  <2>1. \A i \in 1..Len(t) : t[i] \in T
    <3>1. DOMAIN t = 1..Len(t)
      BY <1>3
    <3> QED
      BY <3>1
  <2> HIDE DEF T
  <2>2. t \in Seq(T)
    BY <1>3, <2>1
  <2> QED
    BY <2>2 DEF IsSeq, T
<1> QED
  BY <1>2, <1>3, <1>4

\* Induction over the indices of a list.
LEMMA IndexInduction ==
    ASSUME NEW n \in Nat, NEW G, 0 \in G, \A i \in 1..n : i - 1 \in G => i \in G
    PROVE  \A i \in 0..n : i \in G
<1> DEFINE S == {i \in 0..n : i \notin G}
<1>1. SUFFICES ASSUME S # {} PROVE FALSE
  OBVIOUS
<1>2. S \in SUBSET Nat
  OBVIOUS
<1>3. Min(S) \in S /\ \A y \in S : Min(S) <= y
  <2> HIDE DEF S
  <2> QED
    BY <1>1, <1>2, MinOfIndices
<1> DEFINE k == Min(S)
<1> HIDE DEF k
<1>4. k \in S /\ \A y \in S : k <= y
  BY <1>3 DEF k
<1>5. k \in 0..n /\ k \notin G
  BY <1>4
<1>6. k \in 1..n /\ k - 1 \in 0..n
  BY <1>5
<1>7. k - 1 \notin S
  BY <1>4, <1>6
<1>8. k - 1 \in G
  BY <1>6, <1>7
<1> QED
  BY <1>5, <1>6, <1>8

-----------------------------------------------------------------------------
(* Readers, and what the decoders of elements accept.                      *)

LEMMA ResultFacts ==
    /\ \A e : Err(e).result = e
    /\ \A v : Ok(v).result = "Ok" /\ Ok(v).value = v
    /\ \A v, s : /\ Read(v, s).result = "Ok"
                 /\ Read(v, s).value.value = v /\ Read(v, s).value.rest = s
  BY DEF Err, Ok, Read

LEMMA Expected ==
    ASSUME NEW reader, NEW tag
    PROVE  /\ expect_tag(reader, tag).result = "Ok" <=> peek(reader, tag)
           /\ peek(reader, tag) =>
                  /\ expect_tag(reader, tag).value.value = Head(reader).content
                  /\ expect_tag(reader, tag).value.rest = Tail(reader)
  BY DEF expect_tag, Read, Ok, Err

\* r is what is left of s after n elements.
Rest(s, n, r) ==
    /\ IsSeq(s) /\ n \in 0..Len(s)
    /\ IsSeq(r) /\ Len(r) = Len(s) - n
    /\ \A i \in 1..Len(r) : r[i] = s[i + n]

LEMMA RestOfAll ==
    ASSUME NEW s, IsSeq(s)
    PROVE  Rest(s, 0, s)
<1>1. Len(s) \in Nat
  BY ListFacts
<1>2. \A i \in 1..Len(s) : i + 0 = i
  OBVIOUS
<1> QED
  BY <1>1, <1>2 DEF Rest

LEMMA RestConsumed ==
    ASSUME NEW s, NEW n, NEW r, Rest(s, n, r)
    PROVE  /\ r = << >> <=> n = Len(s)
           /\ n \in Nat /\ Len(s) \in Nat /\ n <= Len(s) /\ DOMAIN s = 1..Len(s)
           /\ r # << >> => /\ n + 1 \in DOMAIN s
                           /\ Head(r) = s[n + 1]
                           /\ Rest(s, n + 1, Tail(r))
<1>1. /\ IsSeq(s) /\ n \in 0..Len(s) /\ IsSeq(r) /\ Len(r) = Len(s) - n
      /\ \A i \in 1..Len(r) : r[i] = s[i + n]
  BY DEF Rest
<1>2. Len(s) \in Nat /\ Len(r) \in Nat /\ DOMAIN s = 1..Len(s)
  BY <1>1, ListFacts
<1>3. r = << >> <=> Len(r) = 0
  BY <1>1, ListFacts
<1>4. r = << >> <=> n = Len(s)
  BY <1>1, <1>2, <1>3
<1>5. ASSUME r # << >>
      PROVE  n + 1 \in DOMAIN s /\ Head(r) = s[n + 1] /\ Rest(s, n + 1, Tail(r))
  <2> DEFINE t == Tail(r)
  <2>1. /\ IsSeq(t) /\ Len(t) = Len(r) - 1 /\ Len(r) > 0 /\ Head(r) = r[1]
        /\ \A i \in 1..(Len(r) - 1) : t[i] = r[i + 1]
    BY <1>1, <1>5, ListConsumed
  <2> HIDE DEF t
  <2>2. r[1] = s[1 + n] /\ 1 + n = n + 1
    BY <1>1, <1>2, <2>1
  <2>3. n + 1 \in 0..Len(s) /\ n + 1 \in 1..Len(s) /\ Len(t) = Len(s) - (n + 1)
    BY <1>1, <1>2, <2>1
  <2>4. ASSUME NEW i \in 1..Len(t) PROVE t[i] = s[i + (n + 1)]
    <3>1. i \in 1..(Len(r) - 1) /\ i + 1 \in 1..Len(r) /\ (i + 1) + n = i + (n + 1)
      BY <1>1, <1>2, <2>1
    <3>2. t[i] = r[i + 1] /\ r[i + 1] = s[(i + 1) + n]
      BY <1>1, <2>1, <3>1
    <3> QED
      BY <3>1, <3>2
  <2>5. Rest(s, n + 1, t)
    BY <1>1, <2>1, <2>3, <2>4 DEF Rest
  <2> QED
    BY <1>2, <2>1, <2>2, <2>3, <2>5 DEF t
<1> QED
  BY <1>1, <1>2, <1>4, <1>5

LEMMA SameInterval ==
    ASSUME NEW n \in Nat, NEW k \in Nat, 1..n = 1..k
    PROVE  n = k
<1>1. \A m \in Nat : (m \in 1..n <=> m \in 1..k)
  OBVIOUS
<1>2. n > k => FALSE
  <2>1. n > k => n \in 1..n /\ n \notin 1..k
    OBVIOUS
  <2> QED
    BY <1>1, <2>1
<1>3. n < k => FALSE
  <2>1. n < k => k \in 1..k /\ k \notin 1..n
    OBVIOUS
  <2> QED
    BY <1>1, <2>1
<1> QED
  BY <1>2, <1>3

\* The tags of short readers, one by one.
LEMMA TagsOfOne ==
    ASSUME NEW s, IsSeq(s), NEW a
    PROVE  Tags(s) = << a >> <=> Len(s) = 1 /\ s[1].tag = a
<1>1. Len(s) \in Nat /\ DOMAIN s = 1..Len(s)
  BY ListFacts
<1>2. Tags(s) = [i \in 1..Len(s) |-> s[i].tag]
  BY <1>1 DEF Tags
<1>3. Tags(s) = << a >> => Len(s) = 1 /\ s[1].tag = a
  <2> SUFFICES ASSUME Tags(s) = << a >> PROVE Len(s) = 1 /\ s[1].tag = a
    OBVIOUS
  <2>1. 1..Len(s) = 1..1
    BY <1>2
  <2>2. Len(s) = 1
    BY <1>1, <2>1, SameInterval
  <2> QED
    BY <1>2, <2>2
<1>4. Len(s) = 1 /\ s[1].tag = a => Tags(s) = << a >>
  BY <1>2
<1> QED
  BY <1>3, <1>4

LEMMA TagsOfTwo ==
    ASSUME NEW s, IsSeq(s), NEW a, NEW b
    PROVE  Tags(s) = << a, b >> <=> Len(s) = 2 /\ s[1].tag = a /\ s[2].tag = b
<1>1. Len(s) \in Nat /\ DOMAIN s = 1..Len(s)
  BY ListFacts
<1>2. Tags(s) = [i \in 1..Len(s) |-> s[i].tag]
  BY <1>1 DEF Tags
<1>3. Tags(s) = << a, b >> => Len(s) = 2 /\ s[1].tag = a /\ s[2].tag = b
  <2> SUFFICES ASSUME Tags(s) = << a, b >>
               PROVE  Len(s) = 2 /\ s[1].tag = a /\ s[2].tag = b
    OBVIOUS
  <2>1. 1..Len(s) = 1..2
    BY <1>2
  <2>2. Len(s) = 2
    BY <1>1, <2>1, SameInterval
  <2> QED
    BY <1>2, <2>2
<1>4. Len(s) = 2 /\ s[1].tag = a /\ s[2].tag = b => Tags(s) = << a, b >>
  BY <1>2
<1> QED
  BY <1>3, <1>4

LEMMA TagsOfThree ==
    ASSUME NEW s, IsSeq(s), NEW a, NEW b, NEW c
    PROVE  Tags(s) = << a, b, c >> <=>
               Len(s) = 3 /\ s[1].tag = a /\ s[2].tag = b /\ s[3].tag = c
<1>1. Len(s) \in Nat /\ DOMAIN s = 1..Len(s)
  BY ListFacts
<1>2. Tags(s) = [i \in 1..Len(s) |-> s[i].tag]
  BY <1>1 DEF Tags
<1>3. Tags(s) = << a, b, c >> => Len(s) = 3 /\ s[1].tag = a /\ s[2].tag = b /\ s[3].tag = c
  <2> SUFFICES ASSUME Tags(s) = << a, b, c >>
               PROVE  Len(s) = 3 /\ s[1].tag = a /\ s[2].tag = b /\ s[3].tag = c
    OBVIOUS
  <2>1. 1..Len(s) = 1..3
    BY <1>2
  <2>2. Len(s) = 3
    BY <1>1, <2>1, SameInterval
  <2> QED
    BY <1>2, <2>2
<1>4. Len(s) = 3 /\ s[1].tag = a /\ s[2].tag = b /\ s[3].tag = c => Tags(s) = << a, b, c >>
  BY <1>2
<1> QED
  BY <1>3, <1>4

\* The first element, and being the only one.
LEMMA PeekFirst ==
    ASSUME NEW s, IsSeq(s), NEW tag
    PROVE  /\ peek(s, tag) <=> Len(s) >= 1 /\ s[1].tag = tag
           /\ peek(s, tag) => /\ 1 \in DOMAIN s /\ Head(s) = s[1] /\ IsSeq(Tail(s))
                              /\ Tail(s) = << >> <=> Len(s) = 1
<1>1. Len(s) \in Nat /\ DOMAIN s = 1..Len(s) /\ (s = << >> <=> Len(s) = 0)
  BY ListFacts
<1>2. s # << >> => Len(s) >= 1 /\ Head(s) = s[1] /\ IsSeq(Tail(s)) /\ Len(Tail(s)) = Len(s) - 1
  BY <1>1, ListConsumed
<1>3. s # << >> => (Tail(s) = << >> <=> Len(Tail(s)) = 0)
  BY <1>2, ListFacts
<1>4. s # << >> => (Tail(s) = << >> <=> Len(s) = 1)
  BY <1>1, <1>2, <1>3
<1> QED
  BY <1>1, <1>2, <1>4 DEF peek

LEMMA OnlyElement ==
    ASSUME NEW s, IsSeq(s), NEW tag
    PROVE  Tags(s) = << tag >> <=> peek(s, tag) /\ Tail(s) = << >>
  BY PeekFirst, TagsOfOne

LEMMA SingleItem ==
    ASSUME NEW v, IsSeq(v), Len(v) = 1
    PROVE  v = << v[1] >>
  BY DEF IsSeq

LEMMA SameRecord ==
    ASSUME NEW x, NEW tag, NEW content, x = Element(x.tag, x.content)
    PROVE  x = Element(tag, content) <=> x.tag = tag /\ x.content = content
  BY DEF Element

\* The first element of a reader.
LEMMA FirstElement ==
    ASSUME NEW s, Reader1(s), NEW tag, peek(s, tag)
    PROVE  /\ 1 \in DOMAIN s /\ Head(s) = s[1] /\ s[1].tag = tag /\ IsSeq(s)
           /\ s[1] = Element(s[1].tag, s[1].content)
           /\ tag \in {"Integer", "Boolean", "BitString", "Sequence", "Set", "OctetString",
                       "ContextSpecificConstructed0"} => IsSeq(s[1].content)
           /\ tag \in {"Integer", "Boolean", "BitString"} => Octets(s[1].content)
<1>1. IsSeq(s)
  BY DEF Reader1, ReaderOf
<1>2. 1 \in DOMAIN s /\ Head(s) = s[1] /\ s[1].tag = tag
  BY <1>1, PeekFirst
<1>3. /\ s[1] = Element(s[1].tag, s[1].content)
      /\ s[1].tag \in {"Sequence", "Set", "OctetString", "ContextSpecificConstructed0",
                       "ContextSpecificConstructed3"} => IsSeq(s[1].content)
      /\ s[1].tag \in {"Integer", "Boolean", "BitString"} => Octets(s[1].content)
  BY <1>2 DEF Reader1, ReaderOf
<1>4. tag \in {"Integer", "Boolean", "BitString"} => Octets(s[1].content) /\ IsSeq(s[1].content)
  BY <1>2, <1>3 DEF Octets
<1> QED
  BY <1>1, <1>2, <1>3, <1>4

\* A reader is one for parsers that do not look as deep.
LEMMA ReaderWeaker ==
    ASSUME NEW s
    PROVE  /\ Reader1(s) => IsSeq(s)
           /\ Reader2(s) => Reader1(s)
           /\ Reader3(s) => Reader2(s)
           /\ Reader4(s) => Reader3(s)
           /\ Reader5(s) => Reader4(s)
           /\ Reader6(s) => Reader5(s)
           /\ Reader7(s) => Reader6(s)
           /\ Reader8(s) => Reader7(s)
           /\ Reader9(s) => Reader8(s)
<1>1. \A x : Reader1(x) => IsSeq(x)
  BY DEF Reader1, ReaderOf
<1>2. \A x : Reader2(x) => Reader1(x)
  BY <1>1 DEF Reader2, Reader1, ReaderOf
<1>3. \A x : Reader3(x) => Reader2(x)
  BY <1>2 DEF Reader3, Reader2, ReaderOf
<1>4. \A x : Reader4(x) => Reader3(x)
  BY <1>3 DEF Reader4, Reader3, ReaderOf
<1>5. \A x : Reader5(x) => Reader4(x)
  BY <1>4 DEF Reader5, Reader4, ReaderOf
<1>6. \A x : Reader6(x) => Reader5(x)
  BY <1>5 DEF Reader6, Reader5, ReaderOf
<1>7. \A x : Reader7(x) => Reader6(x)
  BY <1>6 DEF Reader7, Reader6, ReaderOf
<1>8. \A x : Reader8(x) => Reader7(x)
  BY <1>7 DEF Reader8, Reader7, ReaderOf
<1>9. \A x : Reader9(x) => Reader8(x)
  BY <1>8 DEF Reader9, Reader8, ReaderOf
<1> QED
  BY <1>1, <1>2, <1>3, <1>4, <1>5, <1>6, <1>7, <1>8, <1>9

\* The elements of a reader are those of the list it reads.
LEMMA RestIsReader ==
    ASSUME NEW s, Reader1(s), NEW n, NEW r, Rest(s, n, r)
    PROVE  Reader1(r)
<1>1. /\ IsSeq(s) /\ n \in 0..Len(s) /\ IsSeq(r) /\ Len(r) = Len(s) - n
      /\ \A i \in 1..Len(r) : r[i] = s[i + n]
  BY DEF Rest
<1>2. Len(s) \in Nat /\ DOMAIN s = 1..Len(s) /\ DOMAIN r = 1..Len(r)
  BY <1>1, ListFacts
<1>3. \A i \in DOMAIN r : i + n \in DOMAIN s /\ r[i] = s[i + n]
  BY <1>1, <1>2
<1> QED
  BY <1>1, <1>3 DEF Reader1, ReaderOf

\* A number below 128 has one encoding.
LEMMA SmallNumberRead ==
    ASSUME NEW c, Reader1(c), NEW k \in 0..127
    PROVE  /\ u8_from_der(c).result = "Ok" /\ u8_from_der(c).value.value = k <=>
                  peek(c, "Integer") /\ Head(c).content = << k >>
           /\ u8_from_der(c).result = "Ok" => u8_from_der(c).value.rest = Tail(c)
<1> DEFINE e == expect_tag(c, "Integer")
           v == e.value.value
           bad == v = << >> \/ v[1] >= 128 \/ (v[1] = 0 /\ Len(v) > 1 /\ v[2] < 128)
           strip == v[1] = 0 /\ Len(v) > 1
           w == IF strip THEN Tail(v) ELSE v
           m == IF e.result = "Ok"
                THEN IF bad THEN Err("BadDer") ELSE Read(w, e.value.rest)
                ELSE e
           u == u8_from_der(c)
<1>1. u = IF m.result = "Ok"
          THEN IF Len(m.value.value) = 1 THEN Read(m.value.value[1], m.value.rest)
               ELSE Err("BadDer")
          ELSE m
  BY DEF u8_from_der, nonnegative_integer, AndThen
<1>2. Err("BadDer").result # "Ok"
  BY DEF Err
<1>3. /\ e.result = "Ok" <=> peek(c, "Integer")
      /\ e.result = "Ok" => v = Head(c).content /\ e.value.rest = Tail(c)
  BY Expected
<1>4. e.result = "Ok" => IsSeq(v)
  BY <1>3, FirstElement
<1> HIDE DEF e, v, w, m, u, bad
<1>5. /\ m.result = "Ok" <=> e.result = "Ok" /\ ~bad
      /\ m.result = "Ok" => m.value.value = w /\ m.value.rest = e.value.rest
  BY <1>2, ResultFacts DEF m
<1>6. /\ u.result = "Ok" <=> m.result = "Ok" /\ Len(m.value.value) = 1
      /\ u.result = "Ok" => u.value.value = m.value.value[1] /\ u.value.rest = m.value.rest
  BY <1>1, <1>2, ResultFacts
<1>7. v = << k >> => ~bad /\ w = v /\ Len(w) = 1 /\ w[1] = k
  BY DEF bad, w
<1>8. ASSUME e.result = "Ok", ~bad, Len(w) = 1, w[1] = k PROVE v = << k >>
  <2>1. IsSeq(v) /\ v # << >>
    BY <1>4, <1>8 DEF bad
  <2>2. ~strip
    <3> SUFFICES ASSUME strip PROVE FALSE
      OBVIOUS
    <3>1. /\ Len(v) \in Nat /\ \A i \in 1..(Len(v) - 1) : Tail(v)[i] = v[i + 1]
      BY <2>1, ListConsumed
    <3>2. 1 \in 1..(Len(v) - 1) /\ 1 + 1 = 2
      BY <3>1
    <3>3. w = Tail(v)
      BY DEF w
    <3>4. Tail(v)[1] = v[2]
      BY <3>1, <3>2
    <3>5. v[2] = k
      BY <1>8, <3>3, <3>4
    <3>6. v[2] < 128
      BY <3>5
    <3> QED
      BY <1>8, <3>6 DEF bad
  <2>3. w = v
    BY <2>2 DEF w
  <2>4. v = << v[1] >>
    BY <1>8, <2>1, <2>3, SingleItem
  <2> QED
    BY <1>8, <2>3, <2>4
<1> QED
  BY <1>3, <1>5, <1>6, <1>7, <1>8 DEF u

LEMMA BoolRead ==
    ASSUME NEW reader, Reader1(reader)
    PROVE  LET b == bool_from_der(reader)
               octets == Head(reader).content
           IN  /\ ~peek(reader, "Boolean") =>
                      b.result = "Ok" /\ b.value.value = FALSE /\ b.value.rest = reader
               /\ peek(reader, "Boolean") =>
                      /\ b.result = "Ok" <=> octets \in {<< 0 >>, << 255 >>}
                      /\ b.result = "Ok" => /\ octets = << 255 >> => b.value.value = TRUE
                                            /\ octets # << 255 >> => b.value.value = FALSE
                                            /\ b.value.rest = Tail(reader)
<1> DEFINE b == bool_from_der(reader)
           octets == Head(reader).content
           bad == octets = << >> \/ octets[1] \notin {0, 255}
           long == Len(octets) > 1
           w == octets[1] = 255
<1>1. b = IF ~peek(reader, "Boolean") THEN Read(FALSE, reader)
          ELSE IF bad THEN Err("BadDer")
          ELSE IF long THEN Err("TrailingData")
          ELSE Read(w, Tail(reader))
  BY DEF bool_from_der
<1>2. Err("BadDer").result # "Ok" /\ Err("TrailingData").result # "Ok"
  BY DEF Err
<1>3. peek(reader, "Boolean") => IsSeq(octets)
  BY FirstElement
<1>4. ASSUME peek(reader, "Boolean")
      PROVE  /\ ~bad /\ ~long <=> octets \in {<< 0 >>, << 255 >>}
             /\ ~bad /\ ~long => (octets = << 255 >> => w = TRUE)
             /\ ~bad /\ ~long => (octets # << 255 >> => w = FALSE)
  <2> HIDE DEF octets
  <2>1. octets \in {<< 0 >>, << 255 >>} => ~bad /\ ~long
    <3>1. octets = << 0 >> => octets # << >> /\ octets[1] = 0 /\ Len(octets) = 1
      OBVIOUS
    <3>2. octets = << 255 >> => octets # << >> /\ octets[1] = 255 /\ Len(octets) = 1
      OBVIOUS
    <3>3. 0 \in {0, 255} /\ 255 \in {0, 255} /\ ~(1 > 1)
      OBVIOUS
    <3>4. octets = << 0 >> => ~bad /\ ~long
      BY <3>1, <3>3
    <3>5. octets = << 255 >> => ~bad /\ ~long
      BY <3>2, <3>3
    <3> HIDE DEF bad, long
    <3> QED
      BY <3>4, <3>5
  <2>2. ASSUME ~bad, ~long
        PROVE  octets \in {<< 0 >>, << 255 >>} /\ (octets[1] = 255 <=> octets = << 255 >>)
    <3>1. Len(octets) \in Nat /\ Len(octets) # 0
      BY <1>3, <1>4, <2>2, ListFacts
    <3>2. Len(octets) = 1
      BY <2>2, <3>1
    <3>3. octets = << octets[1] >>
      BY <1>3, <1>4, <3>2, SingleItem
    <3>4. octets[1] \in {0, 255}
      BY <2>2
    <3> QED
      BY <3>3, <3>4
  <2> QED
    BY <2>1, <2>2
<1> HIDE DEF b, octets, bad, long, w
<1>5. ~peek(reader, "Boolean") =>
          b.result = "Ok" /\ b.value.value = FALSE /\ b.value.rest = reader
  BY <1>1, ResultFacts
<1>6. peek(reader, "Boolean") =>
          /\ b.result = "Ok" <=> ~bad /\ ~long
          /\ b.result = "Ok" => /\ b.value.value = w
                                /\ b.value.rest = Tail(reader)
  BY <1>1, <1>2, ResultFacts
<1> QED
  BY <1>4, <1>5, <1>6 DEF b, octets

LEMMA BitsRead ==
    ASSUME NEW reader
    PROVE  LET bits == bit_string_with_no_unused_bits(reader)
               value == Head(reader).content
           IN  /\ bits.result = "Ok" <=>
                      peek(reader, "BitString") /\ value # << >> /\ value[1] = 0
               /\ bits.result = "Ok" => bits.value.rest = Tail(reader)
<1> DEFINE bits == bit_string_with_no_unused_bits(reader)
           outer == expect_tag(reader, "BitString")
           value == outer.value.value
           unused == value = << >> \/ value[1] # 0
<1>1. bits = IF outer.result # "Ok" THEN Err("TrailingData")
             ELSE IF unused THEN Err("BadDer")
             ELSE Read(Tail(value), outer.value.rest)
  BY DEF bit_string_with_no_unused_bits
<1>2. Err("TrailingData").result # "Ok" /\ Err("BadDer").result # "Ok"
  BY DEF Err
<1>3. /\ outer.result = "Ok" <=> peek(reader, "BitString")
      /\ peek(reader, "BitString") => value = Head(reader).content
                                      /\ outer.value.rest = Tail(reader)
  BY Expected
<1>4. unused <=> ~(value # << >> /\ value[1] = 0)
  OBVIOUS
<1> HIDE DEF bits, outer, value, unused
<1>5. bits.result = "Ok" <=> outer.result = "Ok" /\ ~unused
  BY <1>1, <1>2, ResultFacts
<1>6. bits.result = "Ok" => bits.value.rest = outer.value.rest
  BY <1>1, <1>2, ResultFacts
<1> QED
  BY <1>3, <1>4, <1>5, <1>6 DEF bits

\* SignedData::from_der over a whole body.
LEMMA SignedParts ==
    ASSUME NEW body, IsSeq(body)
    PROVE  LET r == SignedData_from_der(body)
           IN  /\ r.result = "Ok" /\ r.value.rest = << >> <=>
                      /\ Tags(body) = << "Sequence", "Sequence", "BitString" >>
                      /\ body[3].content # << >> /\ body[3].content[1] = 0
               /\ r.result = "Ok" => /\ r.value.value.tbs = body[1].content
                                     /\ r.value.value.signed_data.algorithm = body[2].content
<1> DEFINE r == SignedData_from_der(body)
           tbs_ == expect_tag(body, "Sequence")
           alg == expect_tag(tbs_.value.rest, "Sequence")
           sig == bit_string_with_no_unused_bits(alg.value.rest)
           v == [tbs |-> tbs_.value.value,
                 signed_data |-> [data |-> Head(body), algorithm |-> alg.value.value,
                                  signature |-> sig.value.value]]
           s1 == Tail(body)
           s2 == Tail(s1)
           s3 == Tail(s2)
           n == Len(body)
<1>1. r = IF tbs_.result = "Ok"
          THEN IF alg.result = "Ok"
               THEN IF sig.result = "Ok" THEN Read(v, sig.value.rest) ELSE sig
               ELSE alg
          ELSE tbs_
  BY DEF SignedData_from_der, AndThen
<1>2. v.tbs = tbs_.value.value /\ v.signed_data.algorithm = alg.value.value
  OBVIOUS
<1>3. /\ tbs_.result = "Ok" <=> peek(body, "Sequence")
      /\ tbs_.result = "Ok" => tbs_.value.value = Head(body).content /\ tbs_.value.rest = s1
  BY Expected
<1>4. tbs_.result = "Ok" => /\ alg.result = "Ok" <=> peek(s1, "Sequence")
                            /\ alg.result = "Ok" => /\ alg.value.value = Head(s1).content
                                                    /\ alg.value.rest = s2
  <2> HIDE DEF tbs_, s1
  <2>1. alg.result = "Ok" <=> peek(tbs_.value.rest, "Sequence")
    BY Expected
  <2>2. peek(tbs_.value.rest, "Sequence") =>
            /\ alg.value.value = Head(tbs_.value.rest).content
            /\ alg.value.rest = Tail(tbs_.value.rest)
    BY Expected
  <2> QED
    BY <1>3, <2>1, <2>2
<1> HIDE DEF v, alg, tbs_, s2, s3
<1>5. tbs_.result = "Ok" /\ alg.result = "Ok" =>
          /\ sig.result = "Ok" <=> /\ peek(s2, "BitString")
                                   /\ Head(s2).content # << >> /\ Head(s2).content[1] = 0
          /\ sig.result = "Ok" => sig.value.rest = s3
  <2> SUFFICES ASSUME tbs_.result = "Ok", alg.result = "Ok"
               PROVE  /\ sig.result = "Ok" <=> /\ peek(s2, "BitString")
                                               /\ Head(s2).content # << >>
                                               /\ Head(s2).content[1] = 0
                      /\ sig.result = "Ok" => sig.value.rest = s3
    OBVIOUS
  <2>1. sig = bit_string_with_no_unused_bits(s2)
    BY <1>3, <1>4
  <2> HIDE DEF sig
  <2> QED
    BY <2>1, BitsRead DEF s3
<1> HIDE DEF r, sig, s1
<1>6. Rest(body, 0, body)
  BY RestOfAll
<1>7. /\ n \in Nat /\ DOMAIN body = 1..n /\ (body # << >> <=> n # 0)
      /\ body # << >> => Head(body) = body[1] /\ Rest(body, 1, s1)
  <2>1. 0 + 1 = 1
    OBVIOUS
  <2> QED
    BY <1>6, <2>1, RestConsumed DEF s1
<1>8. n >= 1 => /\ s1 # << >> <=> n # 1
                /\ s1 # << >> => Head(s1) = body[2] /\ Rest(body, 2, s2)
  <2>1. 1 + 1 = 2
    OBVIOUS
  <2>2. n >= 1 => Rest(body, 1, s1)
    BY <1>7
  <2> QED
    BY <1>7, <2>1, <2>2, RestConsumed DEF s2
<1>9. n >= 2 => /\ s2 # << >> <=> n # 2
                /\ s2 # << >> => Head(s2) = body[3] /\ Rest(body, 3, s3)
  <2>1. 2 + 1 = 3
    OBVIOUS
  <2>2. n >= 2 => Rest(body, 2, s2)
    BY <1>7, <1>8
  <2>3. Rest(body, 2, s2) => /\ s2 = << >> <=> 2 = n
                             /\ s2 # << >> => Head(s2) = body[2 + 1] /\ Rest(body, 2 + 1, s3)
    BY RestConsumed DEF s3
  <2> QED
    BY <1>7, <2>1, <2>2, <2>3
<1>10. n >= 3 => (s3 = << >> <=> n = 3)
  <2>1. n >= 3 => Rest(body, 3, s3)
    BY <1>7, <1>8, <1>9
  <2>2. Rest(body, 3, s3) => (s3 = << >> <=> 3 = n)
    BY RestConsumed
  <2> QED
    BY <2>1, <2>2
<1>11. Tags(body) = << "Sequence", "Sequence", "BitString" >> <=>
           /\ n = 3 /\ body[1].tag = "Sequence" /\ body[2].tag = "Sequence"
           /\ body[3].tag = "BitString"
  BY TagsOfThree DEF n
<1> HIDE DEF n
<1>12. r.result = "Ok" <=> tbs_.result = "Ok" /\ alg.result = "Ok" /\ sig.result = "Ok"
  BY <1>1, ResultFacts
<1>13. r.result = "Ok" => r.value.value = v /\ r.value.rest = sig.value.rest
  BY <1>1, ResultFacts
<1>14. tbs_.result = "Ok" <=> n >= 1 /\ body[1].tag = "Sequence"
  BY <1>3, <1>7 DEF peek
<1>15. tbs_.result = "Ok" => (alg.result = "Ok" <=> n >= 2 /\ body[2].tag = "Sequence")
  BY <1>4, <1>7, <1>8, <1>14 DEF peek
<1>16. tbs_.result = "Ok" /\ alg.result = "Ok" =>
           /\ sig.result = "Ok" <=> /\ n >= 3 /\ body[3].tag = "BitString"
                                    /\ body[3].content # << >> /\ body[3].content[1] = 0
           /\ sig.result = "Ok" => (sig.value.rest = << >> <=> n = 3)
  BY <1>5, <1>7, <1>8, <1>9, <1>10, <1>14, <1>15 DEF peek
<1>17. r.result = "Ok" => /\ r.value.value.tbs = body[1].content
                          /\ r.value.value.signed_data.algorithm = body[2].content
  BY <1>2, <1>3, <1>4, <1>7, <1>8, <1>12, <1>13, <1>14, <1>15
<1>18. r.result = "Ok" /\ r.value.rest = << >> <=>
           /\ n = 3 /\ body[1].tag = "Sequence" /\ body[2].tag = "Sequence"
           /\ body[3].tag = "BitString"
           /\ body[3].content # << >> /\ body[3].content[1] = 0
  BY <1>7, <1>12, <1>13, <1>14, <1>15, <1>16
<1> QED
  BY <1>11, <1>17, <1>18 DEF r

\* The content of a well-formed extension.
Shape(c) ==
    /\ Tags(c) \in {<< "OID", "OctetString" >>, << "OID", "Boolean", "OctetString" >>}
    /\ Len(c) = 3 => c[2].content \in {<< 0 >>, << 255 >>}

LEMMA ExtensionRead ==
    ASSUME NEW c, Reader1(c)
    PROVE  LET x == Extension_from_der(c)
           IN  /\ x.result = "Ok" /\ x.value.rest = << >> <=> Shape(c)
               /\ Shape(c) => /\ x.value.value.id = c[1].content
                              /\ IF Len(c) = 3 /\ c[2].content = << 255 >>
                                 THEN x.value.value.critical = TRUE
                                 ELSE x.value.value.critical = FALSE
                              /\ x.value.value.value = c[Len(c)].content
<1> DEFINE x == Extension_from_der(c)
           id == expect_tag(c, "OID")
           critical == bool_from_der(id.value.rest)
           value == expect_tag(critical.value.rest, "OctetString")
           v == [id |-> id.value.value, critical |-> critical.value.value,
                 value |-> value.value.value]
           c1 == Tail(c)
           c2 == Tail(c1)
           c3 == Tail(c2)
           n == Len(c)
<1>1. x = IF id.result = "Ok"
          THEN IF critical.result = "Ok"
               THEN IF value.result = "Ok" THEN Read(v, value.value.rest) ELSE value
               ELSE critical
          ELSE id
  BY DEF Extension_from_der, AndThen
<1>2. v.id = id.value.value /\ v.critical = critical.value.value /\ v.value = value.value.value
  OBVIOUS
<1>3. IsSeq(c)
  BY DEF Reader1, ReaderOf
<1>4. Rest(c, 0, c) /\ n \in Nat
  BY <1>3, RestOfAll, ListFacts
<1> HIDE DEF c1, c2, c3, n
<1>5. /\ c # << >> <=> n # 0
      /\ c # << >> => Head(c) = c[1] /\ Rest(c, 1, c1)
  <2>1. /\ c = << >> <=> 0 = n
        /\ c # << >> => Head(c) = c[0 + 1] /\ Rest(c, 0 + 1, c1)
    BY <1>4, RestConsumed DEF c1, n
  <2> QED
    BY <2>1
<1>6. n >= 1 => /\ c1 # << >> <=> n # 1
                /\ c1 # << >> => Head(c1) = c[2] /\ Rest(c, 2, c2)
                /\ Reader1(c1)
  <2>1. Rest(c, 1, c1) => /\ c1 = << >> <=> 1 = n
                          /\ c1 # << >> => Head(c1) = c[1 + 1] /\ Rest(c, 1 + 1, c2)
                          /\ Reader1(c1)
    BY RestConsumed, RestIsReader DEF c2, n
  <2> QED
    BY <1>4, <1>5, <2>1
<1>7. n >= 2 => /\ c2 # << >> <=> n # 2
                /\ c2 # << >> => Head(c2) = c[3] /\ Rest(c, 3, c3)
  <2>1. Rest(c, 2, c2) => /\ c2 = << >> <=> 2 = n
                          /\ c2 # << >> => Head(c2) = c[2 + 1] /\ Rest(c, 2 + 1, c3)
    BY RestConsumed DEF c3, n
  <2> QED
    BY <1>4, <1>6, <2>1
<1>8. n >= 3 => (c3 = << >> <=> n = 3)
  <2>1. Rest(c, 3, c3) => (c3 = << >> <=> 3 = n)
    BY RestConsumed DEF n
  <2>2. n >= 3 => c2 # << >>
    BY <1>4, <1>7
  <2> QED
    BY <1>4, <1>7, <2>1, <2>2
<1> DEFINE flagged == n >= 2 /\ c[2].tag = "Boolean"
           flag == c[2].content \in {<< 0 >>, << 255 >>}
           set == c[2].content = << 255 >>
<1>9. /\ id.result = "Ok" <=> n >= 1 /\ c[1].tag = "OID"
      /\ id.result = "Ok" => id.value.value = c[1].content /\ id.value.rest = c1
  BY <1>4, <1>5, Expected DEF peek, c1
<1> HIDE DEF id
<1>10. id.result = "Ok" =>
          /\ ~flagged => /\ critical.result = "Ok" /\ critical.value.value = FALSE
                         /\ critical.value.rest = c1
          /\ flagged => /\ critical.result = "Ok" <=> flag
                        /\ critical.result = "Ok" =>
                               /\ set => critical.value.value = TRUE
                               /\ ~set => critical.value.value = FALSE
                               /\ critical.value.rest = c2
  <2> SUFFICES ASSUME id.result = "Ok"
               PROVE  /\ ~flagged => /\ critical.result = "Ok" /\ critical.value.value = FALSE
                                     /\ critical.value.rest = c1
                      /\ flagged => /\ critical.result = "Ok" <=> flag
                                    /\ critical.result = "Ok" =>
                                           /\ set => critical.value.value = TRUE
                                           /\ ~set => critical.value.value = FALSE
                                           /\ critical.value.rest = c2
    OBVIOUS
  <2>1. critical = bool_from_der(c1) /\ Reader1(c1) /\ n >= 1
    BY <1>6, <1>9
  <2>2. flagged <=> peek(c1, "Boolean")
    BY <1>4, <1>6, <2>1 DEF peek
  <2>3. flagged => Head(c1).content = c[2].content
    BY <1>4, <1>6, <2>1
  <2> HIDE DEF critical, flagged
  <2>4. ~flagged => /\ critical.result = "Ok" /\ critical.value.value = FALSE
                    /\ critical.value.rest = c1
    BY <2>1, <2>2, BoolRead
  <2>5. flagged => /\ critical.result = "Ok" <=> flag
                   /\ critical.result = "Ok" => /\ set => critical.value.value = TRUE
                                                /\ ~set => critical.value.value = FALSE
                                                /\ critical.value.rest = c2
    <3> DEFINE octets == Head(c1).content
    <3>1. peek(c1, "Boolean") =>
              /\ critical.result = "Ok" <=> octets \in {<< 0 >>, << 255 >>}
              /\ critical.result = "Ok" => /\ octets = << 255 >> => critical.value.value = TRUE
                                           /\ octets # << 255 >> => critical.value.value = FALSE
                                           /\ critical.value.rest = c2
      BY <2>1, BoolRead DEF c2
    <3> HIDE DEF octets
    <3>2. flagged => octets = c[2].content
      BY <2>3 DEF octets
    <3> QED
      BY <2>2, <3>1, <3>2
  <2> QED
    BY <2>4, <2>5
<1> HIDE DEF critical, v
<1>11. id.result = "Ok" /\ critical.result = "Ok" =>
          /\ ~flagged => /\ value.result = "Ok" <=> n >= 2 /\ c[2].tag = "OctetString"
                         /\ value.result = "Ok" => /\ value.value.value = c[2].content
                                                   /\ value.value.rest = c2
          /\ flagged => /\ value.result = "Ok" <=> n >= 3 /\ c[3].tag = "OctetString"
                        /\ value.result = "Ok" => /\ value.value.value = c[3].content
                                                  /\ value.value.rest = c3
  <2> DEFINE rest == critical.value.rest
  <2>1. /\ value.result = "Ok" <=> peek(rest, "OctetString")
        /\ value.result = "Ok" => value.value.value = Head(rest).content
                                  /\ value.value.rest = Tail(rest)
    BY Expected
  <2> HIDE DEF rest, value, flag, set
  <2>2. CASE id.result = "Ok" /\ critical.result = "Ok" /\ ~flagged
    <3>1. rest = c1 /\ n >= 1
      BY <1>9, <1>10, <2>2 DEF rest
    <3>2. peek(c1, "OctetString") <=> n >= 2 /\ c[2].tag = "OctetString"
      BY <1>4, <1>6, <3>1 DEF peek
    <3>3. peek(c1, "OctetString") => Head(c1) = c[2]
      BY <1>6, <3>1 DEF peek
    <3> HIDE DEF flagged
    <3> QED
      BY <2>1, <2>2, <3>1, <3>2, <3>3 DEF c2
  <2>3. CASE id.result = "Ok" /\ critical.result = "Ok" /\ flagged
    <3>1. rest = c2 /\ n >= 2
      BY <1>10, <2>3 DEF rest
    <3>2. peek(c2, "OctetString") <=> n >= 3 /\ c[3].tag = "OctetString"
      <4>1. c2 # << >> <=> n >= 3
        BY <1>4, <1>7, <3>1
      <4> QED
        BY <1>7, <3>1, <4>1 DEF peek
    <3>3. peek(c2, "OctetString") => Head(c2) = c[3]
      BY <1>7, <3>1 DEF peek
    <3> HIDE DEF flagged
    <3> QED
      BY <2>1, <2>3, <3>1, <3>2, <3>3 DEF c3
  <2> HIDE DEF flagged
  <2> QED
    BY <2>2, <2>3
<1> HIDE DEF value, x, flag, set
<1>12. x.result = "Ok" <=> id.result = "Ok" /\ critical.result = "Ok" /\ value.result = "Ok"
  BY <1>1, ResultFacts
<1>13. x.result = "Ok" => x.value.value = v /\ x.value.rest = value.value.rest
  BY <1>1, ResultFacts
<1> DEFINE two == n = 2 /\ c[1].tag = "OID" /\ c[2].tag = "OctetString"
           three == /\ n = 3 /\ c[1].tag = "OID" /\ c[2].tag = "Boolean"
                    /\ c[3].tag = "OctetString" /\ flag
<1>14. Shape(c) <=> two \/ three
  <2>1. Tags(c) = << "OID", "OctetString" >> <=>
            n = 2 /\ c[1].tag = "OID" /\ c[2].tag = "OctetString"
    BY <1>3, TagsOfTwo DEF n
  <2>2. Tags(c) = << "OID", "Boolean", "OctetString" >> <=>
            n = 3 /\ c[1].tag = "OID" /\ c[2].tag = "Boolean" /\ c[3].tag = "OctetString"
    BY <1>3, TagsOfThree DEF n
  <2>3. Shape(c) <=> /\ \/ Tags(c) = << "OID", "OctetString" >>
                        \/ Tags(c) = << "OID", "Boolean", "OctetString" >>
                     /\ n = 3 => flag
    BY DEF Shape, n, flag
  <2> QED
    BY <2>1, <2>2, <2>3
<1>15. x.result = "Ok" /\ x.value.rest = << >> <=> two \/ three
  <2>1. CASE flagged
    BY <1>4, <1>7, <1>8, <1>9, <1>10, <1>11, <1>12, <1>13, <2>1
  <2>2. CASE ~flagged
    BY <1>4, <1>6, <1>7, <1>9, <1>10, <1>11, <1>12, <1>13, <2>2
  <2> QED
    BY <2>1, <2>2
<1>16. two \/ three => x.value.value.id = c[1].content
  BY <1>2, <1>9, <1>12, <1>13, <1>15
<1>17. two => /\ x.value.value.critical = FALSE /\ n # 3
              /\ x.value.value.value = c[n].content
  <2>1. two => ~flagged /\ n # 3
    OBVIOUS
  <2> QED
    BY <1>2, <1>9, <1>10, <1>11, <1>12, <1>13, <1>15, <2>1
<1>18. three => /\ set => x.value.value.critical = TRUE
                /\ ~set => x.value.value.critical = FALSE
                /\ n = 3
                /\ x.value.value.value = c[n].content
  <2>1. three => flagged /\ n = 3
    OBVIOUS
  <2> QED
    BY <1>2, <1>9, <1>10, <1>11, <1>12, <1>13, <1>15, <2>1
<1>19. two \/ three => IF n = 3 /\ set THEN x.value.value.critical = TRUE
                       ELSE x.value.value.critical = FALSE
  BY <1>17, <1>18
<1> QED
  BY <1>14, <1>15, <1>16, <1>17, <1>18, <1>19 DEF x, n, set

\* A well-formed extension ends with its value.
LEMMA ShapeEnds ==
    ASSUME NEW c, IsSeq(c), Shape(c)
    PROVE  c[Len(c)].tag = "OctetString" /\ Len(c) \in DOMAIN c
<1> DEFINE n == Len(c)
<1>1. n \in Nat /\ DOMAIN c = 1..n
  BY ListFacts
<1>2. \/ Tags(c) = << "OID", "OctetString" >>
      \/ Tags(c) = << "OID", "Boolean", "OctetString" >>
  BY DEF Shape
<1>3. Tags(c) = << "OID", "OctetString" >> => n = 2 /\ c[2].tag = "OctetString"
  BY TagsOfTwo
<1>4. Tags(c) = << "OID", "Boolean", "OctetString" >> => n = 3 /\ c[3].tag = "OctetString"
  BY TagsOfThree
<1> HIDE DEF n
<1>5. c[n].tag = "OctetString" /\ n \in 1..n
  BY <1>2, <1>3, <1>4
<1> QED
  BY <1>1, <1>5 DEF n

\* The extension in an element, whole.
LEMMA ExtensionOf ==
    ASSUME NEW e, Reader2(e.content)
    PROVE  LET ext == Extension_from_der(e.content)
               x == ext.value.value
           IN  /\ ext.result = "Ok" /\ ext.value.rest = << >> <=> Shape(e.content)
               /\ Shape(e.content) => /\ x.id = Id(e) /\ x.value = Content(e)
                                      /\ x.critical <=> Critical(e)
                                      /\ Reader1(x.value)
<1> DEFINE b == e.content
           ext == Extension_from_der(b)
           x == ext.value.value
<1>1. Reader1(b)
  BY ReaderWeaker
<1>2. Id(e) = b[1].content /\ Content(e) = b[Len(b)].content
      /\ (Critical(e) <=> Len(b) = 3 /\ b[2].content = << 255 >>)
  BY DEF Id, Content, Critical
<1>3. Reader2(b)
  OBVIOUS
<1> HIDE DEF b
<1>4. /\ ext.result = "Ok" /\ ext.value.rest = << >> <=> Shape(b)
      /\ Shape(b) => /\ x.id = b[1].content
                     /\ IF Len(b) = 3 /\ b[2].content = << 255 >>
                        THEN x.critical = TRUE ELSE x.critical = FALSE
                     /\ x.value = b[Len(b)].content
  BY <1>1, ExtensionRead
<1>5. Shape(b) => b[Len(b)].tag = "OctetString" /\ Len(b) \in DOMAIN b
  BY <1>1, ReaderWeaker, ShapeEnds
<1>6. Shape(b) => Reader1(b[Len(b)].content)
  BY <1>3, <1>5 DEF Reader2, ReaderOf
<1> QED
  BY <1>2, <1>4, <1>6 DEF b
=============================================================================
