-------------------------- MODULE RevocationClient --------------------------
(***************************************************************************)
(* A caller that loads a CRL (crl.rs), keeps it in its borrowed form or    *)
(* converts it to the owned one, configures revocation checking with       *)
(* RevocationOptionsBuilder (verify_cert.rs) and has a certificate checked *)
(* with check_crls.  It composes CrlParsing, which works on the elements   *)
(* of the CRL, with CrlAuthority, which decides if the CRL covers the      *)
(* certificate, and Revocation, which path building uses.                  *)
(***************************************************************************)
EXTENDS CrlParsing, CrlAuthority, WellFormed

CONSTANTS
    CrlInputs,   \* what may be loaded: sequences of elements
    Queries,     \* certificates to be checked; a query is [issuer, serial, points,
                 \* is_ca, issuer_spki, issuer_ku], where points is an Option of
                 \* the elements of its CRL distribution points
    Algorithms,  \* supported signature algorithms
    MaxCalls     \* bound on the calls of the builder

VARIABLES
    crl_der,  \* the input
    pc,       \* "load", "loaded", "configure", "built", "check" or "done"
    loaded,   \* Result of from_der
    owned,    \* Option of the Result of to_owned
    builder,  \* RevocationOptionsBuilder, then RevocationOptions
    calls,    \* the calls of the builder so far
    query,    \* the certificate that was checked
    verdict   \* of loading, converting, building or checking

client_vars == << crl_der, pc, loaded, owned, builder, calls, query, verdict >>

vars == << client_vars, authority_vars >>

loaded_idp(crl) ==
    idp_view(IssuingDistributionPoint_from_der(The(crl.issuing_distribution_point)).value)

\* The distribution points of the certificate as authoritative_for reads them.
cert_view(q) ==
    [ issuer |-> q.issuer, serial |-> q.serial,
      crl_distribution_points |->
          IF ~IsSome(q.points) THEN None
          ELSE Some([i \in DOMAIN The(q.points) |-> dp_view(The(q.points)[i])]) ]

\* What is assumed of the inputs: they are readers, as deep as the parsers of a CRL look
\* (CRL, body, to-be-signed part, tag of the extensions, their list, extension, value,
\* issuing distribution point, its name).
ASSUME CrlInputsAssumption == \A der \in CrlInputs : Reader9(der)

\* The distribution points of a certificate and their names are sequences.
PointsWellFormed(dps) ==
    /\ IsSeq(dps)
    /\ \A i \in DOMAIN dps : usable_dp(dps[i]) => IsSeq(The(dps[i].value.full_name))

ASSUME QueriesAssumption ==
    \A q \in Queries :
        IsSome(q.points) => PointsWellFormed(The(cert_view(q).crl_distribution_points))

Init ==
    /\ crl_der \in CrlInputs
    /\ pc = "load"
    /\ loaded = Err("BadDer") /\ owned = None
    /\ builder = None /\ calls = << >>
    /\ query = None /\ verdict = "None"
    /\ Idle

Load ==
    /\ pc = "load"
    /\ loaded' = crl_from_der(crl_der)
    /\ IF loaded'.result = "Ok" THEN pc' = "loaded" /\ UNCHANGED verdict
                                ELSE pc' = "done" /\ verdict' = loaded'.result
    /\ UNCHANGED << crl_der, owned, builder, calls, query, authority_vars >>

ToOwned ==
    /\ pc = "loaded" /\ owned = None
    /\ LET result == to_owned(loaded.value)
       IN  /\ owned' = Some(result)
           /\ IF result.result = "Ok" THEN UNCHANGED << pc, verdict >>
                                      ELSE pc' = "done" /\ verdict' = result.result
    /\ UNCHANGED << crl_der, loaded, builder, calls, query, authority_vars >>

\* A loaded CRL as check_crls sees it.  The borrowed form decodes its entries at
\* every lookup; the owned form has a map.
borrowed_view(crl) ==
    [ issuer |-> crl.issuer,
      issuing_distribution_point |->
          IF ~IsSome(crl.issuing_distribution_point) THEN None ELSE Some(loaded_idp(crl)),
      signed_data |-> [algorithm |-> crl.signed_data.algorithm,
                       signer |-> crl.signed_data.signature],
      revoked |-> [i \in DOMAIN entries(crl) |->
                      AndThen(entries(crl)[i], LAMBDA e : Ok(e.serial_number))] ]

owned_view(crl, map) ==
    [borrowed_view(crl) EXCEPT
        !.revoked = SetToSeq({Ok(e.serial_number) : e \in map})]

\* Mutant of the defaults: an unknown status is allowed.
defaults_open(crls) == [crls |-> crls, depth |-> "Chain", status_requirement |-> "Allow"]

defaults(crls) == [crls |-> crls, depth |-> "Chain", status_requirement |-> "Deny"]

\* RevocationOptionsBuilder::new.
NewBuilder ==
    /\ pc = "loaded"
    /\ builder' = Some(defaults(
           << IF IsSome(owned) THEN owned_view(loaded.value, The(owned).value)
                               ELSE borrowed_view(loaded.value) >>))
    /\ pc' = "configure"
    /\ UNCHANGED << crl_der, loaded, owned, calls, query, verdict, authority_vars >>

NewBuilderWithoutCrls ==
    /\ pc = "loaded"
    /\ pc' = "done"
    /\ verdict' = "CrlsRequired"
    /\ UNCHANGED << crl_der, loaded, owned, builder, calls, query, authority_vars >>

\* A call of a setter; the builder is passed by value.
Set(options, value) ==
    /\ pc = "configure" /\ Len(calls) < MaxCalls
    /\ builder' = Some(options)
    /\ calls' = Append(calls, value)
    /\ UNCHANGED << crl_der, pc, loaded, owned, query, verdict, authority_vars >>

WithDepth == \E d \in {"EndEntity", "Chain"} : Set([The(builder) EXCEPT !.depth = d], d)

AllowUnknownStatus ==
    Set([The(builder) EXCEPT !.status_requirement = "Allow"], "Allow")

ForbidUnknownStatus ==
    Set([The(builder) EXCEPT !.status_requirement = "Deny"], "Deny")

\* RevocationOptionsBuilder::build copies the three fields.
Build ==
    /\ pc = "configure"
    /\ pc' = "built"
    /\ UNCHANGED << crl_der, loaded, owned, builder, calls, query, verdict, authority_vars >>

check(q, options) ==
    check_crls(Algorithms, cert_view(q), q.is_ca, q.issuer_spki, q.issuer_ku, options)

\* check_crls begins.  If it gets to the issuing distribution point of the CRL, it
\* calls authoritative_for.
Ask ==
    /\ pc = "built"
    /\ \E q \in Queries :
           LET options == The(builder)
               crl     == options.crls[1]
           IN  /\ query' = Some(q)
               /\ IF /\ ~(options.depth = "EndEntity" /\ q.is_ca)
                     /\ crl.issuer = q.issuer
                     /\ IsSome(crl.issuing_distribution_point)
                  THEN Call(The(crl.issuing_distribution_point), cert_view(q), q.is_ca)
                  ELSE UNCHANGED authority_vars
    /\ pc' = "check"
    /\ UNCHANGED << crl_der, loaded, owned, builder, calls, verdict >>

Authority == AuthorityNext /\ UNCHANGED client_vars

\* check_crls ends.  `check' evaluates authoritative_for in closed form, which is the
\* answer that Authority just found (ComputesClosedForm).
Check ==
    /\ pc = "check" /\ step \in {"idle", "done"}
    /\ verdict' = check(The(query), The(builder))
    /\ pc' = "done"
    /\ UNCHANGED << crl_der, loaded, owned, builder, calls, query, authority_vars >>

Done == pc = "done" /\ UNCHANGED vars

Next ==
    \/ Load \/ ToOwned
    \/ NewBuilder \/ NewBuilderWithoutCrls
    \/ WithDepth \/ AllowUnknownStatus \/ ForbidUnknownStatus \/ Build
    \/ Ask \/ Authority \/ Check
    \/ Done

Spec == Init /\ [][Next]_vars /\ WF_vars(Authority)

-----------------------------------------------------------------------------
(* What a CRL says, read off its elements.                                 *)

Times == {"UTCTime", "GeneralizedTime"}

\* The fields of an issuing distribution point, in the order of its ASN.1 type, without
\* onlySomeReasons, which is not supported (RFC 5280, 5.2.5).
IdpFieldTags == << "ContextSpecificConstructed0", "ContextSpecific1", "ContextSpecific2",
                   "ContextSpecific4", "ContextSpecific5" >>

Precedes(tag, other) ==
    \E m, n \in DOMAIN IdpFieldTags :
        m < n /\ IdpFieldTags[m] = tag /\ IdpFieldTags[n] = other

Flags == {"ContextSpecific1", "ContextSpecific2", "ContextSpecific4", "ContextSpecific5"}

\* indirectCRL and onlyContainsAttributeCerts.
UnsupportedFlags == {"ContextSpecific4", "ContextSpecific5"}

\* A well-formed issuing distribution point that names its distribution point in full and
\* asks for nothing else that is not supported.  A flag may be an explicit FALSE.
SupportedIdp(value) ==
    /\ Tags(value) = << "Sequence" >>
    /\ LET fields == Head(value).content
       IN  /\ \A f \in Range(fields) :
                  \/ /\ f.tag = "ContextSpecificConstructed0"
                     /\ Tags(f.content) = << "ContextSpecificConstructed0" >>
                  \/ f.tag \in Flags /\ f.content = << 0 >>
                  \/ f.tag \in Flags \ UnsupportedFlags /\ f.content = << 255 >>
           /\ \E f \in Range(fields) : f.tag = "ContextSpecificConstructed0"
           /\ \A i, j \in DOMAIN fields : i < j => Precedes(fields[i].tag, fields[j].tag)

\* The most that is let through beyond that: the fields may be in another order, a flag may
\* be repeated, and there may be data after the value or after the full name.  A flag that
\* is not supported is let through only if it is also taken back.
ToleratedIdp(value) ==
    /\ peek(value, "Sequence")
    /\ LET fields == Head(value).content
           With(tag) == {i \in DOMAIN fields : fields[i].tag = tag}
       IN  /\ \A f \in Range(fields) :
                  \/ /\ f.tag = "ContextSpecificConstructed0"
                     /\ peek(f.content, "ContextSpecificConstructed0")
                  \/ f.tag \in Flags /\ f.content \in {<< 0 >>, << 255 >>}
           /\ Cardinality(With("ContextSpecificConstructed0")) = 1
           /\ \A tag \in UnsupportedFlags :
                  With(tag) # {} => \E i \in With(tag) : fields[i].content = << 0 >>

\* The extensions, apart from what the issuing distribution point says.  One that the
\* program does not keep, such as the CRL number, may be repeated.
SupportedExtensions(list) ==
    /\ list # << >>
    /\ \A i \in DOMAIN list : WellFormedExtension(list[i])
    /\ \A i \in DOMAIN list :
           CASE Id(list[i]) = "cRLNumber" ->
                    /\ Tags(Content(list[i])) = << "Integer" >>
                    /\ LET v == Head(Content(list[i])).content
                       IN  /\ Len(v) \in 1..21 /\ v[1] < 128
                           /\ Len(v) > 1 => (v[1] # 0 \/ v[2] >= 128)
                           /\ Len(v) = 21 => v[1] = 0
             [] Id(list[i]) = "issuingDistributionPoint" ->
                    \A j \in DOMAIN list \ {i} : Id(list[j]) # Id(list[i])
             [] Id(list[i]) = "authorityKeyIdentifier" -> TRUE
             [] Id(list[i]) = "deltaCRLIndicator" -> FALSE
             [] OTHER -> ~Critical(list[i])

SupportedApartFromIdp(der) ==
    /\ Tags(der) = << "Sequence" >>
    /\ Tags(der[1].content) = << "Sequence", "Sequence", "BitString" >>
    /\ LET body == der[1].content
           t    == body[1].content
       IN  /\ body[3].content # << >> /\ Head(body[3].content) = 0
           /\ Len(t) \in {6, 7}
           /\ Tags(SubSeq(t, 1, 3)) = << "Integer", "Sequence", "Sequence" >>
           /\ t[1].content = << 1 >> /\ t[2].content = body[2].content
           /\ \A i \in {4, 5} : t[i].tag \in Times /\ t[i].content # "malformed"
           /\ Len(t) = 7 => t[6].tag = "Sequence"
           /\ t[Len(t)].tag = "ContextSpecificConstructed0"
           /\ Tags(t[Len(t)].content) = << "Sequence" >>
           /\ SupportedExtensions(t[Len(t)].content[1].content)

\* The values of the issuing distribution point extensions.
Idps(der) ==
    LET t == der[1].content[1].content
    IN  {Content(e) : e \in {x \in Range(t[Len(t)].content[1].content) :
                                 Id(x) = "issuingDistributionPoint"}}

Supported(der) == SupportedApartFromIdp(der) /\ \A v \in Idps(der) : SupportedIdp(v)

Tolerated(der) == SupportedApartFromIdp(der) /\ \A v \in Idps(der) : ToleratedIdp(v)

\* The serial numbers in the list of a CRL, whatever else is wrong with it.
Listed(der) ==
    LET t == der[1].content[1].content
    IN  IF Len(t) < 7 THEN {}
        ELSE {Head(e.content).content :
                  e \in {x \in Range(t[6].content) :
                             x.tag = "Sequence" /\ peek(x.content, "Integer")}}

Checked == pc = "done" /\ IsSome(query)

Exempt == The(query).is_ca /\ The(builder).depth = "EndEntity"

Covered ==
    crl_authoritative(The(builder).crls[1], cert_view(The(query)), The(query).is_ca)

\* BorrowedCertRevocationList::from_der, through six nested readers, loads every CRL of
\* version 2 with a next update, sensible extensions and, if it has one, a well-formed
\* issuing distribution point with a full name and no unsupported feature; and of the
\* others only those whose issuing distribution point is ill-formed in a tolerated way.
LoadsSupported ==
    pc # "load" => /\ Supported(crl_der) => loaded.result = "Ok"
                   /\ loaded.result = "Ok" => Tolerated(crl_der)

\* A CRL is loaded only if its issuing distribution point is well-formed and uses no
\* feature that is not supported, which is why BorrowedCertRevocationList::from_der parses
\* it up-front.  VIOLATED: in IssuingDistributionPoint::from_der a later field overwrites an
\* indirectCRL flag that is set, and nobody looks for data after the SEQUENCE.
LoadedIdpSupported ==
    pc # "load" /\ loaded.result = "Ok" => \A v \in Idps(crl_der) : SupportedIdp(v)

\* A certificate whose serial number is in the list is never accepted by checking
\* that applies to it, in either form of the CRL, however its entry and the ones
\* before it are encoded (find_serial).
RevokedNeverOk ==
    Checked /\ ~Exempt /\ Covered /\ The(query).serial \in Listed(crl_der)
        => verdict # "Ok"

\* Once a CRL was converted, the owned form gives every certificate the verdict
\* that the borrowed one does, also if serial numbers are repeated (to_owned).
FormIndependent ==
    Checked /\ IsSome(owned) =>
        verdict = check(The(query), [The(builder) EXCEPT !.crls = << borrowed_view(loaded.value) >>])

\* Unless the caller's last word on it was to allow it, a certificate that the CRL
\* does not cover is accepted only if the caller's last word on the depth exempts
\* it (RevocationOptionsBuilder).
FailClosed ==
    LET last(values) == {i \in DOMAIN calls :
                             /\ calls[i] \in values
                             /\ \A j \in DOMAIN calls : calls[j] \in values => j <= i}
        says(values, value) == \E i \in last(values) : calls[i] = value
    IN  Checked /\ ~Covered /\ verdict = "Ok" =>
            \/ says({"Allow", "Deny"}, "Allow")
            \/ The(query).is_ca /\ says({"EndEntity", "Chain"}, "EndEntity")
=============================================================================
