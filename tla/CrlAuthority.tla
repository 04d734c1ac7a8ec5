---------------------------- MODULE CrlAuthority ----------------------------
(***************************************************************************)
(* Does the scope of a CRL include a certificate?  IssuingDistributionPoint*)
(* ::authoritative_for and uri_name_in_common (crl.rs), name by name, with *)
(* the iterators they share: `idp_general_names' is created once and lent  *)
(* to every call of uri_name_in_common, `dp_general_names' is created once *)
(* per distribution point and lent to every scan of the inner loop.        *)
(* Revocation!authoritative_for is the closed form of this computation.    *)
(* RevocationClient makes the calls.                                       *)
(***************************************************************************)
EXTENDS Revocation

VARIABLES
    case,               \* the arguments [idp, cert, is_ca], an Option
    cert_dps,           \* distribution points not yet looked at
    idp_general_names,  \* what is left of the CRL's names
    dp_general_names,   \* what is left of the current point's names
    uri,                \* the CRL name the inner loop looks for
    step,               \* "idle", "scope", "points", "idp_names", "dp_names", "done"
    authoritative

authority_vars ==
    << case, cert_dps, idp_general_names, dp_general_names, uri, step, authoritative >>

Idle ==
    /\ case = None
    /\ cert_dps = << >>
    /\ idp_general_names = << >>
    /\ dp_general_names = << >>
    /\ uri = None
    /\ step = "idle"
    /\ authoritative = FALSE

\* The call of authoritative_for.
Call(idp, cert, ca) ==
    /\ step = "idle"
    /\ step' = "scope"
    /\ case' = Some([idp |-> idp, cert |-> cert, is_ca |-> ca])
    /\ UNCHANGED << cert_dps, idp_general_names, dp_general_names, uri, authoritative >>

args == The(case)

\* DerIterator::next consumes an element whether it decodes or not.
\* Mutant: it stays where decoding failed.
advance_past_valid(names) == IF Head(names).result = "Ok" THEN Tail(names) ELSE names

advance(names) == Tail(names)

Decide(v) == step' = "done" /\ authoritative' = v

\* The scope, and a certificate without distribution points.
CheckScope ==
    /\ step = "scope"
    /\ IF scope_includes(args.idp, args.is_ca) /\ IsSome(args.cert.crl_distribution_points)
       THEN /\ step' = "points"
            /\ cert_dps' = The(args.cert.crl_distribution_points)
            /\ idp_general_names' = args.idp.names
            /\ UNCHANGED authoritative
       ELSE /\ Decide(scope_includes(args.idp, args.is_ca))
            /\ UNCHANGED << cert_dps, idp_general_names >>
    /\ UNCHANGED << case, dp_general_names, uri >>

\* The loop over the distribution points: take the next one.
NextPoint ==
    /\ step = "points"
    /\ cert_dps # << >>
    /\ IF usable_dp(Head(cert_dps))
       THEN /\ step' = "idp_names"
            /\ dp_general_names' = The(Head(cert_dps).value.full_name)
            /\ UNCHANGED authoritative
       ELSE Decide(FALSE) /\ UNCHANGED dp_general_names
    /\ cert_dps' = advance(cert_dps)
    /\ UNCHANGED << case, idp_general_names, uri >>

PointsExhausted ==
    /\ step = "points"
    /\ cert_dps = << >>
    /\ Decide(FALSE)
    /\ UNCHANGED << case, cert_dps, idp_general_names, dp_general_names, uri >>

\* The outer loop of uri_name_in_common: take the CRL's next name.
NextIdpName ==
    /\ step = "idp_names"
    /\ idp_general_names # << >>
    /\ IF IsUri(Head(idp_general_names))
       THEN step' = "dp_names" /\ uri' = Some(Head(idp_general_names).value.value)
       ELSE UNCHANGED << step, uri >>
    /\ idp_general_names' = advance(idp_general_names)
    /\ UNCHANGED << case, cert_dps, dp_general_names, authoritative >>

\* uri_name_in_common returns false.
IdpNamesExhausted ==
    /\ step = "idp_names"
    /\ idp_general_names = << >>
    /\ step' = "points"
    /\ UNCHANGED << case, cert_dps, idp_general_names, dp_general_names, uri, authoritative >>

\* The inner loop: take the next name of the distribution point.
NextDpName ==
    /\ step = "dp_names"
    /\ dp_general_names # << >>
    /\ IF names_uri(Head(dp_general_names), The(uri))
       THEN Decide(TRUE)
       ELSE UNCHANGED << step, authoritative >>
    /\ dp_general_names' = advance(dp_general_names)
    /\ UNCHANGED << case, cert_dps, idp_general_names, uri >>

DpNamesExhausted ==
    /\ step = "dp_names"
    /\ dp_general_names = << >>
    /\ step' = "idp_names"
    /\ UNCHANGED << case, cert_dps, idp_general_names, dp_general_names, uri, authoritative >>

AuthorityNext ==
    \/ CheckScope \/ NextPoint \/ PointsExhausted \/ NextIdpName
    \/ IdpNamesExhausted \/ NextDpName \/ DpNamesExhausted

-----------------------------------------------------------------------------
UriValues(names) ==
    {names[i].value.value : i \in {j \in DOMAIN names : IsUri(names[j])}}

\* What the comments of crl_authoritative and authoritative_for describe: at
\* least one distribution point has a URI that is also a URI of the CRL.
SharesUri(idp, dps) ==
    \E k \in DOMAIN dps :
        /\ usable_dp(dps[k])
        /\ UriValues(The(dps[k].value.full_name)) \cap UriValues(idp.names) # {}

\* The iterator loops of authoritative_for compute the closed form that path
\* building uses, also for several distribution points and several names.
ComputesClosedForm ==
    step = "done" => (authoritative <=> authoritative_for(args.idp, args.cert, args.is_ca))

\* authoritative_for answers true only within the CRL's scope and, for a
\* certificate with distribution points, only if a URI really is shared.
AuthorityIsJustified ==
    step = "done" /\ authoritative =>
        /\ args.idp.only_contains_ca_certs => args.is_ca
        /\ args.idp.only_contains_user_certs => ~args.is_ca
        /\ IsSome(args.cert.crl_distribution_points) =>
               SharesUri(args.idp, The(args.cert.crl_distribution_points))

\* The loops end: every iteration consumes an iterator that nothing refills
\* without consuming another.
AuthorityDecided == step = "scope" ~> step = "done"

\* crl.rs: "at least one CRL DP has a valid distribution point full name where
\* one of the general names is a Uniform Resource Identifier (URI) general name
\* that can also be found in the CRL issuing distribution point".
SharedUriSuffices ==
    step = "done" /\ scope_includes(args.idp, args.is_ca)
        /\ IsSome(args.cert.crl_distribution_points) =>
        LET dps == The(args.cert.crl_distribution_points)
        IN  (\A k \in DOMAIN dps : usable_dp(dps[k])) /\ SharesUri(args.idp, dps)
                => authoritative
=============================================================================
