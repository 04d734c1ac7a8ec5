----------------------------- MODULE Revocation -----------------------------
(***************************************************************************)
(* Revocation checking of one certificate against the CRLs of the caller   *)
(* (verify_cert.rs: check_crls, crl_authoritative; crl.rs: find_serial,    *)
(* authoritative_for).                                                     *)
(*                                                                         *)
(* A CRL is [issuer, issuing_distribution_point, signed_data, revoked];    *)
(* revoked is the sequence of Result<serial> its entries decode to (an     *)
(* owned CRL has no malformed entry).  The issuing distribution point is   *)
(* an Option of [only_contains_user_certs, only_contains_ca_certs, names]: *)
(* loading a CRL refuses one that is malformed or has no full name.        *)
(* A certificate's crl_distribution_points is an Option of a sequence of   *)
(* Result<[crl_issuer, reasons : BOOLEAN (present), full_name : Option]>;  *)
(* full_name is None for a missing, relative or malformed name.  Lists of  *)
(* general names are sequences of Result<GeneralName>.                     *)
(***************************************************************************)
EXTENDS CertChecks, SignedData

IsUri(name) == name.result = "Ok" /\ name.value.type = "Uri"

\* The first URI general name of a list, or 0.
first_uri(names) == SelectInSeq(names, IsUri)

\* IssuingDistributionPoint::authoritative_for, the scope of the CRL.
scope_includes(idp, is_ca) ==
    /\ idp.only_contains_ca_certs => is_ca
    /\ idp.only_contains_user_certs => ~is_ca

\* The name is this URI.
\* Mutant: any kind of name with that value.
names_uri_of_any_type(name, uri) == name.result = "Ok" /\ name.value.value = uri

names_uri(name, uri) == IsUri(name) /\ name.value.value = uri

\* A distribution point that is neither malformed, nor indirect, nor for some
\* reasons only, nor without a full name.
usable_dp(dp) ==
    /\ dp.result = "Ok"
    /\ ~dp.value.crl_issuer
    /\ ~dp.value.reasons
    /\ IsSome(dp.value.full_name)

\* Mutant of authoritative_for: later distribution points are looked at as well.
authoritative_for_any_point(idp, cert, is_ca) ==
    /\ scope_includes(idp, is_ca)
    /\ IsSome(cert.crl_distribution_points) =>
         LET cert_dps == The(cert.crl_distribution_points)
         IN  \E k \in DOMAIN cert_dps :
                 /\ usable_dp(cert_dps[k])
                 /\ first_uri(idp.names) # 0
                 /\ \E n \in DOMAIN The(cert_dps[k].value.full_name) :
                        names_uri(The(cert_dps[k].value.full_name)[n],
                                  idp.names[first_uri(idp.names)].value.value)

\* authoritative_for and uri_name_in_common.  Both lists of names are read
\* through iterators that are never rewound: the first URI of the CRL is
\* compared with every URI of the first distribution point, after which one of
\* the two iterators is exhausted and nothing else can match.
authoritative_for(idp, cert, is_ca) ==
    /\ scope_includes(idp, is_ca)
    /\ IsSome(cert.crl_distribution_points) =>
         LET cert_dps == The(cert.crl_distribution_points)
             first    == first_uri(idp.names)
         IN  /\ cert_dps # << >>
             /\ usable_dp(cert_dps[1])
             /\ first # 0
             /\ \E n \in DOMAIN The(cert_dps[1].value.full_name) :
                    names_uri(The(cert_dps[1].value.full_name)[n],
                              idp.names[first].value.value)

crl_authoritative(crl, cert, is_ca) ==
    /\ crl.issuer = cert.issuer
    /\ IF IsSome(crl.issuing_distribution_point)
       THEN authoritative_for(The(crl.issuing_distribution_point), cert, is_ca)
       ELSE ~IsSome(cert.crl_distribution_points)

-----------------------------------------------------------------------------
\* Mutant of find_serial: a malformed entry ends the list.
find_serial_to_malformed(crl, serial) ==
    LET stops(entry) == entry.result # "Ok" \/ entry.value = serial
        k == SelectInSeq(crl.revoked, stops)
    IN  Ok(k # 0 /\ crl.revoked[k].result = "Ok")

\* CertRevocationList::find_serial: the first entry that is malformed or has
\* the serial number decides.
find_serial(crl, serial) ==
    LET stops(entry) == entry.result # "Ok" \/ entry.value = serial
        k == SelectInSeq(crl.revoked, stops)
    IN  IF k = 0 THEN Ok(FALSE)
        ELSE IF crl.revoked[k].result # "Ok" THEN crl.revoked[k]
        ELSE Ok(TRUE)

\* Errors of a CRL's own signature get names of their own.
crl_signature_err(err) ==
    CASE err = "UnsupportedSignatureAlgorithm" -> "UnsupportedCrlSignatureAlgorithm"
      [] err = "UnsupportedSignatureAlgorithmForPublicKey" ->
             "UnsupportedCrlSignatureAlgorithmForPublicKey"
      [] err = "InvalidSignatureForPublicKey" -> "InvalidCrlSignatureForPublicKey"
      [] OTHER -> err

\* What the chosen CRL says of the certificate.
consult_crl(algs, crl, cert, issuer_spki, issuer_ku) ==
    LET found == find_serial(crl, cert.serial)
    IN  crl_signature_err(verify_signed_data(algs, issuer_spki, crl.signed_data))
        ?? check_key_usage(issuer_ku)
        ?? found.result
        ?? Require(~found.value, "CertRevoked")

\* RevocationOptions is [crls, depth, status_requirement]; only the first
\* authoritative CRL is consulted.
check_crls(algs, cert, is_ca, issuer_spki, issuer_ku, revocation) ==
    LET authoritative(crl) == crl_authoritative(crl, cert, is_ca)
        k == SelectInSeq(revocation.crls, authoritative)
    IN  IF revocation.depth = "EndEntity" /\ is_ca THEN "Ok"
        ELSE IF k = 0
             THEN Require(revocation.status_requirement = "Allow",
                          "UnknownRevocationStatus")
        ELSE consult_crl(algs, revocation.crls[k], cert, issuer_spki, issuer_ku)
=============================================================================
