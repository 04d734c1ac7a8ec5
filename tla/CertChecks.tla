----------------------------- MODULE CertChecks -----------------------------
(***************************************************************************)
(* The checks on one certificate that do not depend on its issuer          *)
(* (verify_cert.rs: check_issuer_independent_properties), and the KeyUsage *)
(* check made for CRL issuers.                                             *)
(*                                                                         *)
(* Every DER field is represented by what its decoder finds in it, element *)
(* by element, malformed elements included:                                *)
(*   validity          [not_before, not_after : Result<time>, trailing]    *)
(*   basic_constraints Option<[ca : Result<bool>,                          *)
(*                             path_len : Option<Result<u8>>, trailing]>   *)
(*   eku               Option<sequence of Result<oid>>                     *)
(*   key_usage         Option<Result<set of asserted bits>>                *)
(***************************************************************************)
EXTENDS Errors, SequencesExt

check_validity(validity, time) ==
    LET not_before == validity.not_before
        not_after  == validity.not_after
    IN  not_before.result ?? not_after.result
        ?? Require(not_before.value <= not_after.value, "InvalidCertValidity")
        ?? Require(not_before.value <= time, "CertNotValidYet")
        ?? Require(time <= not_after.value, "CertExpired")

-----------------------------------------------------------------------------
\* Decoding of BasicConstraints: the boolean, then the optional length.
parse_basic_constraints(bc) ==
    bc.ca.result
    ?? (IF IsSome(bc.path_len) THEN The(bc.path_len).result ELSE "Ok")

\* pathLenConstraint bounds the number of CA certificates below.
\* Mutant: off by one.
path_len_allows_fewer(path_len, sub_ca_count) ==
    IsSome(path_len) => sub_ca_count < The(path_len).value

path_len_allows(path_len, sub_ca_count) ==
    IsSome(path_len) => sub_ca_count <= The(path_len).value

\* An absent extension reads as "not a CA, no length constraint".
check_basic_constraints(basic_constraints, used_as_ca, sub_ca_count) ==
    LET present  == IsSome(basic_constraints)
        bc       == The(basic_constraints)
        is_ca    == present /\ bc.ca.value
    IN  (IF present THEN parse_basic_constraints(bc) ELSE "Ok")
        ?? Require(~(is_ca /\ ~used_as_ca), "CaUsedAsEndEntity")
        ?? Require(~(used_as_ca /\ ~is_ca), "EndEntityUsedAsCa")
        ?? Require(used_as_ca => path_len_allows(bc.path_len, sub_ca_count),
                   "PathLenConstraintViolated")

-----------------------------------------------------------------------------
\* ExtendedKeyUsage is [mode, oid], mode "Required" or "RequiredIfPresent".
key_purpose_id_equals(eku, oid) == eku.oid = oid

EKU_SERVER_AUTH == "id-kp-serverAuth"
EKU_CLIENT_AUTH == "id-kp-clientAuth"

server_auth   == [mode |-> "RequiredIfPresent", oid |-> EKU_SERVER_AUTH]
client_auth   == [mode |-> "RequiredIfPresent", oid |-> EKU_CLIENT_AUTH]
required(oid) == [mode |-> "Required", oid |-> oid]

\* ExtendedKeyUsage::check: the scan stops at the first purpose that matches,
\* or at the first malformed one; an empty extension is malformed.
check_eku(eku, extension) ==
    LET oids     == The(extension)
        stops(o) == o.result # "Ok" \/ key_purpose_id_equals(eku, o.value)
        k        == SelectInSeq(oids, stops)
    IN  IF ~IsSome(extension)
        THEN Require(eku.mode = "RequiredIfPresent", "RequiredEkuNotFound")
        ELSE Require(oids # << >>, "BadDer")
             ?? Require(k # 0, "RequiredEkuNotFound")
             ?? oids[k].result

-----------------------------------------------------------------------------
\* KeyUsageMode::CrlSign.check: absent means any usage.
CrlSign == 6

check_key_usage(key_usage) ==
    IF IsSome(key_usage)
    THEN The(key_usage).result
         ?? Require(CrlSign \in The(key_usage).value, "IssuerNotCrlSigner")
    ELSE "Ok"

-----------------------------------------------------------------------------
check_issuer_independent_properties(cert, time, used_as_ca, sub_ca_count, eku) ==
    LET bc == cert.basic_constraints
    IN  read_all(cert.validity.trailing, check_validity(cert.validity, time))
        ?? read_all(IsSome(bc) /\ The(bc).trailing,
                    check_basic_constraints(bc, used_as_ca, sub_ca_count))
        ?? check_eku(eku, cert.eku)
=============================================================================
