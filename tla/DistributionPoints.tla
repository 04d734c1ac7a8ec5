------------------------- MODULE DistributionPoints -------------------------
(***************************************************************************)
(* Distribution points: the one of a CRL (crl.rs:                          *)
(* IssuingDistributionPoint::from_der) and those of a certificate          *)
(* (cert.rs: CrlDistributionPoint::from_der).                              *)
(*                                                                         *)
(* Their fields are elements with context-specific tags.                   *)
(***************************************************************************)
EXTENDS X509, BitStrings

decode_bool(octets) ==
    IF octets \in {<< 255 >>, << 0 >>} THEN Ok(octets = << 255 >>) ELSE Err("BadDer")

\* names(): Result<Option<DistributionPointName>>.
names(dp) ==
    IF ~IsSome(dp.distribution_point) THEN Ok(None)
    ELSE AndThen(DistributionPointName_from_der(The(dp.distribution_point)),
                 LAMBDA name : Ok(Some(name)))

-----------------------------------------------------------------------------
(* The extension of a CRL.                                                 *)

IdpFlags == [
    ContextSpecific1 |-> "only_contains_user_certs",
    ContextSpecific2 |-> "only_contains_ca_certs",
    ContextSpecific4 |-> "indirect_crl",
    ContextSpecific5 |-> "only_contains_attribute_certs" ]

\* One round of the loop over the fields: flags are assigned, the others set once.
idp_field(idp, element) ==
    IF element.tag \in DOMAIN IdpFlags
    THEN AndThen(decode_bool(element.content), LAMBDA v :
             Ok([idp EXCEPT ![IdpFlags[element.tag]] = v]))
    ELSE CASE element.tag = "ContextSpecificConstructed0" ->
                  set_extension_once(idp, "distribution_point", Ok(element.content))
           [] element.tag = "ContextSpecific3" ->
                  set_extension_once(idp, "only_some_reasons",
                                     bit_string_flags(element.content))
           [] OTHER -> Err("BadDer")

\* The checks after the loop, in the code's order.
idp_supported(idp) ==
    IF idp.only_contains_attribute_certs THEN Err("MalformedExtensions")
    ELSE IF idp.indirect_crl THEN Err("UnsupportedIndirectCrl")
    ELSE IF IsSome(idp.only_some_reasons)
         THEN Err("UnsupportedRevocationReasonsPartitioning")
    ELSE IF names(idp).result # "Ok" THEN Err("MalformedExtensions")
    ELSE IF IsSome(names(idp).value) /\ The(names(idp).value).type = "FullName" THEN Ok(idp)
    ELSE Err("UnsupportedCrlIssuingDistributionPoint")

\* IssuingDistributionPoint::from_der reads the first element of the extension; its
\* reader is dropped with what may follow it.
IssuingDistributionPoint_from_der(der) ==
    LET empty == [ only_contains_user_certs |-> FALSE, only_contains_ca_certs |-> FALSE,
                   indirect_crl |-> FALSE, only_contains_attribute_certs |-> FALSE,
                   distribution_point |-> None, only_some_reasons |-> None ]
        outer == expect_tag(der, "Sequence")
    IN  IF outer.result # "Ok" THEN Err("TrailingData")
        ELSE AndThen(Loop(idp_field, empty, outer.value.value), idp_supported)

-----------------------------------------------------------------------------
(* The distribution points of a certificate.                               *)

dp_field(dp, element) ==
    CASE element.tag = "ContextSpecificConstructed0" ->
             set_extension_once(dp, "distribution_point", Ok(element.content))
      [] element.tag = "ContextSpecific1" ->
             set_extension_once(dp, "reasons", bit_string_flags(element.content))
      [] element.tag = "ContextSpecificConstructed2" ->
             set_extension_once(dp, "crl_issuer", Ok(element.content))
      [] OTHER -> Err("BadDer")

\* CrlDistributionPoint::from_der of one element of the extension.
CrlDistributionPoint_from_der(element) ==
    LET empty == [distribution_point |-> None, reasons |-> None, crl_issuer |-> None]
    IN  IF element.tag # "Sequence" THEN Err("TrailingData")
        ELSE AndThen(Loop(dp_field, empty, element.content), LAMBDA dp :
                 IF IsSome(dp.distribution_point) \/ IsSome(dp.crl_issuer)
                 THEN Ok(dp) ELSE Err("MalformedExtensions"))

GeneralNameTypes == [
    ContextSpecific2 |-> "DnsName", ContextSpecificConstructed4 |-> "DirectoryName",
    ContextSpecific7 |-> "IpAddress", ContextSpecific6 |-> "Uri",
    ContextSpecificConstructed0 |-> "Unsupported", ContextSpecific1 |-> "Unsupported",
    ContextSpecificConstructed3 |-> "Unsupported",
    ContextSpecificConstructed5 |-> "Unsupported", ContextSpecific8 |-> "Unsupported" ]

GeneralName_from_der(element) ==
    IF element.tag \in DOMAIN GeneralNameTypes
    THEN Ok([type |-> GeneralNameTypes[element.tag], value |-> element.content])
    ELSE Err("BadDer")

General(elements) == [i \in DOMAIN elements |-> GeneralName_from_der(elements[i])]

\* What authoritative_for uses of an issuing distribution point that was loaded.
idp_view(idp) ==
    [ only_contains_user_certs |-> idp.only_contains_user_certs,
      only_contains_ca_certs |-> idp.only_contains_ca_certs,
      names |-> General(The(names(idp).value).names) ]

\* What it uses of a certificate's distribution point: a name that is missing,
\* relative or malformed is no full name.
dp_view(element) ==
    AndThen(CrlDistributionPoint_from_der(element), LAMBDA dp :
        Ok([ crl_issuer |-> IsSome(dp.crl_issuer), reasons |-> IsSome(dp.reasons),
             full_name |->
                 LET name == names(dp)
                 IN  IF name.result = "Ok" /\ IsSome(name.value)
                        /\ The(name.value).type = "FullName"
                     THEN Some(General(The(name.value).names)) ELSE None ]))
=============================================================================
