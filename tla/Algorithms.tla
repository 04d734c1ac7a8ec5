----------------------------- MODULE Algorithms -----------------------------
(***************************************************************************)
(* The scan for a signature algorithm (signed_data.rs: verify_signed_data, *)
(* verify_signature, SubjectPublicKeyInfo) over the algorithms that the    *)
(* crate provides (ring_algs.rs), with the sizes of RSA keys, which module *)
(* SignedData leaves out.                                                  *)
(*                                                                         *)
(* An algorithm identifier is the name of its encoding (alg_id), the       *)
(* parameters included.  The octets of a key are its size in bits and its  *)
(* owner, those of a signature the scheme and the key it was made with.    *)
(***************************************************************************)
EXTENDS SignedData, DerElements

CONSTANTS
    AlgorithmLists,     \* the slices passed as supported_algorithms
    SpkiValues,         \* readers of a SubjectPublicKeyInfo
    SignedObjects       \* readers of tbs || signatureAlgorithm || signature

VARIABLES
    supported_algorithms,
    spki_value,
    signed_data,
    at,                         \* the next algorithm of the scan
    found_signature_alg_match,
    result

vars == << supported_algorithms, spki_value, signed_data, at,
           found_signature_alg_match, result >>

-----------------------------------------------------------------------------
(* The provided algorithms.                                                *)

RingAlgorithm(public_key_alg_id, signature_alg_id, min_bits) ==
    [ public_key_alg_id |-> public_key_alg_id,
      signature_alg_id |-> signature_alg_id,
      min_bits |-> min_bits ]       \* 0 where there is one size only

ECDSA_P256_SHA256 == RingAlgorithm("ECDSA_P256", "ECDSA_SHA256", 0)
ECDSA_P256_SHA384 == RingAlgorithm("ECDSA_P256", "ECDSA_SHA384", 0)
ECDSA_P384_SHA256 == RingAlgorithm("ECDSA_P384", "ECDSA_SHA256", 0)
ECDSA_P384_SHA384 == RingAlgorithm("ECDSA_P384", "ECDSA_SHA384", 0)

RSA_PKCS1_2048_8192_SHA256 == RingAlgorithm("RSA_ENCRYPTION", "RSA_PKCS1_SHA256", 2048)
RSA_PKCS1_2048_8192_SHA384 == RingAlgorithm("RSA_ENCRYPTION", "RSA_PKCS1_SHA384", 2048)
RSA_PKCS1_2048_8192_SHA512 == RingAlgorithm("RSA_ENCRYPTION", "RSA_PKCS1_SHA512", 2048)
RSA_PKCS1_3072_8192_SHA384 == RingAlgorithm("RSA_ENCRYPTION", "RSA_PKCS1_SHA384", 3072)

RSA_PSS_2048_8192_SHA256_LEGACY_KEY == RingAlgorithm("RSA_ENCRYPTION", "RSA_PSS_SHA256", 2048)
RSA_PSS_2048_8192_SHA384_LEGACY_KEY == RingAlgorithm("RSA_ENCRYPTION", "RSA_PSS_SHA384", 2048)
RSA_PSS_2048_8192_SHA512_LEGACY_KEY == RingAlgorithm("RSA_ENCRYPTION", "RSA_PSS_SHA512", 2048)

ED25519 == RingAlgorithm("ED25519", "ED25519", 0)

Provided == {
    ECDSA_P256_SHA256, ECDSA_P256_SHA384, ECDSA_P384_SHA256, ECDSA_P384_SHA384,
    RSA_PKCS1_2048_8192_SHA256, RSA_PKCS1_2048_8192_SHA384,
    RSA_PKCS1_2048_8192_SHA512, RSA_PKCS1_3072_8192_SHA384,
    RSA_PSS_2048_8192_SHA256_LEGACY_KEY, RSA_PSS_2048_8192_SHA384_LEGACY_KEY,
    RSA_PSS_2048_8192_SHA512_LEGACY_KEY, ED25519 }

ASSUME ListsAssumption == \A list \in AlgorithmLists : list \in Seq(Provided)

-----------------------------------------------------------------------------
(* Verification with one algorithm.                                        *)

alg_id(name) == << Element("OID", name) >>

matches_algorithm_id_value(id, encoded) == encoded = alg_id(id)

SubjectPublicKeyInfo_from_der(reader) ==
    AndThen(expect_tag(reader, "Sequence"), LAMBDA algorithm :
    AndThen(bit_string_with_no_unused_bits(algorithm.rest), LAMBDA key :
        Read([algorithm_id_value |-> algorithm.value, key_value |-> key.value], key.rest)))

\* RingAlgorithm::verify_signature, the cryptographic library: the size of the key
\* is within the limits of the algorithm and the signature was made with the
\* scheme of the algorithm and the private part of the key.
genuine(alg, key_value, signature) ==
    signature[1] = alg.signature_alg_id /\ Tail(signature) = key_value

ring_verify(alg, key_value, signature) ==
    key_value[1] \in alg.min_bits..8192 /\ genuine(alg, key_value, signature)

spki == read_to_end(spki_value, "TrailingData", SubjectPublicKeyInfo_from_der)

verify_signature_with(alg) ==
    IF spki.result # "Ok" THEN spki.result
    ELSE Require(matches_algorithm_id_value(alg.public_key_alg_id,
                                            spki.value.algorithm_id_value),
                 "UnsupportedSignatureAlgorithmForPublicKey")
         ?? Require(ring_verify(alg, spki.value.key_value, signed_data.signature),
                    "InvalidSignatureForPublicKey")

-----------------------------------------------------------------------------
(* The loop of verify_signed_data.                                         *)

Init ==
    /\ supported_algorithms \in AlgorithmLists
    /\ spki_value \in SpkiValues
    /\ \E object \in SignedObjects :
           signed_data = SignedData_from_der(object).value.value.signed_data
    /\ at = 1 /\ found_signature_alg_match = FALSE /\ result = None

Scanning == result = None /\ at <= Len(supported_algorithms)

signature_alg_matches(alg) ==
    matches_algorithm_id_value(alg.signature_alg_id, signed_data.algorithm)

\* Mutant of the match on the result: every error ends the scan.
continues_never(verdict) == FALSE

\* Only this error lets the scan go on.
continues(verdict) == verdict = "UnsupportedSignatureAlgorithmForPublicKey"

\* The filter of the iterator.
FilteredOut ==
    /\ Scanning /\ ~signature_alg_matches(supported_algorithms[at])
    /\ at' = at + 1
    /\ UNCHANGED << supported_algorithms, spki_value, signed_data,
                    found_signature_alg_match, result >>

OtherPublicKey ==
    /\ Scanning /\ signature_alg_matches(supported_algorithms[at])
    /\ continues(verify_signature_with(supported_algorithms[at]))
    /\ found_signature_alg_match' = TRUE
    /\ at' = at + 1
    /\ UNCHANGED << supported_algorithms, spki_value, signed_data, result >>

Decided ==
    /\ Scanning /\ signature_alg_matches(supported_algorithms[at])
    /\ LET verdict == verify_signature_with(supported_algorithms[at])
       IN  ~continues(verdict) /\ result' = Some(verdict)
    /\ UNCHANGED << supported_algorithms, spki_value, signed_data, at,
                    found_signature_alg_match >>

no_algorithm_error(found) ==
    IF found THEN "UnsupportedSignatureAlgorithmForPublicKey"
             ELSE "UnsupportedSignatureAlgorithm"

Exhausted ==
    /\ result = None /\ at > Len(supported_algorithms)
    /\ result' = Some(no_algorithm_error(found_signature_alg_match))
    /\ UNCHANGED << supported_algorithms, spki_value, signed_data, at,
                    found_signature_alg_match >>

Next == FilteredOut \/ OtherPublicKey \/ Decided \/ Exhausted

Spec == Init /\ [][Next]_vars

-----------------------------------------------------------------------------

\* The outcome for a set of algorithms: whatever fits both the signature and the
\* key may verify it.
OutcomeOfSet(algorithms) ==
    LET candidates == {a \in algorithms : signature_alg_matches(a)}
        fitting    == {a \in candidates : matches_algorithm_id_value(
                           a.public_key_alg_id, spki.value.algorithm_id_value)}
    IN  IF candidates = {} THEN "UnsupportedSignatureAlgorithm"
        ELSE IF spki.result # "Ok" THEN spki.result
        ELSE IF fitting = {} THEN "UnsupportedSignatureAlgorithmForPublicKey"
        ELSE IF \E a \in fitting : ring_verify(a, spki.value.key_value, signed_data.signature)
        THEN "Ok" ELSE "InvalidSignatureForPublicKey"

\* No two algorithms of the caller have both identifiers in common.
Unambiguous(algorithms) ==
    \A a, b \in algorithms :
        /\ a.public_key_alg_id = b.public_key_alg_id
        /\ a.signature_alg_id = b.signature_alg_id
        => a = b

\* The order of supported_algorithms does not matter (verify_signed_data) as long as
\* no two of them have both identifiers in common: the outcome is that of their set,
\* and an error of the scan is never an artefact of the order.
OrderFreeIfUnambiguous ==
    IsSome(result) /\ Unambiguous(Range(supported_algorithms))
        => The(result) = OutcomeOfSet(Range(supported_algorithms))

\* The arguments in the form that module SignedData has for them.
KeyView == IF spki.result = "Ok" THEN spki.value.key_value ELSE << >>

SpkiView ==
    IF spki.result # "Ok" THEN spki
    ELSE Ok([algorithm |-> spki.value.algorithm_id_value, key |-> KeyView])

SignedView ==
    LET made == \E a \in Provided : /\ signature_alg_matches(a)
                                    /\ genuine(a, KeyView, signed_data.signature)
    IN  [algorithm |-> signed_data.algorithm, signer |-> IF made THEN KeyView ELSE << >>]

SupportedView ==
    [i \in DOMAIN supported_algorithms |->
        [ signature_alg  |-> alg_id(supported_algorithms[i].signature_alg_id),
          public_key_alg |-> alg_id(supported_algorithms[i].public_key_alg_id) ]]

\* The key has a size that every provided algorithm takes.
CommonSizes == 3072..8192

KeyOfCommonSize == spki.result = "Ok" => KeyView # << >> /\ KeyView[1] \in CommonSizes

\* The scan computes verify_signed_data of module SignedData, which path building
\* uses, wherever no limit on the size of a key applies.
ComputesVerifySignedData ==
    IsSome(result) /\ KeyOfCommonSize
    => The(result) = verify_signed_data(SupportedView, SpkiView, SignedView)
=============================================================================
