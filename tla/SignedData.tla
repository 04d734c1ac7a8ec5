----------------------------- MODULE SignedData -----------------------------
(***************************************************************************)
(* Choice of a signature algorithm and signature verification              *)
(* (signed_data.rs).                                                       *)
(*                                                                         *)
(* A supported algorithm is [signature_alg, public_key_alg].  A signed     *)
(* object is [algorithm, signer]: the data and the signature are replaced  *)
(* by the key that produced the signature.  An SPKI is the Result of       *)
(* parsing it: Ok([algorithm, key]) or the parse error.                    *)
(***************************************************************************)
EXTENDS Errors, SequencesExt

\* SignatureVerificationAlgorithm::verify_signature, a cryptographic library:
\* a signature verifies under the key that made it and under no other.
crypto_verify(key, signed_data) == signed_data.signer = key

verify_signature(alg, spki, signed_data) ==
    spki.result
    ?? Require(alg.public_key_alg = spki.value.algorithm,
               "UnsupportedSignatureAlgorithmForPublicKey")
    ?? Require(crypto_verify(spki.value.key, signed_data),
               "InvalidSignatureForPublicKey")

\* Mutant of verify_signed_data: the first algorithm of the signature decides,
\* whether or not it is one for the public key.
verify_signed_data_first(supported_algorithms, spki, signed_data) ==
    LET k == SelectInSeq(supported_algorithms,
                         LAMBDA alg : alg.signature_alg = signed_data.algorithm)
    IN  IF k # 0 THEN verify_signature(supported_algorithms[k], spki, signed_data)
                 ELSE "UnsupportedSignatureAlgorithm"

\* The first supported algorithm that matches both the signature and the
\* public key decides; a mismatch with the public key only is remembered.
verify_signed_data(supported_algorithms, spki, signed_data) ==
    LET found_signature_alg_match(alg) ==
            alg.signature_alg = signed_data.algorithm
        decides(alg) ==
            /\ found_signature_alg_match(alg)
            /\ verify_signature(alg, spki, signed_data)
                 # "UnsupportedSignatureAlgorithmForPublicKey"
        k == SelectInSeq(supported_algorithms, decides)
    IN  IF k # 0
        THEN verify_signature(supported_algorithms[k], spki, signed_data)
        ELSE IF \E i \in DOMAIN supported_algorithms :
                    found_signature_alg_match(supported_algorithms[i])
             THEN "UnsupportedSignatureAlgorithmForPublicKey"
             ELSE "UnsupportedSignatureAlgorithm"
=============================================================================
