---------------------------- MODULE MCAlgorithms ----------------------------
(***************************************************************************)
(* Slices of up to two of all the provided algorithms and of up to three   *)
(* of those that share identifiers, in every order.                        *)
(***************************************************************************)
EXTENDS Algorithms

Sharing == { ECDSA_P256_SHA256, ECDSA_P384_SHA256, ECDSA_P384_SHA384,
             RSA_PKCS1_2048_8192_SHA384, RSA_PKCS1_3072_8192_SHA384,
             RSA_PSS_2048_8192_SHA384_LEGACY_KEY }

Distinct(s) == \A i, j \in DOMAIN s : s[i] = s[j] => i = j

Slices(algorithms, max) ==
    {s \in UNION {[1..n -> algorithms] : n \in 0..max} : Distinct(s)}

MCLists == Slices(Provided, 2) \cup Slices(Sharing, 3)

AlgId(name) == [tag |-> "Sequence", content |-> alg_id(name)]

KeyIds == {a.public_key_alg_id : a \in Provided}

SignatureIds == {"RSA_PKCS1_SHA384", "RSA_PSS_SHA384", "ECDSA_SHA256", "ED25519"}

\* The sizes of an RSA key; keys of the other kinds are of no interest here but
\* have the same form.
Bits == {2048, 4096}

Spki(id, octets) == << AlgId(id), Element("BitString", octets) >>

MCSpkiValues ==
    {Spki(id, << 0, bits, "owner" >>) : id \in KeyIds \cup {"RSA_PSS"}, bits \in Bits}
    \cup { << AlgId("RSA_ENCRYPTION") >>,
           Spki("RSA_ENCRYPTION", << 1, 4096, "owner" >>),
           Append(Spki("ECDSA_P384", << 0, 4096, "owner" >>), Malformed) }

MCSignedObjects ==
    {<< [tag |-> "Sequence", content |-> << >>], AlgId(id),
        Element("BitString", << 0, made_with, bits, owner >>) >> :
        id \in SignatureIds \cup {"RSA_PKCS1_SHA1"},
        made_with \in {"RSA_PKCS1_SHA384", "ECDSA_SHA256"},
        bits \in Bits, owner \in {"owner", "other"}}
=============================================================================
