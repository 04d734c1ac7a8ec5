---------------------------- MODULE TrustedPaths ----------------------------
(***************************************************************************)
(* Trusted certification paths, from the RFC 5280 rules that the code      *)
(* cites.  None of the operators that model the code is used here: this is *)
(* the reference that path building is checked against.  The data are the  *)
(* ones PathBuilding describes.                                            *)
(***************************************************************************)
EXTENDS WellFormed, Functions

CONSTANTS MAX_SUB_CA_COUNT, Wildcard

Decoded(r) == r.result = "Ok"

Elements(option) == IF IsSome(option) THEN Range(The(option)) ELSE {}

-----------------------------------------------------------------------------
(* One certificate, at position i of a path (1 is the end entity).         *)

\* The time lies in the validity period, both ends included.
Current(c, time) ==
    /\ Decoded(c.validity.not_before) /\ Decoded(c.validity.not_after)
    /\ ~c.validity.trailing
    /\ time \in c.validity.not_before.value .. c.validity.not_after.value

\* End entities are not CAs, issuers are, and a path length constraint bounds
\* the number of CA certificates between the issuer and the end entity.
RoleAllowed(c, i) ==
    LET bc == The(c.basic_constraints)
        is_ca == IsSome(c.basic_constraints) /\ bc.ca.value
    IN  /\ IsSome(c.basic_constraints) =>
               /\ Decoded(bc.ca) /\ ~bc.trailing
               /\ IsSome(bc.path_len) => Decoded(The(bc.path_len))
        /\ is_ca <=> i > 1
        /\ is_ca /\ IsSome(bc.path_len) => Cardinality(2..(i - 1)) <= The(bc.path_len).value

\* The purpose is listed, or nothing is listed and that is acceptable.
PurposeAllowed(c, eku) ==
    IF IsSome(c.eku)
    THEN \E k \in DOMAIN The(c.eku) :
             /\ \A j \in 1..k : Decoded(The(c.eku)[j])
             /\ The(c.eku)[k].value = eku.oid
    ELSE eku.mode = "RequiredIfPresent"

\* The signature is by the private key of spki, under a supported algorithm.
Verifies(algs, spki, signed_data) ==
    /\ Decoded(spki)
    /\ \E alg \in Range(algs) : /\ alg.signature_alg = signed_data.algorithm
                                /\ alg.public_key_alg = spki.value.algorithm
    /\ signed_data.signer = spki.value.key

-----------------------------------------------------------------------------
(* Name constraints.                                                       *)

\* Adding labels on the left of a DNS constraint: at least one if it starts with
\* a dot.  A wildcard may also stand for the constraint's own first label.
DnsSatisfies(n, b) ==
    LET adds(k) == \E f \in [1..k -> Range(n.labels)] : n.labels = f \o b.labels
    IN  \/ \E k \in 1..Len(n.labels) : adds(k)
        \/ ~b.leading_dot /\ adds(0)
        \/ /\ n.labels # << >> /\ n.labels[1] = Wildcard
           /\ \E l \in Range(b.labels) : b.labels = << l >> \o Tail(n.labels)

\* The bits of an octet, the most significant first.
Bits(octet) == [k \in 1..8 |->
    (octet \div << 128, 64, 32, 16, 8, 4, 2, 1 >>[k]) % 2]

\* The second half of a constraint is its mask.
MaskBit(b, i, k) == Bits(b[(Len(b) \div 2) + i])[k]

\* Every bit selected by the mask agrees.
OctetAgrees(n, b, i) ==
    \A k \in 1..8 : MaskBit(b, i, k) = 1 => Bits(n[i])[k] = Bits(b[i])[k]

IpSatisfies(n, b) == Len(b) = 2 * Len(n) /\ \A i \in DOMAIN n : OctetAgrees(n, b, i)

\* Octet i of the mask has a one to the right of a zero.
Broken(b, i) ==
    \E k \in 1..8 : /\ MaskBit(b, i, k) = 1
                    /\ \E j \in 1..i, l \in 1..8 : /\ MaskBit(b, j, l) = 0
                                                   /\ 8 * j + l < 8 * i + k

\* A mask is a run of ones, then zeros, which RFC 5280 demands, at least as far
\* as it has to be read, from the left, to tell the address apart.
MaskUsable(n, b) ==
    Len(b) = 2 * Len(n) =>
        \A i \in DOMAIN n : Broken(b, i) => \E j \in 1..(i - 1) : ~OctetAgrees(n, b, j)

Satisfies(n, b) ==
    CASE n.type = "DnsName"   -> DnsSatisfies(n.value, b.value)
      [] n.type = "IpAddress" -> IpSatisfies(n.value, b.value)

\* Constraints that apply to a name.  Any constraint on a form that is not
\* implemented rejects the name.
Applies(n, b) ==
    n.type = b.type /\ (n.type = "Unsupported" => n.value = b.value)

NameAllowed(n, permitted, excluded) ==
    LET P == {b \in permitted : Applies(n, b)}
        X == {b \in excluded : Applies(n, b)}
    IN  CASE n.type \in {"DirectoryName", "Unsupported"} -> P \cup X = {}
          [] n.type \in {"DnsName", "IpAddress"} ->
                 /\ n.type = "DnsName" /\ P \cup X # {} =>
                        n.value.valid /\ \A b \in P \cup X : b.value.valid
                 /\ n.type = "IpAddress" /\ P \cup X # {} =>
                        /\ Len(n.value) \in {4, 16}
                        /\ \A b \in P \cup X : /\ Len(b.value) \in {8, 32}
                                               /\ MaskUsable(n.value, b.value)
                 /\ P # {} => \E b \in P : Satisfies(n, b)
                 /\ \A b \in X : ~Satisfies(n, b)
          [] OTHER -> TRUE

\* The names of a certificate; dns_cn: the common name is one of them.
NamesOf(c, dns_cn) ==
    Elements(c.subject_alt_name)
    \cup {Ok([type |-> "DirectoryName", value |-> c.subject])}
    \cup (IF ~dns_cn THEN {}
          ELSE IF ~Decoded(c.common_name) THEN {c.common_name}
          ELSE {Ok([type |-> "DnsName", value |-> n]) : n \in Range(c.common_name.value)})

Constrains(name_constraints, c, dns_cn) ==
    IsSome(name_constraints) =>
        LET nc == The(name_constraints)
        IN  /\ Decoded(nc.permitted) /\ Decoded(nc.excluded) /\ ~nc.trailing
            /\ \A b \in Elements(nc.permitted.value) \cup Elements(nc.excluded.value) :
                   Decoded(b)
            /\ \A n \in NamesOf(c, dns_cn) :
                   /\ Decoded(n)
                   /\ NameAllowed(n.value,
                          {b.value : b \in Elements(nc.permitted.value)},
                          {b.value : b \in Elements(nc.excluded.value)})

-----------------------------------------------------------------------------
(* Revocation.                                                             *)

UrisOf(names) ==
    {n.value.value : n \in {m \in Range(names) : Decoded(m) /\ m.value.type = "Uri"}}

\* A distribution point that names where to find complete, direct CRLs.
PlainPoint(dp) ==
    /\ Decoded(dp) /\ ~dp.value.crl_issuer /\ ~dp.value.reasons
    /\ IsSome(dp.value.full_name)

\* The CRL is by the issuer of the certificate and its scope includes it.  If
\* either names distribution points, they have a URI in common.
Covers(crl, c, is_ca) ==
    LET idp == The(crl.issuing_distribution_point)
        dps == The(c.crl_distribution_points)
    IN  /\ crl.issuer = c.issuer
        /\ IsSome(crl.issuing_distribution_point) =>
               ~(IF is_ca THEN idp.only_contains_user_certs
                          ELSE idp.only_contains_ca_certs)
        /\ IsSome(c.crl_distribution_points) =>
               /\ IsSome(crl.issuing_distribution_point)
               /\ \E k \in DOMAIN dps :
                      /\ \A j \in 1..k : PlainPoint(dps[j])
                      /\ UrisOf(The(dps[k].value.full_name)) \cap UrisOf(idp.names) # {}

\* The CRL is by the issuer's key, which may sign CRLs, and does not list c.
Clears(algs, crl, c, spki, key_usage) ==
    /\ Verifies(algs, spki, crl.signed_data)
    /\ IsSome(key_usage) => Decoded(The(key_usage)) /\ 6 \in The(key_usage).value
    /\ \A e \in Range(crl.revoked) : Decoded(e) /\ e.value # c.serial

\* The first CRL that covers the certificate clears it; without one the caller's
\* policy decides.
NotRevoked(in, c, is_ca, spki, key_usage) ==
    LET options == The(in.revocation)
        crls == options.crls
        covering == {k \in DOMAIN crls : Covers(crls[k], c, is_ca)}
    IN  \/ ~IsSome(in.revocation)
        \/ options.depth = "EndEntity" /\ is_ca
        \/ covering = {} /\ options.status_requirement = "Allow"
        \/ covering # {} /\ Clears(in.supported_sig_algs, crls[Min(covering)],
                                   c, spki, key_usage)

-----------------------------------------------------------------------------
(* Paths.                                                                  *)

\* The certificate at position i and what it needs of the issuer above it.
TrustedAt(in, path, anchor, i) ==
    LET c      == path[i]
        last   == i = Len(path)
        issuer == IF last THEN [subject |-> anchor.subject, spki |-> anchor.spki,
                                key_usage |-> None,
                                name_constraints |-> anchor.name_constraints]
                          ELSE path[i + 1]
    IN  /\ Current(c, in.time) /\ RoleAllowed(c, i) /\ PurposeAllowed(c, in.eku)
        /\ c.issuer = issuer.subject
        /\ Verifies(in.supported_sig_algs, issuer.spki, c.signed_data)
        /\ NotRevoked(in, c, i > 1, issuer.spki, issuer.key_usage)
        \* The issuer constrains every certificate below it.  A common name is
        \* looked at for the end entity, by its direct issuer, in a server path.
        /\ \A j \in 1..i :
               Constrains(issuer.name_constraints, path[j],
                          i = 1 /\ in.eku.oid = "id-kp-serverAuth")

TrustedPath(in, path, anchor) ==
    /\ Len(path) <= MAX_SUB_CA_COUNT + 1
    /\ \A i \in DOMAIN path : TrustedAt(in, path, anchor, i)
    \* Every subject and key occurs once.
    /\ IsInjective([i \in DOMAIN path |-> << path[i].subject, path[i].spki >>])

\* The end entity followed by any arrangement of the intermediates.
Paths(in) ==
    LET certs == {i \in DOMAIN in.intermediate_certs : Decoded(in.intermediate_certs[i])}
    IN  UNION {{<< in.cert >> \o [k \in 1..n |-> in.intermediate_certs[f[k]].value] :
                    f \in [1..n -> certs]} :
               n \in 0..Min({MAX_SUB_CA_COUNT, Cardinality(certs)})}

Trusted(in) ==
    \E path \in Paths(in), anchor \in Range(in.trust_anchors) :
        TrustedPath(in, path, anchor)

-----------------------------------------------------------------------------
(* The calls these rules are about.  Beyond the form of the data, a CRL    *)
(* has at most one URI and a certificate one distribution point to compare *)
(* it with: for longer lists the code does not compare all the URIs.       *)

Octets(s) == IsSeq(s) /\ \A i \in DOMAIN s : s[i] \in 0..255

RegularName(n) ==
    /\ n.type = "DnsName" => IsSeq(n.value.labels)
    /\ n.type = "IpAddress" => Octets(n.value)

RegularSubtrees(r) ==
    Decoded(r) /\ IsSome(r.value) =>
        /\ IsSeq(The(r.value))
        /\ \A i \in DOMAIN The(r.value) :
               Decoded(The(r.value)[i]) => RegularName(The(r.value)[i].value)

RegularConstraints(name_constraints) ==
    IsSome(name_constraints) => /\ RegularSubtrees(The(name_constraints).permitted)
                                /\ RegularSubtrees(The(name_constraints).excluded)

\* At most one of the names is a URI.
OneUri(names) ==
    LET uris == {i \in DOMAIN names : Decoded(names[i]) /\ names[i].value.type = "Uri"}
    IN  \A i, j \in uris : i = j

RegularPoints(dps) ==
    /\ IsSeq(dps)
    /\ \A k \in DOMAIN dps :
           /\ PlainPoint(dps[k]) => IsSeq(The(dps[k].value.full_name))
           /\ k > 1 => ~PlainPoint(dps[k])

RegularCert(c) ==
    /\ Decoded(c.validity.not_before) => c.validity.not_before.value \in Int
    /\ Decoded(c.validity.not_after) => c.validity.not_after.value \in Int
    /\ IsSome(c.eku) => IsSeq(The(c.eku))
    /\ IsSome(c.subject_alt_name) =>
           /\ IsSeq(The(c.subject_alt_name))
           /\ \A i \in DOMAIN The(c.subject_alt_name) :
                  LET n == The(c.subject_alt_name)[i]
                  IN  Decoded(n) => RegularName(n.value)
    /\ Decoded(c.common_name) /\ IsSome(c.common_name.value) =>
           DOMAIN c.common_name.value = {1} /\ IsSeq(The(c.common_name.value).labels)
    /\ RegularConstraints(c.name_constraints)
    /\ IsSome(c.crl_distribution_points) => RegularPoints(The(c.crl_distribution_points))

RegularCrl(crl) ==
    /\ IsSeq(crl.revoked)
    /\ IsSome(crl.issuing_distribution_point) =>
           LET names == The(crl.issuing_distribution_point).names
           IN  IsSeq(names) /\ OneUri(names)

Regular(in) ==
    /\ in.time \in Int
    /\ IsSeq(in.supported_sig_algs) /\ IsSeq(in.trust_anchors) /\ IsSeq(in.intermediate_certs)
    /\ \A i \in DOMAIN in.trust_anchors : RegularConstraints(in.trust_anchors[i].name_constraints)
    /\ RegularCert(in.cert)
    /\ \A i \in DOMAIN in.intermediate_certs :
           Decoded(in.intermediate_certs[i]) => RegularCert(in.intermediate_certs[i].value)
    /\ IsSome(in.revocation) =>
           LET crls == The(in.revocation).crls
           IN  IsSeq(crls) /\ \A i \in DOMAIN crls : RegularCrl(crls[i])

=============================================================================
