# A TLA+ model of webpki

webpki verifies X.509 certificates for TLS: it searches for a certification path
from an end-entity certificate to one of the caller's trust anchors, checks every
certificate of the path, consults certificate revocation lists and matches the
certificate's names. It is a library without threads, files or global state: a
call gets borrowed input, much of it written by strangers, and returns `Ok` or an
error. What is hard about it is not concurrency but a search that backtracks over
untrusted data, with a recursion, a shared counter, iterators that are consumed
as they go, and the merging of the errors of all branches.

## Inventory

| Part (src/src) | State | Operations | What makes it correct |
|---|---|---|---|
| path building (`verify_cert.rs`: `build_chain`, `build_chain_inner`, `check_signatures`, `loop_while_non_fatal_error`) | activation records (certificate, `sub_ca_count`, loop positions, loop error), the shared `signatures` counter | enter, try an anchor, verify signatures down the chain, try an intermediate (recursion), return and merge the error | accepts only valid paths; finds one if there is one, in any order of the input; never repeats an issuer; ends; the budget and the depth are respected; reports the most specific error |
| certificate checks (`verify_cert.rs`) | none | validity, basic constraints, EKU, key usage | inclusive bounds, path length at equality, malformed fields are errors |
| name constraints (`subject_name/verify.rs`) | none | `check_name_constraints` over all subordinate certificates | every name of every certificate below is looked at |
| names of a certificate (`subject_name/verify.rs`: `NameIterator`, `verify_cert_*`, `list_cert_dns_names`) | the three fields of the iterator | `next`, four searches | the searches agree with the names and with one another |
| name matching (`dns_name.rs`, `ip_address.rs`) | the label being scanned, two read positions | validate, against a constraint, against an expected name | labels, wildcards, masks; the loops over characters agree with the comparison of labels |
| subject name types (`name.rs`, `ip_address.rs`) | the group being read, separators, octets | read a text as an address or a name, write an address | reading inverts writing, no text has two meanings, no index out of range |
| revocation (`verify_cert.rs`: `check_crls`, `crl_authoritative`) | none | pick the first authoritative CRL, verify it, look up the serial number | a revoked certificate is refused, the policy decides on unknown status |
| CRL authority (`crl.rs`: `authoritative_for`, `uri_name_in_common`) | two iterators, lent by mutable reference | advance, compare | authority only with a shared URI and in scope |
| signatures (`signed_data.rs`) | none | pick an algorithm, verify | the key and the algorithm fit |
| errors (`error.rs`) | none | `rank`, `most_specific` | a total preorder, ties keep the older error |
| time (`time.rs`) | none | decode UTCTime and GeneralizedTime | the Gregorian calendar |
| signature algorithms (`ring_algs.rs`) | none | table of algorithms | two algorithms with the same identifiers make the order matter |
| DER reader (`der.rs`) | a position in the input | read one tag, length and value; iterate; integers, booleans, flags | exactly the distinguished encodings, progress after an error |
| certificate parsing (`cert.rs`, `x509.rs`), trust anchors (`trust_anchor.rs`) | the optional fields found so far | field by field, extension by extension; a second parser for version 1 | no extension twice, none ignored that is critical, no constraint lost |
| CRL loading (`crl.rs`) | the same, and for an owned CRL the map of its entries | load, convert to the owned form, look up a serial number | both forms give the same answer; what cannot be interpreted is refused |
| revocation options (`verify_cert.rs`: `RevocationOptionsBuilder`) | the options chosen so far | one setter per option, `build` | every sequence of calls gives what was asked for |
| end entity API (`end_entity.rs`), crate root (`lib.rs`) | none | wrappers, re-exports | no logic of their own |

Interaction: `EndEntityCert::verify_for_usage` calls `build_chain`; path building
calls the certificate checks on entering each certificate, the name constraints
before it follows an issuer, signatures and revocation once a trust anchor is
reached. The checks are pure functions of the decoded certificate. The only state
shared between branches of the search is the signature counter; the only mutable
state shared between functions are the iterators of the CRL authority check.

Before that, the caller loads what is checked: `Cert::from_der`,
`extract_trust_anchor` and `BorrowedCertRevocationList::from_der` take their input
apart with the DER reader. Some parts are decoded at once, others (entries of a CRL,
distribution points, alternative names) only when they are looked at, so that an
error may come up long after loading. A caller may keep a CRL as loaded or convert
it to an owned map.

## Modules

| Module | Stands for | Uses |
|---|---|---|
| `Errors` | `Error`, `rank`, `most_specific`, `Result`, `Option`, the operator `?` | |
| `WellFormed` | what the models assume of decoded input | `Errors` |
| `SignedData` | `verify_signed_data`, `verify_signature` | `Errors` |
| `CertChecks` | `check_issuer_independent_properties` and what it calls, `KeyUsageMode::check` | `Errors` |
| `Names` | DNS and IP matching, against constraints and references | `Errors` |
| `NameConstraints` | `check_name_constraints` | `Names` |
| `Revocation` | `check_crls`, `crl_authoritative`, `find_serial` | `CertChecks`, `SignedData` |
| `PathBuilding` | the search, as a state machine | `NameConstraints`, `Revocation` |
| `PathProperties` | what the search must guarantee | `PathBuilding` |
| `TrustedPaths` | reference: which paths RFC 5280, as the code cites it, trusts, and for which calls | `WellFormed` |
| `PathSpec` | abstract verifier: decides once, `Ok` iff trusted | `Errors` |
| `PathRefinement` | `PathBuilding` implements `PathSpec`, with trust as in `TrustedPaths` and with trust as the checks of the code have it | `PathProperties`, `TrustedPaths`, `PathSpec` |
| `SubjectNames` | `NameIterator` and its four searches, as a state machine | `NameConstraints` |
| `CrlAuthority` | `authoritative_for` with its iterators, as a state machine | `Revocation` |
| `Time`, `Calendar` | `time.rs`, and a calendar to compare it with | `Errors` |
| `Der` | the DER reader on octets: `read_tag_and_get_value_limited`, `DerIterator`, as a state machine | `BitStrings` |
| `DerElements`, `BitStrings` | the DER reader as its callers see it, on elements; decoders of integers, booleans, bit strings and flags | `WellFormed` |
| `X509` | `Extension`, `set_extension_once`, `remember_extension`, names of distribution points | `DerElements` |
| `CertParsing` | `Cert::from_der`, `extract_trust_anchor`, one action per field and per extension; `common_name` | `X509` |
| `DistributionPoints` | `IssuingDistributionPoint`, `CrlDistributionPoint` | `X509`, `BitStrings` |
| `CrlParsing` | `BorrowedCertRevocationList::from_der`, its entries, `to_owned`, both `find_serial` | `DistributionPoints` |
| `RevocationClient` | a caller: load, choose a form, build options, check a certificate | `CrlParsing`, `CrlAuthority` |
| `DnsNames` | `is_valid_dns_id` and the two types of DNS names | `Errors` |
| `DnsMatching` | `presented_id_matches_reference_id_internal`, as a state machine | `DnsNames`, `Names` |
| `SubjectNameText` | `SubjectNameRef::try_from_ascii`, both address parsers, `IpAddr::from`; then the comparison of what was read | `DnsMatching` |
| `Algorithms` | the loop of `verify_signed_data` over the algorithms of `ring_algs.rs` | `SignedData`, `DerElements` |
| `MC...` | instances for TLC | |
| `CheckProofs`, `PathProofs`, `AlgorithmProofs`, `NameIteratorProofs`, `RevocationProofs`, `CertParsingProofs`, `EncodingProofs`, `SubjectNameProofs` | theorems | |

### How the state corresponds to the code

*Results.* `Result<(), Error>` is `"Ok"` or the name of the error, `Result<T,_>` a
record `Ok(v)` or `Err(e)`, `Option<T>` a sequence of length at most one. `r ?? s`
is `r?; s`. A DER field is represented by what its decoder finds in it, one
`Result` per element, so that a malformed element, and where in the list it comes,
stays visible; trailing bytes are a flag. Certificates that do not parse are
`Err` entries of the list of intermediates.

*The search.* A frame of `stack` is one active call of `build_chain_inner`; the
certificates of the stack, end entity first, are the linked list that the code
keeps through `EndEntityOrCa::Ca`. `pc` names the place in the topmost call:

| Action | Code |
|---|---|
| `EnterFails`, `EnterSucceeds` | the checks before the first loop |
| `AnchorRejected`, `AnchorCandidate`, `AnchorsExhausted` | one iteration of the loop over the anchors, up to `check_signatures`; end of the loop |
| `SignatureValid`, `SignatureFails`, `BudgetExhausted` | one iteration of the loop of `check_signatures`: counter, signature, CRLs, step to the child |
| `IssuerRejected`, `IssuerCandidate`, `IssuersExhausted` | one iteration of the loop over the intermediates, the recursive call included; end of the loop |
| `ReturnThrough`, `ReturnError`, `ReturnResult` | return to the caller's loop, which stops or merges the error |

`accepted` and `met` are history variables: the path for which `check_signatures`
succeeded and the errors the loops met. They influence nothing.

*Abstractions.* In path building a signature is the key that made it and verifies
under that key only (`crypto_verify`, external); in `Algorithms` a key also has a
size, and a signature the scheme it was made with. Names, keys and serial numbers are
opaque values compared for equality. In `Names`, DNS names are sequences of labels
with the outcome of `is_valid_dns_id`, and what a label is, and which one is the
wildcard, is left open; `DnsMatching` instantiates it with sequences of characters. `DnsNames` and `DnsMatching` work on
characters, of which there is one or a few per class that the code tells apart (the
hexadecimal digits in full, `!` for every octet in no class). IP addresses and masks
are octets. Times in `PathBuilding` are integers; in `Time` they are pairs of days
and seconds of the day, since TLC has no 64-bit integers, and the order is the same.
The payload of `TrailingData` is left out.

*Octets and elements.* `Der` reads octets: a tag, one of five forms of a length and
the value, with the position a failed read leaves behind. The input is a short
sequence of octets followed by a number of zeros, so that long values need no long
sequences, and `MAX_DER_SIZE` is scaled from 2^32 - 1 to 2^29, which TLC can count
with. The parsers above it (`X509` to `CrlParsing`) take a reader as the sequence of
the elements not yet consumed; an element has a tag and a content, which again is a
sequence of elements where the code opens a nested reader, and octets where it
decodes a number, a boolean or flags. The element `Malformed` is a header that cannot
be read. So defects of structure (missing, doubled, swapped, trailing, unreadable
elements) stay visible at every level, and `Der` answers for what an element is.

*Parsing.* `CertParsing` has one action per field and one per extension,
since the fields found so far are the state; `extract_trust_anchor` is the action
after it. The common name is looked for in a subject only when it is needed, so it is an
operator; path building and `SubjectNames` take its outcome. `CrlParsing` is a set of operators, because a CRL is decoded in one call
and its entries lazily by each lookup; `RevocationClient` turns the calls into
actions: `Load`, `ToOwned` (or not), the constructors, setters and `Build` of the
builder, and a check of a certificate: `Ask` begins `check_crls`, the steps of
`CrlAuthority` follow if the CRL names a distribution point, and `Check` ends it.

*Names.* `SubjectNames` makes every call of `NameIterator::next` an action and the
closures given to `find_map` the operator `visit`. `CrlAuthority` makes every step
of the iterators an action; `RevocationClient` makes the call. Both then show that the closed forms used by path
building (`check_names`, `authoritative_for`) compute what the loops compute.
`DnsMatching`, called by `SubjectNameText` with the name it read and with name
constraints, and `Algorithms` do the same for the comparison of labels
(`ComputesLabelMatching`) and for `verify_signed_data`
(`ComputesVerifySignedData`): these are the places where the detailed modules are
tied to path building.

## Runs

| Run | Instance and bounds | Checks |
|---|---|---|
| `paths` | For the search: every list of up to 3 of 9 intermediates (a circle of two CAs, cross-signed and renewed ones, a certificate issued by the end entity, an expired one, one that is no CA, one that does not parse) with up to 2 anchors, and of up to 3 of 7 with up to 5 anchors, some with the wrong key; chains of 3 and of 4 CAs in every order. For the checks: the path E-A-B-C-R with every variant of validity, basic constraints and EKU on E and A, all path lengths on A, B and C; the path E-A-B-R with constraints of A, B or R, some with masks that have gaps or with wrong lengths, against alternative names of E or A and the common name of E; the path E-A-R with every list of up to 2 of 10 CRLs, 8 lists of distribution points, 4 key usages, all policies. `MAX_SUB_CA_COUNT = 3`, `MAX_SIGNATURES = 5` | `TypeOK`, `Soundness`, `NoRepeatedIssuer`, `Completeness`, `MostSpecificError`, `OkWithinBudget`, `RecursionBounded`, `AssertionsHold`, `Termination`, `DecidesValidPaths`, `ImplementsPathSpec` |
| `subject` | certificates with up to 2 of 11 alternative names and 4 common names; all four searches | `VerifiedByAlternativeName`, `ListCoversVerified`, `ComputesCheckNames`, `ExcludedNamesNeverVerify` |
| `calendar` | every day from 1970 to 2104 | `DaysTracked`, `GeneralizedTimeAgrees`, `UtcTimeWindow`, `OnlyCalendarDates` |
| `cert` | certificates with one defect (an element missing, doubled, swapped, unreadable or added) in any place; lists of up to 3 of 8 extensions, and broken ones before or after a whole one; versions 1 to 4; subjects with attribute lists of up to 4 of 5 elements and with up to 2 relative names | `AcceptsConforming`, `ExtensionsUnambiguous`, `AnchorsKeepConstraints`, `CommonNameIsUnambiguous` |
| `client` | CRLs with one defect in any place, issuing distribution points of up to 2 of 13 fields, or of a full name and 2 more, and with up to 2 names, up to 2 entries; certificates without distribution points and with up to 2 of up to 2 names each; up to 2 calls of the builder | `LoadsSupported`, `RevokedNeverOk`, `FormIndependent`, `FailClosed`, `ComputesClosedForm`, `AuthorityIsJustified`, `AuthorityDecided` |
| `der` | every form of a length at and around its bounds, complete and cut short, with 18 sizes of the rest up to 2^29 and two limits; every sequence of up to 4 of 11 octets with up to 2 zeros after it; all INTEGERs and BIT STRINGs of up to 1 octet, many of 2 and 3; up to 6 reads | `ReadsDistinguished`, `IntegersAgree`, `FlagsAgree`, `Exhausted` |
| `names` | texts of up to 5 numbers (with leading zeros, of 4 digits, 255, 256, empty), of up to 4 hexadecimal blocks (3 are an address), every text of up to 5 of the characters `a 1 - . *`; names of up to 3 labels in both cases, with wildcards, leading and trailing dots, compared as reference and as constraint; names of up to 3 labels with lengths at and around the limits, which are 14 for a label and 18 for a name | `ReadsWhatIsWritten`, `WithinArrays`, `ValidityByLabels`, `ComputesLabelMatching` |
| `algorithms` | slices of up to 2 of the 12 provided algorithms and of up to 3 of the 6 that share identifiers, in every order; keys of 2048 and 4096 bits of every kind, signatures that fit or not | `OrderFreeIfUnambiguous`, `ComputesVerifySignedData` |
| `fatal` | as `paths`, the lists with up to 5 anchors, with a budget of 3 and `MAX_SUB_CA_COUNT = 2` | `FatalErrorReported`, violated: see Findings |
| `shared`, `idp` | as `client` | `SharedUriSuffices`, `LoadedIdpSupported`, violated |
| `flags` | as `der` | `EmptyFlagsDecode`, violated |

A violated property states what a comment or doc of the code says.

Why the bounds are enough. The search treats all certificates alike, so what
matters is that every shape of backtracking occurs: with three intermediates there
are circles of length two and three, dead ends before and after the right branch,
two paths to choose from; chains of four CAs are one too long for `MAX_SUB_CA_COUNT =
3`, which is 6 in the code. A budget of 5 is exceeded in nested searches at different depths, before and
after other errors. A chain of three intermediates has path lengths on both
sides of equality at zero and at one. Two names on each side and two distribution
points suffice for the iterators to be exhausted at every place. 1970 to 2104 has a
century with and one without a leap day and both ends of the UTCTime window. The
longest path with variants of the checks has three CAs, and finding it takes at most five
signatures, within both bounds, so that there it is the checks that decide.

The parsers treat the elements one after the other and compare tags, so one defect at
a time, in every place and on every level, meets every early return; three extensions
let an extension come twice with another one between or after. Limits on lengths
(labels, names, blocks of an address) are scaled down so that all inputs around them
can be enumerated; the four octets of an IPv4 address, the sizes of keys and the forms
of a length keep their real values. With 3 instead of 8 blocks an IPv6 address still
has a first, a middle and a last block, and one too many is tried as well. The limit of
a label is the length of such an address, so that it is its colons, not its length,
that keep it from being a DNS name.

`LoadsSupported` judges `from_der` by a strict reference, `Supported`: fields of the
issuing distribution point in their order, each once, nothing after them, no flag that
is not supported. All of these are loaded. Of the rest, `Tolerated` bounds what else may
be: it names the four ways in which an issuing distribution point may be ill-formed
(other order, repeated flags, data after the value or after the full name). That only
`Supported` ones are loaded, as a comment has it, is false: the run `idp`.

`Completeness` and `MostSpecificError` are about the order of things: the instances
contain every order of the same certificates. `ImplementsPathSpec` compares the
search with `TrustedPaths`, which is written without loops, from the rules the
code's comments cite, and uses none of the operators that model the code. Where the
code deliberately does something of its own, the reference says so: the first
covering CRL decides, directory names are always refused, the common name is looked
at by the direct issuer only, a gap in a mask is an error only if no octet to the left
of it already tells the address apart.

Fairness is `WF_vars(Next)` in `PathBuilding`: a call that has been made goes on until
it returns. Nothing else is scheduled, so weak fairness of the whole next-state
relation is all there is. In `RevocationClient` it is `WF_vars(Authority)`, for the same
reason: the caller need not go on, but a call of `authoritative_for` does. In `Der` it is `WF_vars(ReadItem)`:
the iterator is driven by loops that run until it is exhausted, some of which
(`NameIterator`, the URI names of distribution points) go on after an item that does
not decode. Only `Termination`, `AuthorityDecided` and `Exhausted` need fairness. The
modules without it are checked for safety only.

## Findings

* `fatal`: `MaximumSignatureChecksExceeded`, raised below the loop over the trust
  anchors, ends that loop but becomes the default error of the loop over the
  intermediates. The search goes on, and since the error has rank 0 another one may
  replace it. A comment in `error.rs` says it is "not subject to ranking".
* `shared`: the iterators of `uri_name_in_common` are never rewound, so only the
  first URI of the CRL is compared, with the first distribution point only. The
  comments of `authoritative_for` and `crl_authoritative` speak of any shared URI.
  The effect is a CRL that is passed over, never one wrongly used
  (`AuthorityIsJustified`).
* `flags`: a BIT STRING without flags and without padding, which a comment of
  `bit_string_flags` provides for, makes it index the last octet of an empty slice:
  the call panics.
* `idp`: a comment of `from_der` says that the issuing distribution point is parsed when
  a CRL is loaded to validate "that it only uses well-formed and supported features", and
  another one that indirect CRLs are not supported. But the flags are assigned as they
  come and checked after the loop, so an indirectCRL flag that is set is undone by a second
  one; the value of the extension is read up to the end of its SEQUENCE and the name of the
  distribution point up to the end of its first element, and what comes after them is not
  looked at. Such CRLs are loaded.

Met while modelling and without a run of their own:

* The order of `supported_algorithms` "does not really matter" (`signed_data.rs:149`), but
  `RSA_PKCS1_2048_8192_SHA384` and `RSA_PKCS1_3072_8192_SHA384` have the same identifiers
  and differ in the least size of a key, so which of them comes first decides on a 2048-bit
  key. For slices that do not contain both it does not matter (`OrderFreeIfUnambiguous`).
* `EndEntityCert::dns_names` also returns the common name of the subject
  (`subject_name/verify.rs:363`); its doc speaks of the alternative names only.
* `MAX_DER_SIZE` is called the maximum size that can be read (`der.rs:227`), but limits are
  compared with `>=` (`der.rs:209`): a value as long as the limit is refused. A unit test
  (`der.rs:586`) and `ReadsDistinguished` have it as the code does.

Comments that are out of date, where the code around them, its other comments and its
tests agree:

* `extract_trust_anchor` says that a version 1 certificate makes the first parser
  return `BadDer`; it returns `UnsupportedCertVersion`, on which the code relies.
* The comment at `dns_name.rs:257` has wildcards of the form `<x>*.<DNSID>`; only `*` by
  itself is accepted as a label.

Also worth knowing: only the first relative name of a subject is searched for a common
name, and one that is no UTF8String is an error, of `dns_names` as of a check of name
constraints (`CommonNameIsUnambiguous`). The two forms of a CRL agree on whether a serial
number is revoked (`FormIndependent`), not on everything. With a serial number listed
twice, the borrowed form returns the first entry and the owned one keeps the last. An
entry that cannot be interpreted makes the conversion to the owned form fail, while
the borrowed form may find another entry before it gets there and answer.

## Proofs

Each theorem holds for every value of the constants that satisfies the assumptions
below. TLC evaluates the assumptions in the runs.

| Assumption | Says |
|---|---|
| `InputsAssumption` (`PathBuilding`), `QueriesAssumption` (`SubjectNames`) | lists are lists, and whatever fails to decode yields an error, not the budget error, which no decoder produces; addresses have 4 or 16 octets; a DNS name that is valid when presented is valid as a reference |
| `BoundsAssumption` | the two bounds of the search are natural numbers |
| `CertificatesAssumption`, `CrlInputsAssumption` | the content of a constructed element is a sequence of elements, as deep as the parsers look, and that of a number, a boolean or a BIT STRING is octets; nothing about whether the parsers succeed |
| `QueriesAssumption` (`RevocationClient`) | the distribution points of a certificate, and the names of each, are lists |
| `InputsAssumption` (`Der`) | the input is octets, and four octets can express the limit, as they can `MAX_DER_SIZE` |
| `ListsAssumption` | slices of algorithms hold provided algorithms |
| `LastYearAssumption` | the calendar ends in a year of four digits; the format has no others |
| `ShapeAssumption`, `LengthAssumption` | an address has at least one group, texts are made of characters, limits are natural numbers |

* `CheckProofs`: each check yields a result other than the budget error, whatever
  the certificate; the first index with a property, on which the closed forms of the
  loops rest; what `expect_tag`, `nested` and the other readers of elements return.
  These lemmas are what the other modules cite instead of the definitions.
* `PathProofs`, soundness: `TypeCorrect`, `SoundnessTheorem`, `NoRepeatedIssuerTheorem`,
  `AssertionsTheorem`, `RecursionTheorem`, `BudgetTheorem`. `TypeOK` is not
  inductive: taking an item of the caller's lists, or a certificate of the chain, is
  only defined within their bounds. `Typed` adds that the input is one of `Inputs`
  and that, in `check_signatures`, the walk is within the chain and the anchor
  within the list. `Soundness` speaks of the final state only; the invariant has to
  know of every prefix of the chain what has been checked so far. `ChainInv`: the
  issuer of each frame is the next frame, whose constraints allow everything below it,
  and no frame repeats another; each frame but the topmost passed the checks for its
  place, and so did the topmost once its loops have started; `sub_ca_count` is
  determined by the place. `SearchInv`: in `check_signatures` the anchor fits and the
  signatures above `walk` are valid (`WalkOK`); an accepted path is a valid path
  (`AcceptedOK`); and `Ok` is returned only with an accepted path and within the
  budget. The inductive invariant is `IInv == Typed /\ ChainInv /\ SearchInv`.
* `PathProofs`, completeness: `MostSpecificErrorTheorem`, `CompletenessTheorem` and
  `DecisionTheorem`. The error met last may be outranked by a loop error further down
  the stack, so `ErrorInv` says, as long as no budget error was met, that every error
  met is outranked by the error of some active frame or by the one being returned, and
  that each of these was itself met or is the initial `UnknownIssuer`. For
  completeness, an active call stands for the paths that begin with its chain; its
  loop counters split them into those to an anchor already tried, those through an
  intermediate already tried, and the rest. `ExploredInv` says that none of the first
  two kinds is valid, and of a call that returns an error that there is no rest;
  `BudgetInv` ties the counter to the budget error, after which nothing is claimed. With
  soundness this is the refinement `DecidesValidPaths`: the search implements the
  verifier of `PathSpec` that decides once whether a path that passes the checks exists.
* `PathProofs`, meaning: `RefinementTheorem`, that the search implements `PathSpec`
  with trust as in `TrustedPaths`. By `DecisionTheorem` it is enough that a path
  passes the checks exactly if the rules trust it. Each check is given its meaning
  by a lemma: validity, role, path length and purpose (`PlaceMeans`), signatures
  (`SignatureMeans`), the CRL that covers a certificate and what it clears
  (`RevocationMeans`), DNS names by labels (`DnsMeans`), addresses bit by bit against the
  code's octets (`IpMeans`, from `OctetShape` and `LeadingBits`), a list of subtrees
  (`SubtreesMean`), the names of a certificate (`NamesMean`), an issuer's constraints
  on all that is below it (`ConstraintsMean`). They combine into `TrustedPathMeans` for
  one path and `TrustedMeans` for the search space: the arrangements of intermediates
  the reference enumerates are those of the search. The premise `Regular` says that lists
  are sequences, octets are 0..255 and times integers, and restricts one thing: a
  CRL has at most one URI and only the first distribution point of a certificate is
  plain. For longer lists the code compares less than all pairs, as the finding of the run
  `shared` shows, and the theorem would be false. `PathsAreRegular`, in `MCPaths`, has
  TLC evaluate the premise for all calls of the run `paths`.
* `AlgorithmProofs`: `OrderTheorem`, `VerifySignedDataTheorem`. `ScanInv`: no algorithm
  before `at` decided, and the flag remembers whether one of them was an algorithm of
  the signature. `ComputesVerifySignedData` has a premise, a key size that all provided
  algorithms take, since path building does not model sizes.
* `NameIteratorProofs`: `VerificationTheorem`, `ListTheorem`, `CheckNamesTheorem`,
  `ExclusionTheorem`. `SearchInv` says which names a search has passed and, once it is
  over, which name ended it, those before it having been passed. `ListInv` says that
  the list holds every DNS name consumed that can be a reference. That no excluded name verifies rests on
  lemmas about labels: a wildcard that stands for a name of a subtree is in it as well.
* `RevocationProofs`: `ClosedFormTheorem`, `AuthorityTheorem`, `FailClosedTheorem`,
  `FormTheorem`, `RevokedTheorem`, `LoadTheorem`. `ClientInv` has four parts. `LoadInv`: what was
  loaded is what `from_der` makes of the input. `BuilderInv`: the options hold
  the loaded CRL, and a lenient depth or policy only if the last call about it said so. `QueryInv`: the certificate asked about is one of the
  caller's, and the verdict of a check that is over is that of `check_crls` on it.
  `AuthorityInv`: each iterator holds a suffix of its list; the CRL's is not rewound, so
  it is unread, or past its first URI, or past that and the first distribution point.
  The parsers' loops are functions on the indices of a list, about which the least
  index for which a claim fails serves as induction (`IndexInduction`). That both forms
  of a CRL agree needs that an owned map has an entry for a serial number exactly if the
  list has one, however often; that a revoked certificate is refused needs that every
  entry of the encoding is visited by the lookup (`LoadedEntries`). `LoadTheorem` takes
  the loops over the extensions of a CRL and over the fields of its issuing distribution
  point round by round: a loop succeeds exactly if no element is refused and none that is kept
  comes twice, and the values left are those of the last elements of their kind. These
  fields (`TakenIdp`) lie between what is supported (`SupportedIdpTaken`: the order of
  the fields excludes repetition) and what is tolerated (`TakenIdpTolerated`: the last
  of the flags with an unsupported tag is FALSE).
* `CertParsingProofs`: `ConformanceTheorem`, `UnambiguousTheorem`, `AnchorTheorem`,
  `CommonNameTheorem`. `ParseInv` says at each `pc` how many fields and how many
  extensions have been consumed, that the readers hold what is left of the input, that
  everything consumed was as the reference wants it, and that the certificate holds
  exactly the values of the extensions consumed. An error is final, so the invariant
  also says of every error that the whole does not conform. The loop over the
  attributes of a subject is described by the least index at which it ends.
* `EncodingProofs`, times: `DaysTheorem`, `GeneralizedTheorem`, `UtcTheorem`, `DatesTheorem`.
  `ClockInv`: the clock shows a date of the calendar up to `LastYear`, and the days are
  tracked. The table of months and the formula for years grow by the length of the month
  and of the year; decoding inverts writing for all digits (`TimeRead`), and the days of
  different years differ (`YearsGrow`), so that a UTCTime after 2049 is read as another
  day.
* `EncodingProofs`, elements: `DistinguishedTheorem`, `IntegersTheorem`. `Iterating` says
  that the item read last is what its position holds (`Decided`): an element below the
  limit, or a failure, and then there is none. A length of `k` octets that is not refused
  needs all of them (`CombinedWidth`), and its digits are those octets (`DigitsCombine`),
  so the octets at a position are the encoding of one length at most. The property of the
  run looks for a missed element among lengths at the boundaries; the proof excludes
  every length.
* `SubjectNameProofs`, addresses: `WithinArraysTheorem`, for texts of any length and any number of
  octets and blocks. The bound on the octets of an IPv6 address is not inductive: the
  loop appends an octet at every second digit and checks the digits of a block, not the
  octets. `Counted` ties the number of octets to the separators and the digits of the
  current group.
* `SubjectNameProofs`, validity: `ValidityTheorem`. The scan and the splitting into labels
  are both taken round by round. `ScanFits` relates the five running variables after
  each character to the labels up to it: all labels but the last have been
  checked in full, the last one as far as it goes.
* `SubjectNameProofs`, matching: `MatchingTheorem`. `MatchState` says at each `pc` where the
  two readers are and that the outcome is that of comparing what is left (`Fits`,
  `TailFits`, `WildFits`); the returns of the code are right because a valid name has no
  empty label and a wildcard in front only (`ValidShape`). From characters to labels: a
  name is given by its labels (`LabelsAreTheName`), and a name ends with another after a
  dot exactly if its last labels are those of the other (`LabelsBelow`).

Only model-checked:

* `Termination`, `AuthorityDecided`, `Exhausted`: liveness is out of the prover's reach.
* `FlagsAgree`: the bits of a number of any length, with powers of two, which the provers
  do not interpret.
* `ReadsWhatIsWritten`: the reference writes an address with a fold over its octets and
  enumerates the decimal texts of an octet.

## Not modelled

The end entity API and the crate root, which pass calls on to what is modelled. The
cryptographic primitive, the untrusted reader and the standard library's writing of
IPv4 addresses are external. Messages, formatting and the conversions between string
types are left out.

## Plan

Path building came first, because everything depends on it, with the reference
semantics and the proofs of soundness; then the DER reader, the parsers, the names by
character, the algorithms and a client of revocation. Then came the proofs:
completeness of the search and its refinement of the abstract verifier, the loops over
names, algorithms and iterators, revocation with a loaded CRL, the decoding of
times, the parsers of certificates and CRLs against whole structures, the reader of
octets, DNS names by character against labels, and the meaning of every check of a path.

What is left is the proof of `ReadsWhatIsWritten`, from an invariant that relates the
octets so far to the labels so far (`SubjectNameProofs` has the lemmas on labels).
