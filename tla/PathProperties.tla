--------------------------- MODULE PathProperties ---------------------------
(***************************************************************************)
(* What path building must guarantee.                                      *)
(***************************************************************************)
EXTENDS PathBuilding

Frame(in) == [cert : CertsOf(in), sub_ca_count : Nat, anchor : Nat \ {0},
              issuer : Nat \ {0}, error : Error]

\* Type invariant.  Every certificate of the chain is one of the caller's, the
\* loop errors are errors, and the returned value is a result.
TypeOK ==
    /\ stack \in Seq(Frame(input)) /\ stack # << >>
    /\ pc \in {"enter", "anchors", "signatures", "intermediates", "return", "done"}
    /\ walk \in Nat
    /\ signatures \in Nat
    /\ ret \in Results
    /\ met \subseteq Error

-----------------------------------------------------------------------------
(* A path is a sequence of certificates, the end entity first.             *)

\* The certificates below position i.
Below(path, i) == [j \in 1..(i - 1) |-> path[j]]

\* The number of CA certificates below position i, the end entity not counted.
SubCas(i) == IF i <= 2 THEN 0 ELSE i - 2

\* Names chain up from the end entity to the trust anchor.
Linked(path, anchor) ==
    /\ \A i \in 2..Len(path) : path[i].subject = path[i - 1].issuer
    /\ anchor.subject = path[Len(path)].issuer

\* No two certificates of the path have both the subject and the key in common.
NoRepeats(path) ==
    \A i, j \in 1..Len(path) :
        i # j => ~(path[i].subject = path[j].subject /\ path[i].spki = path[j].spki)

\* Each certificate is acceptable in its place.
PlacesValid(in, path) ==
    \A i \in 1..Len(path) :
        /\ check_issuer_independent_properties(path[i], in.time, i > 1, SubCas(i), in.eku)
             = "Ok"
        /\ i > 1 => SubCas(i) < MAX_SUB_CA_COUNT

\* The constraints of every issuer allow the names of all certificates below.
NamesAllowed(in, path, anchor) ==
    /\ \A i \in 2..Len(path) :
           check_name_constraints(path[i].name_constraints, Below(path, i),
               subject_common_name_is_dns_name(in, i - 1)) = "Ok"
    /\ check_name_constraints(anchor.name_constraints, path,
           subject_common_name_is_dns_name(in, Len(path))) = "Ok"

\* Every signature verifies under the issuer's key, and no CRL objects.
SignaturesValid(in, path, anchor) ==
    \A i \in 1..Len(path) : signature_verdict(in, path, anchor, i) = "Ok"

ValidPath(in, path, anchor) ==
    /\ path # << >> /\ path[1] = in.cert
    /\ Linked(path, anchor)
    /\ NoRepeats(path)
    /\ PlacesValid(in, path)
    /\ NamesAllowed(in, path, anchor)
    /\ SignaturesValid(in, path, anchor)

-----------------------------------------------------------------------------
\* Soundness of build_chain: Ok is returned only for a path of the caller's
\* certificates, ending at one of the caller's trust anchors, on which every
\* check passes at once, each for the certificate's final place in the path.
Soundness ==
    pc = "done" /\ ret = "Ok" =>
        /\ IsSome(accepted)
        /\ The(accepted).anchor \in 1..Len(input.trust_anchors)
        /\ \A i \in 1..Len(The(accepted).path) :
               The(accepted).path[i] \in CertsOf(input)
        /\ ValidPath(input, The(accepted).path,
                     input.trust_anchors[The(accepted).anchor])

\* The loop prevention of build_chain_inner (RFC 4158 section 5.2): no subject
\* and key appear twice in the chain being tried, whatever the distance.
NoRepeatedIssuer == NoRepeats(Chain)

\* The assertions in the code never fire: assert_eq!(0, sub_ca_count) for an end
\* entity, and assert_eq!(cert.issuer, issuer_subject) in check_crls for every
\* certificate that check_signatures walks over.
AssertionsHold ==
    /\ stack[1].sub_ca_count = 0
    /\ pc = "signatures" =>
           /\ walk \in 1..Len(stack)
           /\ stack[walk].cert.issuer =
                  IF walk = Len(stack)
                  THEN input.trust_anchors[Top.anchor].subject
                  ELSE stack[walk + 1].cert.subject

\* The recursion of build_chain_inner is bounded: the end entity, the permitted
\* CAs and one more that is turned away as soon as it is entered.
RecursionBounded ==
    /\ Len(stack) <= MAX_SUB_CA_COUNT + 2
    /\ Len(stack) = MAX_SUB_CA_COUNT + 2 => pc \in {"enter", "return"}

\* All the paths a caller could have meant: the end entity, then different
\* intermediates.
CandidatePaths(in) ==
    LET usable == {i \in 1..Len(in.intermediate_certs) :
                       in.intermediate_certs[i].result = "Ok"}
        choices == UNION {[1..n -> usable] : n \in 0..Cardinality(usable)}
    IN  {<< in.cert >> \o [k \in DOMAIN f |-> in.intermediate_certs[f[k]].value] :
             f \in {g \in choices : \A a, b \in DOMAIN g : a # b => g[a] # g[b]}}

HasValidPath(in) ==
    \E path \in CandidatePaths(in) : \E k \in 1..Len(in.trust_anchors) :
        ValidPath(in, path, in.trust_anchors[k])

\* Completeness of build_chain: unless the signature budget ran out, an error
\* means that no path would have passed, in whatever order the anchors and
\* intermediates were given.
Completeness ==
    pc = "done" /\ ret # "Ok" /\ signatures <= MAX_SIGNATURES =>
        ~HasValidPath(input)

\* build_chain never returns Ok after the signature budget was exceeded.
OkWithinBudget == pc = "done" /\ ret = "Ok" => signatures <= MAX_SIGNATURES

\* The reported error is the most specific one (Error::most_specific) of all that
\* were met anywhere in the search, not only on the last path tried.
MostSpecificError ==
    pc = "done" /\ ret # "Ok" /\ Fatal \notin met =>
        /\ ret \in met \cup {"UnknownIssuer"}
        /\ \A e \in met : rank[e] <= rank[ret]

\* build_chain returns, whatever loops the caller's certificates contain.
Termination == <>(pc = "done")

\* error.rs says of MaximumSignatureChecksExceeded "Special case error - not
\* subject to ranking": once the budget is exceeded that is what is reported.
FatalErrorReported ==
    pc = "done" /\ signatures > MAX_SIGNATURES => ret = Fatal
=============================================================================
