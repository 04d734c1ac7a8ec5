---------------------------- MODULE PathBuilding ----------------------------
(***************************************************************************)
(* Certification path building (verify_cert.rs: build_chain,               *)
(* build_chain_inner, check_signatures, loop_while_non_fatal_error).       *)
(*                                                                         *)
(* build_chain_inner is a depth-first search by recursion.  Here its       *)
(* activation records are the stack: one frame per active call, the end    *)
(* entity's first.  The certificate of frame i was issued to frame i's     *)
(* child, frame i - 1 (the EndEntityOrCa::Ca link of the code), so the     *)
(* certificates of the stack are the chain being tried.  pc says where the *)
(* topmost call is:                                                        *)
(*   "enter"          checks made before any issuer is looked for          *)
(*   "anchors"        the loop over the trust anchors                      *)
(*   "signatures"     check_signatures, called from that loop              *)
(*   "intermediates"  the loop over the intermediate certificates          *)
(*   "return"         returns ret to its caller                            *)
(*   "done"           build_chain has returned ret                         *)
(***************************************************************************)
EXTENDS NameConstraints, Revocation, WellFormed

CONSTANTS
    Inputs,            \* calls of build_chain: ChainOptions, certificate, time
    MAX_SUB_CA_COUNT,  \* 6 in the code
    MAX_SIGNATURES     \* 100 in the code

VARIABLES
    input,       \* the arguments of the call
    stack,       \* activation records of build_chain_inner
    pc,
    walk,        \* check_signatures: the frame whose certificate is verified
    signatures,  \* the shared signature counter
    ret,         \* the value being returned
    accepted,    \* history: the path for which check_signatures succeeded
    met          \* history: the errors the loops merged or ended with

vars == << input, stack, pc, walk, signatures, ret, accepted, met >>

-----------------------------------------------------------------------------
(* The data of a call.  A trust anchor is [subject, spki,                  *)
(* name_constraints]; an intermediate certificate is the Result of         *)
(* Cert::from_der.                                                         *)

\* The certificates a path can consist of.
CertsOf(in) ==
    {in.cert} \cup {d.value : d \in {in.intermediate_certs[i] :
                        i \in {j \in 1..Len(in.intermediate_certs) :
                                   in.intermediate_certs[j].result = "Ok"}}}

InputWellFormed(in) ==
    /\ Len(in.trust_anchors) \in Nat
    /\ \A i \in 1..Len(in.trust_anchors) :
           /\ IsResult(in.trust_anchors[i].spki)
           /\ ConstraintsWellFormed(in.trust_anchors[i].name_constraints)
    /\ AllResults(in.intermediate_certs)
    /\ \A c \in CertsOf(in) : CertWellFormed(c)
    /\ IsSome(in.revocation) =>
           LET crls == The(in.revocation).crls
           IN  Len(crls) \in Nat /\ \A i \in 1..Len(crls) : AllResults(crls[i].revoked)

ASSUME InputsAssumption == \A in \in Inputs : InputWellFormed(in)
ASSUME BoundsAssumption == MAX_SUB_CA_COUNT \in Nat /\ MAX_SIGNATURES \in Nat

-----------------------------------------------------------------------------
\* Mutant of NewFrame: the loops start one too early.
NewFrame_from_zero(cert, sub_ca_count) ==
    [cert |-> cert, sub_ca_count |-> sub_ca_count,
     anchor |-> 0, issuer |-> 0, error |-> "UnknownIssuer"]

NewFrame(cert, sub_ca_count) ==
    [cert |-> cert, sub_ca_count |-> sub_ca_count,
     anchor |-> 1, issuer |-> 1, error |-> "UnknownIssuer"]

Top == stack[Len(stack)]

\* The chain below an issuer of the topmost certificate, end entity first.
Chain == [i \in 1..Len(stack) |-> stack[i].cert]

used_as_ca(i) == i > 1

\* A common name may hold a DNS name in server end-entity certificates only.
subject_common_name_is_dns_name(in, i) ==
    key_purpose_id_equals(in.eku, EKU_SERVER_AUTH) /\ ~used_as_ca(i)

Init ==
    /\ input \in Inputs
    /\ stack = << NewFrame(input.cert, 0) >>
    /\ pc = "enter"
    /\ walk = 0
    /\ signatures = 0
    /\ ret = "Ok"
    /\ accepted = None
    /\ met = {}

\* loop_while_non_fatal_error: a non-fatal error of the loop body is merged
\* into the loop's error, and the next item is taken.
AnchorFailed(frame, error) ==
    [frame EXCEPT !.error = most_specific(@, error), !.anchor = @ + 1]

\* Mutants of IssuerFailed: the last error wins; the same item is tried again.
IssuerFailed_last_error(frame, error) ==
    [frame EXCEPT !.error = error, !.issuer = @ + 1]

IssuerFailed_retry(frame, error) ==
    [frame EXCEPT !.error = most_specific(@, error)]

IssuerFailed(frame, error) ==
    [frame EXCEPT !.error = most_specific(@, error), !.issuer = @ + 1]

-----------------------------------------------------------------------------
\* Mutants of sub_ca_count_allowed: off by one in either direction.
sub_ca_count_allowed_fewer == used_as_ca(Len(stack)) => Top.sub_ca_count + 1 < MAX_SUB_CA_COUNT
sub_ca_count_allowed_more == used_as_ca(Len(stack)) => Top.sub_ca_count <= MAX_SUB_CA_COUNT

sub_ca_count_allowed == used_as_ca(Len(stack)) => Top.sub_ca_count < MAX_SUB_CA_COUNT

\* The checks at the start of build_chain_inner.
enter_verdict ==
    check_issuer_independent_properties(Top.cert, input.time,
        used_as_ca(Len(stack)), Top.sub_ca_count, input.eku)
    ?? Require(sub_ca_count_allowed, "UnknownIssuer")

EnterFails ==
    /\ pc = "enter"
    /\ enter_verdict # "Ok"
    /\ pc' = "return"
    /\ ret' = enter_verdict
    /\ met' = met \cup {enter_verdict}
    /\ UNCHANGED << input, stack, walk, signatures, accepted >>

EnterSucceeds ==
    /\ pc = "enter"
    /\ enter_verdict = "Ok"
    /\ pc' = "anchors"
    /\ UNCHANGED << input, stack, walk, signatures, ret, accepted, met >>

-----------------------------------------------------------------------------
\* Mutant of anchor_verdict: any anchor will do.
anchor_verdict_of_any_name(anchor) ==
    check_name_constraints(anchor.name_constraints, Chain,
        subject_common_name_is_dns_name(input, Len(stack)))

\* The body of the loop over the trust anchors, up to check_signatures.
anchor_verdict(anchor) ==
    Require(Top.cert.issuer = anchor.subject, "UnknownIssuer")
    ?? check_name_constraints(anchor.name_constraints, Chain,
           subject_common_name_is_dns_name(input, Len(stack)))

AnchorRejected ==
    /\ pc = "anchors"
    /\ Top.anchor <= Len(input.trust_anchors)
    /\ LET verdict == anchor_verdict(input.trust_anchors[Top.anchor])
       IN  /\ verdict # "Ok"
           /\ stack' = [stack EXCEPT ![Len(stack)] = AnchorFailed(@, verdict)]
           /\ met' = met \cup {verdict}
    /\ UNCHANGED << input, pc, walk, signatures, ret, accepted >>

AnchorCandidate ==
    /\ pc = "anchors"
    /\ Top.anchor <= Len(input.trust_anchors)
    /\ anchor_verdict(input.trust_anchors[Top.anchor]) = "Ok"
    /\ pc' = "signatures"
    /\ walk' = Len(stack)
    /\ UNCHANGED << input, stack, signatures, ret, accepted, met >>

\* The error of the anchor loop becomes the default of the issuer loop.
AnchorsExhausted ==
    /\ pc = "anchors"
    /\ Top.anchor > Len(input.trust_anchors)
    /\ pc' = "intermediates"
    /\ UNCHANGED << input, stack, walk, signatures, ret, accepted, met >>

-----------------------------------------------------------------------------
(* check_signatures goes from the certificate next to the trust anchor     *)
(* down to the end entity.                                                 *)

issuer_spki(chain, anchor, i) ==
    IF i = Len(chain) THEN anchor.spki ELSE chain[i + 1].spki

\* Mutant of issuer_key_usage: the certificate's own.
own_key_usage(chain, i) == chain[i].key_usage

issuer_key_usage(chain, i) ==
    IF i = Len(chain) THEN None ELSE chain[i + 1].key_usage

\* The signature of chain[i], and its revocation status.
signature_verdict(in, chain, anchor, i) ==
    verify_signed_data(in.supported_sig_algs,
        issuer_spki(chain, anchor, i), chain[i].signed_data)
    ?? (IF IsSome(in.revocation)
        THEN check_crls(in.supported_sig_algs, chain[i], used_as_ca(i),
                 issuer_spki(chain, anchor, i), issuer_key_usage(chain, i),
                 The(in.revocation))
        ELSE "Ok")

\* Mutant of within_budget: off by one.
within_budget_plus_one == signatures <= MAX_SIGNATURES

within_budget == signatures < MAX_SIGNATURES

walk_verdict ==
    Require(within_budget, Fatal)
    ?? signature_verdict(input, Chain, input.trust_anchors[Top.anchor], walk)

\* The certificate being verified is the last of the walk.
\* Mutant: the walk stops above the end entity.
at_last_issuer == walk <= 2

at_end_entity == walk = 1

SignatureValid ==
    /\ pc = "signatures"
    /\ walk_verdict = "Ok"
    /\ signatures' = signatures + 1
    /\ walk' = walk - 1
    /\ IF ~at_end_entity
       THEN UNCHANGED << pc, ret, accepted >>
       ELSE /\ pc' = "return"
            /\ ret' = "Ok"
            /\ accepted' = Some([path |-> Chain, anchor |-> Top.anchor])
    /\ UNCHANGED << input, stack, met >>

SignatureFails ==
    /\ pc = "signatures"
    /\ walk_verdict \notin {"Ok", Fatal}
    /\ signatures' = signatures + 1
    /\ pc' = "anchors"
    /\ stack' = [stack EXCEPT ![Len(stack)] = AnchorFailed(@, walk_verdict)]
    /\ met' = met \cup {walk_verdict}
    /\ UNCHANGED << input, walk, ret, accepted >>

\* The fatal error ends the anchor loop, and only that loop.
BudgetExhausted ==
    /\ pc = "signatures"
    /\ walk_verdict = Fatal
    /\ signatures' = signatures + 1
    /\ pc' = "intermediates"
    /\ stack' = [stack EXCEPT ![Len(stack)].error = Fatal]
    /\ met' = met \cup {Fatal}
    /\ UNCHANGED << input, walk, ret, accepted >>

-----------------------------------------------------------------------------
\* Mutant of in_chain: only the certificate issued to is compared.
is_child(cert) == cert.spki = Top.cert.spki /\ cert.subject = Top.cert.subject

\* The certificate is already in the chain: same subject and same key.  (The code
\* compares the octets of the SPKI, here the Result of decoding them.)
in_chain(cert) ==
    \E i \in 1..Len(stack) : /\ cert.spki = stack[i].cert.spki
                             /\ cert.subject = stack[i].cert.subject

\* The body of the loop over the intermediates, up to the recursive call.
issuer_verdict(potential_issuer) ==
    potential_issuer.result
    ?? Require(potential_issuer.value.subject = Top.cert.issuer, "UnknownIssuer")
    ?? Require(~in_chain(potential_issuer.value), "UnknownIssuer")
    ?? check_name_constraints(potential_issuer.value.name_constraints, Chain,
           subject_common_name_is_dns_name(input, Len(stack)))

next_sub_ca_count ==
    IF used_as_ca(Len(stack)) THEN Top.sub_ca_count + 1 ELSE Top.sub_ca_count

IssuerRejected ==
    /\ pc = "intermediates"
    /\ Top.issuer <= Len(input.intermediate_certs)
    /\ LET verdict == issuer_verdict(input.intermediate_certs[Top.issuer])
       IN  /\ verdict # "Ok"
           /\ stack' = [stack EXCEPT ![Len(stack)] = IssuerFailed(@, verdict)]
           /\ met' = met \cup {verdict}
    /\ UNCHANGED << input, pc, walk, signatures, ret, accepted >>

\* The recursive call.
IssuerCandidate ==
    /\ pc = "intermediates"
    /\ Top.issuer <= Len(input.intermediate_certs)
    /\ issuer_verdict(input.intermediate_certs[Top.issuer]) = "Ok"
    /\ stack' = Append(stack, NewFrame(input.intermediate_certs[Top.issuer].value,
                                       next_sub_ca_count))
    /\ pc' = "enter"
    /\ UNCHANGED << input, walk, signatures, ret, accepted, met >>

IssuersExhausted ==
    /\ pc = "intermediates"
    /\ Top.issuer > Len(input.intermediate_certs)
    /\ pc' = "return"
    /\ ret' = Top.error
    /\ UNCHANGED << input, stack, walk, signatures, accepted, met >>

-----------------------------------------------------------------------------
\* Pop the topmost frame; its caller is then the topmost one.
Callers == [i \in 1..(Len(stack) - 1) |-> stack[i]]

\* Success and the fatal error end the caller's loop, and so the caller.
ReturnThrough ==
    /\ pc = "return"
    /\ Len(stack) > 1
    /\ ret \in {"Ok", Fatal}
    /\ stack' = Callers
    /\ UNCHANGED << input, pc, walk, signatures, ret, accepted, met >>

\* Any other error is merged by the caller's loop, which goes on.
ReturnError ==
    /\ pc = "return"
    /\ Len(stack) > 1
    /\ ret \notin {"Ok", Fatal}
    /\ stack' = [Callers EXCEPT ![Len(stack) - 1] = IssuerFailed(@, ret)]
    /\ pc' = "intermediates"
    /\ UNCHANGED << input, walk, signatures, ret, accepted, met >>

ReturnResult ==
    /\ pc = "return"
    /\ Len(stack) = 1
    /\ pc' = "done"
    /\ UNCHANGED << input, stack, walk, signatures, ret, accepted, met >>

-----------------------------------------------------------------------------
\* build_chain has returned.
Done == pc = "done" /\ UNCHANGED vars

Next ==
    \/ EnterFails \/ EnterSucceeds
    \/ AnchorRejected \/ AnchorCandidate \/ AnchorsExhausted
    \/ SignatureValid \/ SignatureFails \/ BudgetExhausted
    \/ IssuerRejected \/ IssuerCandidate \/ IssuersExhausted
    \/ ReturnThrough \/ ReturnError \/ ReturnResult
    \/ Done

\* A call runs until it returns: the thread that made it is not abandoned.
Spec == Init /\ [][Next]_vars /\ WF_vars(Next)
=============================================================================
