----------------------------- MODULE PathProofs -----------------------------
(***************************************************************************)
(* Path building, for any number of anchors, intermediates and CRLs: type  *)
(* correctness, soundness and what follows from the same invariant; then   *)
(* what an error means: it is the most specific one of the whole search    *)
(* and, unless the signature budget was exceeded, no valid path exists;    *)
(* then what the checks mean, and with it that the search implements       *)
(* PathSpec: its verdict is the one that the rules of TrustedPaths give.   *)
(*                                                                         *)
(* The checks that make a path valid are made at different times: those on *)
(* a certificate alone when its frame is entered, those between a          *)
(* certificate and its issuer just before the issuer is pushed, the        *)
(* signatures last, from the top down.  The invariant says which of them   *)
(* hold of the chain on the stack at each point of the code; it survives   *)
(* the pops of a failed branch because every conjunct of ChainOK is closed *)
(* under taking prefixes.                                                  *)
(***************************************************************************)
EXTENDS PathRefinement, CheckProofs, FiniteSetTheorems

-----------------------------------------------------------------------------
(* Type correctness.                                                       *)

\* check_signatures walks over the chain, for an anchor that exists.
WalkInBounds ==
    pc = "signatures" => /\ walk \in 1..Len(stack)
                         /\ Top.anchor \in 1..Len(input.trust_anchors)

Typed == input \in Inputs /\ TypeOK /\ WalkInBounds

LEMMA OkIsNoError == "Ok" \notin Error /\ Fatal \in Error /\ "UnknownIssuer" \in Error
  BY DEF Error, rank, Fatal

LEMMA ErrorIsResult ==
    /\ Error \subseteq Results
    /\ \A r \in Results : r # "Ok" => r \in Error
    /\ Verdicts \subseteq Results /\ Fatal \notin Verdicts
  BY DEF Results, Verdicts

\* Merging an error keeps a frame a frame, and its certificate and place.
LEMMA FailedFrames ==
    ASSUME NEW in, NEW f \in Frame(in), NEW e \in Error
    PROVE  /\ AnchorFailed(f, e) \in Frame(in)
           /\ IssuerFailed(f, e) \in Frame(in)
           /\ AnchorFailed(f, e).cert = f.cert
           /\ IssuerFailed(f, e).cert = f.cert
           /\ AnchorFailed(f, e).sub_ca_count = f.sub_ca_count
           /\ IssuerFailed(f, e).sub_ca_count = f.sub_ca_count
           /\ AnchorFailed(f, e).error = most_specific(f.error, e)
           /\ IssuerFailed(f, e).error = most_specific(f.error, e)
<1> DEFINE m == most_specific(f.error, e)
<1>1. m \in Error
  BY MostSpecificChooses DEF Frame
<1>2. f.anchor + 1 \in Nat \ {0} /\ f.issuer + 1 \in Nat \ {0}
  BY DEF Frame
<1>3. /\ AnchorFailed(f, e) = [f EXCEPT !.error = m, !.anchor = f.anchor + 1]
      /\ IssuerFailed(f, e) = [f EXCEPT !.error = m, !.issuer = f.issuer + 1]
  BY DEF AnchorFailed, IssuerFailed, Frame
<1> HIDE DEF m
<1> QED
  <2>1. f.error \in Error
    BY DEF Frame
  <2> QED
    BY <1>1, <1>2, <1>3 DEF Frame, m

\* The chain is the sequence of the frames' certificates.
LEMMA ChainOfStack ==
    ASSUME stack \in Seq(Frame(input))
    PROVE  /\ Chain \in Seq(CertsOf(input))
           /\ Len(Chain) = Len(stack)
           /\ \A i \in 1..Len(stack) : Chain[i] = stack[i].cert
<1>1. Len(stack) \in Nat /\ \A i \in 1..Len(stack) : stack[i] \in Frame(input)
  OBVIOUS
<1>2. \A i \in 1..Len(stack) : stack[i].cert \in CertsOf(input)
  BY <1>1 DEF Frame
<1>3. \A n \in Nat : \A c \in [1..n -> CertsOf(input)] : c \in Seq(CertsOf(input)) /\ Len(c) = n
  OBVIOUS
<1>4. Chain \in [1..Len(stack) -> CertsOf(input)]
  BY <1>2 DEF Chain
<1> QED
  BY <1>1, <1>3, <1>4 DEF Chain

LEMMA ChainWellFormed ==
    ASSUME input \in Inputs, stack \in Seq(Frame(input))
    PROVE  /\ \A i \in 1..Len(stack) : CertWellFormed(stack[i].cert)
           /\ \A i \in 1..Len(Chain) : CertWellFormed(Chain[i])
<1>1. \A c \in CertsOf(input) : CertWellFormed(c)
  BY InputsAssumption DEF InputWellFormed
<1>2. \A i \in 1..Len(stack) : stack[i] \in Frame(input)
  OBVIOUS
<1>3. \A i \in 1..Len(stack) : stack[i].cert \in CertsOf(input)
  BY <1>2 DEF Frame
<1> QED
  BY <1>1, <1>3, ChainOfStack

\* The topmost frame exists.
LEMMA TopFrame ==
    ASSUME stack \in Seq(Frame(input)), stack # << >>
    PROVE  /\ Len(stack) \in Nat \ {0}
           /\ Len(stack) \in 1..Len(stack)
           /\ Top \in Frame(input)
  BY DEF Top

\* The verdicts that guard the actions are verdicts of the checks; that of the walk
\* is fatal exactly if the budget is spent.
LEMMA EnterVerdictResult ==
    ASSUME Typed
    PROVE  enter_verdict \in Verdicts
<1>1. CertWellFormed(Top.cert)
  BY ChainWellFormed, TopFrame DEF Typed, TypeOK, Top
<1> QED
  BY <1>1, CheckPropertiesResult
     DEF enter_verdict, Require, ??, Verdicts, Results, Error, rank, Fatal

LEMMA AnchorVerdictResult ==
    ASSUME Typed, NEW k \in 1..Len(input.trust_anchors)
    PROVE  anchor_verdict(input.trust_anchors[k]) \in Verdicts
<1> DEFINE anchor == input.trust_anchors[k]
           cn == subject_common_name_is_dns_name(input, Len(stack))
<1>1. ConstraintsWellFormed(anchor.name_constraints)
  BY InputsAssumption DEF Typed, InputWellFormed
<1>2. check_name_constraints(anchor.name_constraints, Chain, cn) \in Verdicts
  BY <1>1, ChainWellFormed, ChainOfStack, CheckNameConstraintsResult DEF Typed, TypeOK
<1> QED
  BY <1>2 DEF anchor_verdict, Require, ??, Verdicts, Results, Error, rank, Fatal

LEMMA IssuerVerdictResult ==
    ASSUME Typed, NEW k \in 1..Len(input.intermediate_certs)
    PROVE  /\ issuer_verdict(input.intermediate_certs[k]) \in Verdicts
           /\ issuer_verdict(input.intermediate_certs[k]) = "Ok" =>
                  input.intermediate_certs[k].value \in CertsOf(input)
<1> DEFINE issuer == input.intermediate_certs[k]
           cn == subject_common_name_is_dns_name(input, Len(stack))
<1>1. IsResult(issuer)
  BY InputsAssumption DEF Typed, InputWellFormed, AllResults
<1>2. CASE issuer.result # "Ok"
  BY <1>1, <1>2 DEF issuer_verdict, ??, IsResult, Verdicts
<1>3. CASE issuer.result = "Ok"
  <2>1. issuer.value \in CertsOf(input)
    BY <1>3 DEF CertsOf
  <2>2. ConstraintsWellFormed(issuer.value.name_constraints)
    BY <2>1, InputsAssumption DEF Typed, InputWellFormed, CertWellFormed
  <2>3. check_name_constraints(issuer.value.name_constraints, Chain, cn) \in Verdicts
    BY <2>2, ChainWellFormed, ChainOfStack, CheckNameConstraintsResult DEF Typed, TypeOK
  <2> QED
    BY <1>3, <2>1, <2>3
       DEF issuer_verdict, Require, ??, Verdicts, Results, Error, rank, Fatal
<1> QED
  BY <1>2, <1>3

LEMMA WalkVerdictResult ==
    ASSUME Typed, pc = "signatures"
    PROVE  /\ walk_verdict \in Results
           /\ walk_verdict = Fatal <=> ~within_budget
<1> DEFINE anchor == input.trust_anchors[Top.anchor]
           spki == issuer_spki(Chain, anchor, walk)
           ku == issuer_key_usage(Chain, walk)
<1>1. /\ Len(Chain) = Len(stack) /\ Len(stack) \in Nat /\ walk \in 1..Len(Chain)
      /\ Top.anchor \in 1..Len(input.trust_anchors)
  BY ChainOfStack DEF Typed, TypeOK, WalkInBounds
<1>2. walk # Len(Chain) => CertWellFormed(Chain[walk + 1])
  BY <1>1, ChainWellFormed DEF Typed, TypeOK
<1>3. IsResult(anchor.spki)
  BY <1>1, InputsAssumption DEF Typed, InputWellFormed
<1>4. IsResult(spki)
  BY <1>2, <1>3 DEF issuer_spki, CertWellFormed
<1>5. IsSome(ku) => IsResult(The(ku))
  BY <1>2 DEF issuer_key_usage, CertWellFormed, IsSome, None
<1> HIDE DEF spki, ku
<1>6. verify_signed_data(input.supported_sig_algs, spki, Chain[walk].signed_data) \in Verdicts
  BY <1>4, VerifySignedDataResult
<1>7. IsSome(input.revocation) =>
          check_crls(input.supported_sig_algs, Chain[walk], used_as_ca(walk), spki, ku,
                     The(input.revocation)) \in Verdicts
  BY <1>4, <1>5, CheckCrlsResult, InputsAssumption DEF Typed, InputWellFormed
<1>8. signature_verdict(input, Chain, anchor, walk) \in Verdicts
  BY <1>6, <1>7 DEF signature_verdict, ??, Verdicts, Results, Fatal, spki, ku
<1> QED
  BY <1>8 DEF walk_verdict, Require, ??, Verdicts, Fatal, Results, Error, rank

-----------------------------------------------------------------------------
(* The three ways a step changes the stack: the topmost frame is updated,  *)
(* a frame is pushed, a frame is popped.                                   *)

\* The chain and the counts of intermediates stay as they are.
SameChain ==
    /\ Len(stack') = Len(stack)
    /\ Chain' = Chain
    /\ \A i \in 1..Len(stack) : stack'[i].sub_ca_count = stack[i].sub_ca_count

LEMMA TopUpdated ==
    ASSUME stack \in Seq(Frame(input)), stack # << >>,
           NEW f \in Frame(input), f.cert = Top.cert, f.sub_ca_count = Top.sub_ca_count,
           stack' = [stack EXCEPT ![Len(stack)] = f]
    PROVE  /\ stack' \in Seq(Frame(input)) /\ stack' # << >>
           /\ SameChain
           /\ Top' = f
           /\ \A i \in 1..(Len(stack) - 1) : stack'[i] = stack[i]
<1>1. Len(stack) \in Nat \ {0}
  BY TopFrame
<1>2. stack' \in Seq(Frame(input)) /\ Len(stack') = Len(stack)
  BY <1>1
<1>3. \A i \in 1..Len(stack) : stack'[i] = IF i = Len(stack) THEN f ELSE stack[i]
  BY <1>1
<1>4. \A i \in 1..Len(stack) : stack'[i].cert = stack[i].cert
  BY <1>3 DEF Top
<1>5. Chain' = Chain
  BY <1>2, <1>4 DEF Chain
<1>6. \A i \in 1..Len(stack) : stack'[i].sub_ca_count = stack[i].sub_ca_count
  BY <1>3 DEF Top
<1>7. Top' = f
  BY <1>1, <1>2, <1>3 DEF Top
<1>8. \A i \in 1..(Len(stack) - 1) : stack'[i] = stack[i]
  BY <1>1, <1>3
<1>9. stack' # << >>
  BY <1>1, <1>2
<1> QED
  BY <1>2, <1>5, <1>6, <1>7, <1>8, <1>9, Zenon DEF SameChain

LEMMA FramePushed ==
    ASSUME stack \in Seq(Frame(input)), NEW f \in Frame(input), stack' = Append(stack, f)
    PROVE  /\ stack' \in Seq(Frame(input)) /\ stack' # << >>
           /\ Len(stack') = Len(stack) + 1
           /\ Top' = f
           /\ \A i \in 1..Len(stack) : stack'[i] = stack[i]
           /\ Chain' = [i \in 1..(Len(stack) + 1) |->
                           IF i <= Len(stack) THEN Chain[i] ELSE f.cert]
<1>1. /\ stack' \in Seq(Frame(input)) /\ Len(stack') = Len(stack) + 1
      /\ Len(stack) \in Nat
      /\ \A i \in 1..Len(stack) : stack'[i] = stack[i]
      /\ stack'[Len(stack) + 1] = f
  OBVIOUS
<1>2. Chain' = [i \in 1..(Len(stack) + 1) |-> IF i <= Len(stack) THEN Chain[i] ELSE f.cert]
  <2>1. \A i \in 1..(Len(stack) + 1) :
            stack'[i].cert = IF i <= Len(stack) THEN Chain[i] ELSE f.cert
    BY <1>1, ChainOfStack
  <2> QED
    BY <1>1, <2>1, Zenon DEF Chain
<1> QED
  BY <1>1, <1>2 DEF Top

LEMMA FramePopped ==
    ASSUME stack \in Seq(Frame(input)), Len(stack) > 1
    PROVE  /\ Callers \in Seq(Frame(input)) /\ Callers # << >>
           /\ Len(stack) - 1 \in Nat \ {0} /\ Len(Callers) = Len(stack) - 1
           /\ \A i \in 1..(Len(stack) - 1) : Callers[i] = stack[i]
<1>1. Len(stack) - 1 \in Nat \ {0} /\ \A i \in 1..(Len(stack) - 1) : stack[i] \in Frame(input)
  <2>1. Len(stack) \in Nat /\ \A i \in 1..Len(stack) : stack[i] \in Frame(input)
    OBVIOUS
  <2> QED
    BY <2>1
<1>2. Callers \in [1..(Len(stack) - 1) -> Frame(input)]
  BY <1>1 DEF Callers
<1> QED
  BY <1>1, <1>2 DEF Callers

\* Popping a frame, and possibly updating the one below.
LEMMA ChainPopped ==
    ASSUME stack \in Seq(Frame(input)), Len(stack) > 1,
           NEW f \in Frame(input),
           f.cert = stack[Len(stack) - 1].cert,
           f.sub_ca_count = stack[Len(stack) - 1].sub_ca_count,
           stack' = [Callers EXCEPT ![Len(stack) - 1] = f]
    PROVE  /\ stack' \in Seq(Frame(input)) /\ stack' # << >>
           /\ Len(stack') = Len(stack) - 1
           /\ Top' = f
           /\ \A i \in 1..(Len(stack) - 2) : stack'[i] = stack[i]
           /\ \A i \in 1..(Len(stack) - 1) : stack'[i].sub_ca_count = stack[i].sub_ca_count
           /\ Chain' = [i \in 1..(Len(stack) - 1) |-> Chain[i]]
<1>1. /\ Callers \in Seq(Frame(input)) /\ Callers # << >>
      /\ Len(Callers) = Len(stack) - 1
      /\ \A i \in 1..(Len(stack) - 1) : Callers[i] = stack[i]
  BY FramePopped
<1>2. Len(stack) - 1 \in Nat \ {0}
  BY FramePopped
<1>3. /\ stack' \in Seq(Frame(input)) /\ Len(stack') = Len(stack) - 1
      /\ \A i \in 1..(Len(stack) - 1) :
             stack'[i] = IF i = Len(stack) - 1 THEN f ELSE stack[i]
  BY <1>1, <1>2
<1>4. \A i \in 1..(Len(stack) - 1) :
          /\ stack'[i].sub_ca_count = stack[i].sub_ca_count
          /\ stack'[i].cert = Chain[i]
  BY <1>3, ChainOfStack, SMTT(30)
<1>5. Chain' = [i \in 1..(Len(stack) - 1) |-> Chain[i]]
  <2>1. Chain' = [i \in 1..Len(stack') |-> stack'[i].cert]
    BY DEF Chain
  <2>2. Len(stack') = Len(stack) - 1
    BY <1>3
  <2> QED
    BY <1>4, <2>1, <2>2, Zenon
<1> QED
  BY <1>2, <1>3, <1>4, <1>5 DEF Top

-----------------------------------------------------------------------------
(* What the steps do to the stack.                                         *)

\* Only the loop state of the topmost frame changes.
TopChanged ==
    /\ stack' \in Seq(Frame(input)) /\ stack' # << >>
    /\ SameChain
    /\ \A i \in 1..(Len(stack) - 1) : stack'[i] = stack[i]

\* A loop meets an error and merges it.
Merged ==
    \E e \in Error : /\ met' = met \cup {e}
                     /\ Top'.error = most_specific(Top.error, e)

LEMMA LoopSteps ==
    ASSUME Typed, AnchorRejected \/ SignatureFails \/ IssuerRejected
    PROVE  TopChanged /\ Merged
<1>1. stack \in Seq(Frame(input)) /\ stack # << >> /\ Len(stack) \in Nat \ {0}
      /\ Top \in Frame(input) /\ Len(stack) \in 1..Len(stack)
  BY TopFrame DEF Typed, TypeOK
<1>2. ASSUME NEW e \in Error, NEW f, f \in {AnchorFailed(Top, e), IssuerFailed(Top, e)},
             stack' = [stack EXCEPT ![Len(stack)] = f], met' = met \cup {e}
      PROVE  TopChanged /\ Merged
  <2>1. /\ f \in Frame(input)
        /\ f.cert = Top.cert /\ f.sub_ca_count = Top.sub_ca_count
        /\ f.error = most_specific(Top.error, e)
    BY <1>1, <1>2, FailedFrames
  <2>2. TopChanged /\ Top' = f
    BY <1>1, <1>2, <2>1, TopUpdated DEF TopChanged
  <2> QED
    BY <1>2, <2>1, <2>2 DEF Merged
<1>3. CASE AnchorRejected
  <2> DEFINE v == anchor_verdict(input.trust_anchors[Top.anchor])
  <2>1. Top.anchor \in 1..Len(input.trust_anchors)
    BY <1>1, <1>3, InputsAssumption DEF AnchorRejected, Frame, Typed, InputWellFormed
  <2>2. v \in Error
    BY <1>3, <2>1, AnchorVerdictResult, ErrorIsResult DEF AnchorRejected
  <2>3. stack' = [stack EXCEPT ![Len(stack)] = AnchorFailed(Top, v)] /\ met' = met \cup {v}
    BY <1>1, <1>3 DEF AnchorRejected, Top
  <2> HIDE DEF v
  <2> QED
    BY <1>2, <2>2, <2>3
<1>4. CASE SignatureFails
  <2>1. walk_verdict \in Error
    BY <1>4, WalkVerdictResult, ErrorIsResult DEF SignatureFails
  <2>2. /\ stack' = [stack EXCEPT ![Len(stack)] = AnchorFailed(Top, walk_verdict)]
        /\ met' = met \cup {walk_verdict}
    BY <1>1, <1>4 DEF SignatureFails, Top
  <2> QED
    BY <1>2, <2>1, <2>2
<1>5. CASE IssuerRejected
  <2> DEFINE v == issuer_verdict(input.intermediate_certs[Top.issuer])
  <2>1. Top.issuer \in 1..Len(input.intermediate_certs)
    BY <1>1, <1>5, InputsAssumption DEF IssuerRejected, Frame, Typed, InputWellFormed, AllResults
  <2>2. v \in Error
    BY <1>5, <2>1, IssuerVerdictResult, ErrorIsResult DEF IssuerRejected
  <2>3. stack' = [stack EXCEPT ![Len(stack)] = IssuerFailed(Top, v)] /\ met' = met \cup {v}
    BY <1>1, <1>5 DEF IssuerRejected, Top
  <2> HIDE DEF v
  <2> QED
    BY <1>2, <2>2, <2>3
<1> QED
  BY <1>3, <1>4, <1>5

LEMMA BudgetStep ==
    ASSUME Typed, BudgetExhausted
    PROVE  TopChanged
<1> DEFINE f == [Top EXCEPT !.error = Fatal]
<1>1. stack \in Seq(Frame(input)) /\ stack # << >> /\ Len(stack) \in Nat \ {0}
      /\ Top \in Frame(input) /\ Len(stack) \in 1..Len(stack)
  BY TopFrame DEF Typed, TypeOK
<1>2. f \in Frame(input) /\ f.cert = Top.cert /\ f.sub_ca_count = Top.sub_ca_count
  BY <1>1, OkIsNoError DEF Frame
<1>3. stack' = [stack EXCEPT ![Len(stack)] = f]
  BY <1>1 DEF BudgetExhausted, Top
<1> HIDE DEF f
<1> QED
  BY <1>1, <1>2, <1>3, TopUpdated DEF TopChanged

\* The recursive call: the issuer becomes the topmost certificate.
Pushed(cert) ==
    /\ stack' \in Seq(Frame(input)) /\ stack' # << >>
    /\ Len(stack') = Len(stack) + 1
    /\ Top' = NewFrame(cert, next_sub_ca_count)
    /\ \A i \in 1..Len(stack) : stack'[i] = stack[i]
    /\ Chain' = [i \in 1..(Len(stack) + 1) |->
                    IF i <= Len(stack) THEN Chain[i] ELSE cert]

LEMMA NewFrameIsFrame ==
    ASSUME NEW in, NEW c \in CertsOf(in), NEW n \in Nat
    PROVE  NewFrame(c, n) \in Frame(in)
  BY OkIsNoError DEF NewFrame, Frame

LEMMA CallStep ==
    ASSUME Typed, IssuerCandidate
    PROVE  /\ Top.issuer \in 1..Len(input.intermediate_certs)
           /\ Pushed(input.intermediate_certs[Top.issuer].value)
<1> DEFINE c == input.intermediate_certs[Top.issuer].value
<1>1. stack \in Seq(Frame(input)) /\ stack # << >> /\ Len(stack) \in Nat \ {0}
      /\ Top \in Frame(input)
  BY TopFrame DEF Typed, TypeOK
<1>2. Top.issuer \in 1..Len(input.intermediate_certs)
  BY <1>1, InputsAssumption DEF IssuerCandidate, Frame, Typed, InputWellFormed, AllResults
<1>3. c \in CertsOf(input)
  BY <1>2, IssuerVerdictResult DEF IssuerCandidate
<1>4. next_sub_ca_count \in Nat
  BY <1>1 DEF next_sub_ca_count, Frame
<1>5. NewFrame(c, next_sub_ca_count) \in Frame(input)
  BY <1>3, <1>4, NewFrameIsFrame
<1>6. NewFrame(c, next_sub_ca_count).cert = c
  BY DEF NewFrame
<1>7. stack' = Append(stack, NewFrame(c, next_sub_ca_count))
  BY DEF IssuerCandidate
<1> HIDE DEF c
<1>8. Pushed(c)
  BY <1>1, <1>5, <1>6, <1>7, FramePushed DEF Pushed
<1> QED
  BY <1>2, <1>8 DEF c

\* A return: the caller is the topmost frame again.
Popped ==
    /\ stack' \in Seq(Frame(input)) /\ stack' # << >>
    /\ Len(stack') = Len(stack) - 1
    /\ \A i \in 1..(Len(stack) - 2) : stack'[i] = stack[i]
    /\ \A i \in 1..(Len(stack) - 1) : stack'[i].sub_ca_count = stack[i].sub_ca_count
    /\ Chain' = [i \in 1..(Len(stack) - 1) |-> Chain[i]]

LEMMA ReturnSteps ==
    ASSUME Typed, ReturnThrough \/ ReturnError
    PROVE  /\ Popped
           /\ ReturnThrough => Top' = stack[Len(stack) - 1]
           /\ ReturnError => Top'.error = most_specific(stack[Len(stack) - 1].error, ret)
<1> DEFINE n == Len(stack) - 1
           g == stack[n]
<1>1. stack \in Seq(Frame(input)) /\ Len(stack) > 1 /\ ret \in Results
  BY DEF Typed, TypeOK, ReturnThrough, ReturnError
<1>2. /\ n \in Nat \ {0} /\ n \in 1..n /\ Len(Callers) = n /\ Callers[n] = g
      /\ Callers \in Seq(Frame(input))
  BY <1>1, FramePopped
<1>3. g \in Frame(input)
  BY <1>2
<1>4. CASE ReturnThrough
  <2>1. stack' = [Callers EXCEPT ![n] = g]
    BY <1>2, <1>4 DEF ReturnThrough
  <2>2. Popped /\ Top' = g
    BY <1>1, <1>3, <2>1, ChainPopped DEF Popped
  <2>3. ~ReturnError
    BY <1>4 DEF ReturnThrough, ReturnError
  <2> QED
    BY <2>2, <2>3
<1>5. CASE ReturnError
  <2>1. ret \in Error
    BY <1>1, <1>5, ErrorIsResult DEF ReturnError
  <2>2. /\ IssuerFailed(g, ret) \in Frame(input)
        /\ IssuerFailed(g, ret).cert = g.cert
        /\ IssuerFailed(g, ret).sub_ca_count = g.sub_ca_count
        /\ IssuerFailed(g, ret).error = most_specific(g.error, ret)
    BY <1>3, <2>1, FailedFrames
  <2>3. stack' = [Callers EXCEPT ![n] = IssuerFailed(g, ret)]
    BY <1>2, <1>5 DEF ReturnError
  <2>4. Popped /\ Top' = IssuerFailed(g, ret)
    BY <1>1, <2>2, <2>3, ChainPopped DEF Popped
  <2>5. ~ReturnThrough
    BY <1>5 DEF ReturnThrough, ReturnError
  <2> QED
    BY <2>2, <2>4, <2>5
<1> QED
  BY <1>4, <1>5

-----------------------------------------------------------------------------
(* Type correctness.                                                       *)

LEMMA InitTyped == Init => Typed
<1> SUFFICES ASSUME Init PROVE Typed
  OBVIOUS
<1>1. NewFrame(input.cert, 0) \in Frame(input)
  BY NewFrameIsFrame DEF CertsOf
<1>2. stack \in Seq(Frame(input)) /\ stack # << >>
  BY <1>1 DEF Init
<1> QED
  BY <1>2 DEF Init, Typed, TypeOK, WalkInBounds, Results

LEMMA NextTyped == Typed /\ [Next]_vars => Typed'
<1> SUFFICES ASSUME Typed, [Next]_vars PROVE Typed'
  OBVIOUS
<1>1. /\ input \in Inputs
      /\ stack \in Seq(Frame(input)) /\ stack # << >>
      /\ pc \in {"enter", "anchors", "signatures", "intermediates", "return", "done"}
      /\ walk \in Nat /\ signatures \in Nat /\ ret \in Results /\ met \subseteq Error
      /\ WalkInBounds
  BY DEF Typed, TypeOK
<1>2. Len(stack) \in Nat \ {0} /\ Len(stack) \in 1..Len(stack) /\ Top \in Frame(input)
  BY <1>1, TopFrame
<1>3. CASE EnterFails
  <2>1. enter_verdict \in Error
    BY <1>3, EnterVerdictResult, ErrorIsResult DEF EnterFails
  <2> QED
    BY <1>1, <1>3, <2>1 DEF EnterFails, Typed, TypeOK, WalkInBounds, Results
<1>4. CASE EnterSucceeds
  BY <1>1, <1>4 DEF EnterSucceeds, Typed, TypeOK, WalkInBounds
<1>5. CASE AnchorRejected \/ SignatureFails \/ IssuerRejected
  <2>1. TopChanged /\ Merged
    BY <1>5, LoopSteps
  <2>2. stack' \in Seq(Frame(input)) /\ stack' # << >> /\ met' \subseteq Error
    BY <1>1, <2>1 DEF TopChanged, Merged
  <2>3. /\ pc' \in {"anchors", "intermediates"}
        /\ input' = input /\ walk' = walk /\ ret' = ret /\ signatures' \in Nat
    BY <1>1, <1>5 DEF AnchorRejected, SignatureFails, IssuerRejected
  <2> QED
    BY <1>1, <2>2, <2>3 DEF Typed, TypeOK, WalkInBounds
<1>6. CASE AnchorCandidate
  <2>1. Top.anchor \in 1..Len(input.trust_anchors)
    BY <1>1, <1>2, <1>6, InputsAssumption DEF AnchorCandidate, Frame, InputWellFormed
  <2> QED
    BY <1>1, <1>2, <1>6, <2>1 DEF AnchorCandidate, Typed, TypeOK, WalkInBounds, Top
<1>7. CASE AnchorsExhausted
  BY <1>1, <1>7 DEF AnchorsExhausted, Typed, TypeOK, WalkInBounds
<1>8. CASE SignatureValid
  <2>1. walk \in 1..Len(stack) /\ walk' = walk - 1 /\ signatures' \in Nat
    BY <1>1, <1>8 DEF SignatureValid, WalkInBounds
  <2>2. walk' \in Nat /\ (~at_end_entity => walk' \in 1..Len(stack))
    BY <1>2, <2>1 DEF at_end_entity
  <2> QED
    BY <1>1, <1>8, <2>1, <2>2
       DEF SignatureValid, Typed, TypeOK, WalkInBounds, Results, Top
<1>9. CASE BudgetExhausted
  <2>1. stack' \in Seq(Frame(input)) /\ stack' # << >>
    BY <1>9, BudgetStep DEF TopChanged
  <2> QED
    BY <1>1, <1>9, <2>1, OkIsNoError DEF BudgetExhausted, Typed, TypeOK, WalkInBounds
<1>10. CASE IssuerCandidate
  <2>1. stack' \in Seq(Frame(input)) /\ stack' # << >>
    BY <1>10, CallStep DEF Pushed
  <2> QED
    BY <1>1, <1>10, <2>1 DEF IssuerCandidate, Typed, TypeOK, WalkInBounds
<1>11. CASE IssuersExhausted
  <2>1. Top.error \in Results
    BY <1>2, ErrorIsResult DEF Frame
  <2> QED
    BY <1>1, <1>11, <2>1 DEF IssuersExhausted, Typed, TypeOK, WalkInBounds
<1>12. CASE ReturnThrough \/ ReturnError
  <2>1. stack' \in Seq(Frame(input)) /\ stack' # << >>
    BY <1>12, ReturnSteps DEF Popped
  <2> QED
    BY <1>1, <1>12, <2>1 DEF ReturnThrough, ReturnError, Typed, TypeOK, WalkInBounds
<1>13. CASE ReturnResult
  BY <1>1, <1>13 DEF ReturnResult, Typed, TypeOK, WalkInBounds
<1>14. CASE Done \/ UNCHANGED vars
  BY <1>1, <1>14 DEF Done, vars, Typed, TypeOK, WalkInBounds, Top
<1> QED
  BY <1>3, <1>4, <1>5, <1>6, <1>7, <1>8, <1>9, <1>10, <1>11, <1>12, <1>13, <1>14 DEF Next

LEMMA AlwaysTyped == Spec => []Typed
  BY InitTyped, NextTyped, PTL DEF Spec

\* Type correctness of build_chain_inner, its loops and check_signatures: they
\* only ever handle the caller's certificates and errors of the Error enum.
THEOREM TypeCorrect == Spec => []TypeOK
<1>1. Typed => TypeOK
  BY DEF Typed
<1> QED
  BY <1>1, AlwaysTyped, PTL

-----------------------------------------------------------------------------
(* Soundness.                                                              *)

\* What is known of the chain being tried, whatever the topmost call does.
ChainOK(in, path) ==
    /\ path[1] = in.cert
    /\ \A i \in 2..Len(path) : path[i].subject = path[i - 1].issuer
    /\ NoRepeats(path)
    /\ \A i \in 2..Len(path) :
           check_name_constraints(path[i].name_constraints, Below(path, i),
               subject_common_name_is_dns_name(in, i - 1)) = "Ok"

\* The certificate may stand at position i of a path.
PlaceOK(in, cert, i) ==
    /\ check_issuer_independent_properties(cert, in.time, i > 1, SubCas(i), in.eku) = "Ok"
    /\ i > 1 => SubCas(i) < MAX_SUB_CA_COUNT

-----------------------------------------------------------------------------
(* ChainOK under a push and a pop.                                         *)

LEMMA SeqOfFunction ==
    ASSUME NEW S, NEW n \in Nat, NEW f \in [1..n -> S]
    PROVE  f \in Seq(S) /\ Len(f) = n /\ DOMAIN f = 1..n
  OBVIOUS

LEMMA ChainPrefix ==
    ASSUME NEW in, NEW S, NEW path \in Seq(S), Len(path) > 1, ChainOK(in, path),
           NEW prefix, prefix = [i \in 1..(Len(path) - 1) |-> path[i]]
    PROVE  ChainOK(in, prefix)
<1> DEFINE n == Len(path) - 1
<1>1. Len(path) \in Nat /\ n \in Nat \ {0} /\ \A i \in 1..n : i \in 1..Len(path)
  <2>1. Len(path) \in Nat
    OBVIOUS
  <2> QED
    BY <2>1
<1>2. prefix \in [1..n -> S]
  BY <1>1
<1>3. Len(prefix) = n
  BY <1>1, <1>2, SeqOfFunction
<1>4. \A i \in 1..n : prefix[i] = path[i]
  OBVIOUS
<1>5. prefix[1] = in.cert
  BY <1>1, <1>4 DEF ChainOK
<1>6. \A i \in 2..n : prefix[i] = path[i] /\ prefix[i - 1] = path[i - 1] /\ i \in 2..Len(path)
  BY <1>1, <1>4
<1>7. \A i \in 2..n : Below(prefix, i) = Below(path, i)
  <2>1. \A i \in 2..n : \A j \in 1..(i - 1) : prefix[j] = path[j]
    BY <1>1, <1>4
  <2> QED
    BY <2>1 DEF Below
<1>8. NoRepeats(prefix)
  BY <1>1, <1>3, <1>4 DEF ChainOK, NoRepeats
<1> QED
  BY <1>3, <1>5, <1>6, <1>7, <1>8, SMTT(30) DEF ChainOK

LEMMA ChainExtended ==
    ASSUME NEW in, NEW S, NEW path \in Seq(S), Len(path) > 0, ChainOK(in, path),
           NEW c \in S,
           c.subject = path[Len(path)].issuer,
           \A i \in 1..Len(path) : ~(c.spki = path[i].spki /\ c.subject = path[i].subject),
           check_name_constraints(c.name_constraints, path,
               subject_common_name_is_dns_name(in, Len(path))) = "Ok",
           NEW longer,
           longer = [i \in 1..(Len(path) + 1) |-> IF i <= Len(path) THEN path[i] ELSE c]
    PROVE  ChainOK(in, longer)
<1> DEFINE n == Len(path)
<1>1. n \in Nat \ {0} /\ \A i \in 1..n : path[i] \in S
  <2>1. Len(path) \in Nat
    OBVIOUS
  <2> QED
    BY <2>1
<1>2. longer \in [1..(n + 1) -> S]
  BY <1>1
<1>3. Len(longer) = n + 1
  BY <1>1, <1>2, SeqOfFunction
<1>4. (\A i \in 1..n : longer[i] = path[i]) /\ longer[n + 1] = c
  BY <1>1
<1>5. longer[1] = in.cert
  BY <1>1, <1>4 DEF ChainOK
<1>6. \A i \in 2..n : /\ longer[i] = path[i] /\ longer[i - 1] = path[i - 1]
                      /\ Below(longer, i) = Below(path, i)
  <2>1. \A i \in 2..n : \A j \in 1..(i - 1) : longer[j] = path[j]
    BY <1>1, <1>4
  <2> QED
    BY <1>1, <1>4, <2>1 DEF Below
<1>7. Below(longer, n + 1) = path
  <2>1. path = [j \in 1..n |-> path[j]]
    OBVIOUS
  <2>2. \A j \in 1..n : longer[j] = path[j]
    BY <1>4
  <2>3. (n + 1) - 1 = n
    BY <1>1
  <2> QED
    BY <2>1, <2>2, <2>3 DEF Below
<1>8. NoRepeats(longer)
  <2>1. \A i, j \in 1..(n + 1) :
            i # j => \/ i \in 1..n /\ j \in 1..n
                     \/ i = n + 1 /\ j \in 1..n
                     \/ i \in 1..n /\ j = n + 1
    BY <1>1
  <2>2. \A i, j \in 1..n :
            i # j => ~(path[i].subject = path[j].subject /\ path[i].spki = path[j].spki)
    BY DEF ChainOK, NoRepeats
  <2>3. \A i \in 1..n : ~(c.subject = path[i].subject /\ c.spki = path[i].spki)
    OBVIOUS
  <2>4. ASSUME NEW i \in 1..(n + 1), NEW j \in 1..(n + 1), i # j
        PROVE  ~(longer[i].subject = longer[j].subject /\ longer[i].spki = longer[j].spki)
    <3>1. CASE i \in 1..n /\ j \in 1..n
      BY <1>4, <2>2, <2>4, <3>1, Zenon
    <3>2. CASE i = n + 1 /\ j \in 1..n
      BY <1>4, <2>3, <3>2, Zenon
    <3>3. CASE i \in 1..n /\ j = n + 1
      BY <1>4, <2>3, <3>3, Zenon
    <3> QED
      BY <2>1, <2>4, <3>1, <3>2, <3>3, Zenon
  <2> QED
    BY <1>3, <2>4, Zenon DEF NoRepeats
<1>9. \A i \in 2..(n + 1) : i \in 2..n \/ i = n + 1
  BY <1>1
<1>10. longer[n + 1].subject = longer[(n + 1) - 1].issuer
  BY <1>1, <1>4
<1>11. check_name_constraints(longer[n + 1].name_constraints, Below(longer, n + 1),
           subject_common_name_is_dns_name(in, (n + 1) - 1)) = "Ok"
  <2>1. (n + 1) - 1 = n
    BY <1>1
  <2> QED
    BY <1>4, <1>7, <2>1
<1> HIDE DEF n
<1>12. \A i \in 2..(n + 1) : longer[i].subject = longer[i - 1].issuer
  BY <1>6, <1>9, <1>10 DEF ChainOK, n
<1>13. \A i \in 2..(n + 1) :
           check_name_constraints(longer[i].name_constraints, Below(longer, i),
               subject_common_name_is_dns_name(in, i - 1)) = "Ok"
  BY <1>6, <1>9, <1>11 DEF ChainOK, n
<1> QED
  BY <1>3, <1>5, <1>8, <1>12, <1>13 DEF ChainOK

-----------------------------------------------------------------------------
(* The chain on the stack.                                                 *)

Working == {"anchors", "signatures", "intermediates"}

ChainInv ==
    /\ ChainOK(input, Chain)
    /\ \A i \in 1..Len(stack) : stack[i].sub_ca_count = SubCas(i)
    /\ \A i \in 1..(Len(stack) - 1) : PlaceOK(input, Chain[i], i)
    /\ pc \in Working => PlaceOK(input, Chain[Len(stack)], Len(stack))
    /\ pc = "done" => Len(stack) = 1

LEMMA InitChain == Init => ChainInv
<1> SUFFICES ASSUME Init PROVE ChainInv
  OBVIOUS
<1>1. /\ Len(stack) = 1 /\ stack[1].cert = input.cert /\ stack[1].sub_ca_count = 0
      /\ stack # << >> /\ stack \in Seq(Frame(input))
  BY InitTyped DEF Init, NewFrame, Typed, TypeOK
<1>2. Len(Chain) = 1 /\ Chain[1] = input.cert
  BY <1>1, ChainOfStack
<1>3. ChainOK(input, Chain)
  BY <1>2 DEF ChainOK, NoRepeats
<1>4. \A i \in 1..Len(stack) : i = 1
  BY <1>1
<1> QED
  BY <1>1, <1>3, <1>4 DEF ChainInv, Working, SubCas, Init

LEMMA EnteredPlace ==
    ASSUME Typed, ChainInv, enter_verdict = "Ok"
    PROVE  PlaceOK(input, Chain[Len(stack)], Len(stack))
<1>1. Len(stack) \in 1..Len(stack) /\ Chain[Len(stack)] = Top.cert
  BY TopFrame, ChainOfStack DEF Typed, TypeOK, Top
<1>2. Top.sub_ca_count = SubCas(Len(stack))
  BY <1>1 DEF ChainInv, Top
<1>3. check_issuer_independent_properties(Top.cert, input.time,
          Len(stack) > 1, Top.sub_ca_count, input.eku) = "Ok"
  BY DEF enter_verdict, ??, used_as_ca
<1>4. sub_ca_count_allowed
  BY <1>3 DEF enter_verdict, ??, Require, used_as_ca
<1> QED
  BY <1>1, <1>2, <1>3, <1>4 DEF PlaceOK, sub_ca_count_allowed, used_as_ca

LEMMA CandidateExtends ==
    ASSUME Typed, ChainInv, IssuerCandidate
    PROVE  ChainOK(input, Chain)'
<1> DEFINE issuer == input.intermediate_certs[Top.issuer]
           c == issuer.value
<1>1. /\ Top.issuer \in 1..Len(input.intermediate_certs)
      /\ Pushed(c) /\ input' = input
  BY CallStep DEF IssuerCandidate
<1>2. /\ Chain \in Seq(CertsOf(input)) /\ Len(Chain) = Len(stack)
      /\ \A i \in 1..Len(stack) : Chain[i] = stack[i].cert
      /\ Len(stack) \in 1..Len(stack) /\ Len(stack) \in Nat \ {0}
  BY ChainOfStack, TopFrame DEF Typed, TypeOK
<1>3. c \in CertsOf(input)
  BY <1>1, IssuerVerdictResult DEF IssuerCandidate
<1>4. /\ issuer.result = "Ok"
      /\ c.subject = Top.cert.issuer
      /\ ~in_chain(c)
      /\ check_name_constraints(c.name_constraints, Chain,
             subject_common_name_is_dns_name(input, Len(stack))) = "Ok"
  BY DEF IssuerCandidate, issuer_verdict, ??, Require
<1> HIDE DEF c
<1>5. c.subject = Chain[Len(Chain)].issuer
  BY <1>2, <1>4 DEF Top
<1>6. \A i \in 1..Len(Chain) : ~(c.spki = Chain[i].spki /\ c.subject = Chain[i].subject)
  BY <1>2, <1>4 DEF in_chain
<1>7. Chain' = [i \in 1..(Len(Chain) + 1) |-> IF i <= Len(Chain) THEN Chain[i] ELSE c]
  BY <1>1, <1>2 DEF Pushed
<1>8. ChainOK(input, Chain')
  <2>1. Len(Chain) > 0 /\ ChainOK(input, Chain)
    BY <1>2 DEF ChainInv
  <2> QED
    BY <1>2, <1>3, <1>4, <1>5, <1>6, <1>7, <2>1, ChainExtended
<1>9. ChainOK(input', Chain')
  BY <1>1, <1>8
<1> QED
  BY <1>9 DEF ChainOK, NoRepeats, Below, subject_common_name_is_dns_name

LEMMA NextChain == Typed /\ ChainInv /\ [Next]_vars => ChainInv'
<1> SUFFICES ASSUME Typed, ChainInv, [Next]_vars PROVE ChainInv'
  OBVIOUS
<1>1. /\ Chain \in Seq(CertsOf(input)) /\ Len(Chain) = Len(stack)
      /\ Len(stack) \in 1..Len(stack) /\ Len(stack) \in Nat \ {0}
      /\ \A i \in 1..Len(stack) : Chain[i] = stack[i].cert
  BY ChainOfStack, TopFrame DEF Typed, TypeOK
\* ChainInv with its operators' arguments primed.
<1> DEFINE Primed ==
      /\ ChainOK(input', Chain')
      /\ \A i \in 1..Len(stack') : stack'[i].sub_ca_count = SubCas(i)
      /\ \A i \in 1..(Len(stack') - 1) : PlaceOK(input', Chain'[i], i)
      /\ pc' \in Working => PlaceOK(input', Chain'[Len(stack')], Len(stack'))
      /\ pc' = "done" => Len(stack') = 1
<1>2. Primed => ChainInv'
  BY DEF ChainInv, ChainOK, PlaceOK, NoRepeats, Below, SubCas, Working,
         subject_common_name_is_dns_name
<1> SUFFICES Primed
  BY <1>2
<1>3. ASSUME UNCHANGED << input, stack >>,
             pc' \in Working => PlaceOK(input, Chain[Len(stack)], Len(stack)),
             pc' = "done" => Len(stack) = 1
      PROVE  Primed
  <2>1. Chain' = Chain
    BY <1>3 DEF Chain
  <2> QED
    BY <1>3, <2>1 DEF ChainInv
<1>4. CASE EnterSucceeds
  BY <1>3, <1>4, EnteredPlace DEF EnterSucceeds
<1>5. CASE TopChanged /\ input' = input /\ pc \in Working /\ pc' \in Working
  <2>1. Len(stack') = Len(stack) /\ Chain' = Chain
    BY <1>5 DEF TopChanged, SameChain
  <2>2. \A i \in 1..Len(stack') : stack'[i].sub_ca_count = SubCas(i)
    BY <1>5, <2>1 DEF TopChanged, SameChain, ChainInv
  <2> QED
    BY <1>5, <2>1, <2>2 DEF ChainInv, Working
<1>6. CASE AnchorRejected \/ SignatureFails \/ IssuerRejected \/ BudgetExhausted
  <2>1. TopChanged
    BY <1>6, LoopSteps, BudgetStep
  <2> QED
    BY <1>5, <1>6, <2>1
       DEF AnchorRejected, SignatureFails, IssuerRejected, BudgetExhausted, Working
<1>7. CASE AnchorCandidate \/ AnchorsExhausted
  BY <1>3, <1>7 DEF AnchorCandidate, AnchorsExhausted, ChainInv, Working
<1>8. CASE SignatureValid
  BY <1>3, <1>8 DEF SignatureValid, ChainInv, Working
<1>9. CASE IssuerCandidate
  <2>1. ChainOK(input', Chain')
    BY <1>9, CandidateExtends DEF ChainOK, NoRepeats, Below, subject_common_name_is_dns_name
  <2>2. PICK c : Pushed(c)
    BY <1>9, CallStep
  <2>3. /\ pc = "intermediates" /\ pc' = "enter" /\ input' = input
        /\ Len(stack') = Len(stack) + 1
        /\ \A i \in 1..Len(stack) : stack'[i] = stack[i] /\ Chain'[i] = Chain[i]
        /\ stack'[Len(stack) + 1].sub_ca_count = next_sub_ca_count
    BY <1>1, <1>9, <2>2 DEF IssuerCandidate, Pushed, NewFrame, Top
  <2>4. next_sub_ca_count = SubCas(Len(stack) + 1)
    BY <1>1 DEF next_sub_ca_count, SubCas, used_as_ca, ChainInv, Top
  <2>5. \A i \in 1..(Len(stack) + 1) : i \in 1..Len(stack) \/ i = Len(stack) + 1
    BY <1>1
  <2>6. \A i \in 1..Len(stack') : stack'[i].sub_ca_count = SubCas(i)
    BY <2>3, <2>4, <2>5 DEF ChainInv
  <2>7. \A i \in 1..(Len(stack') - 1) : PlaceOK(input, Chain[i], i) /\ Chain'[i] = Chain[i]
    <3>1. \A i \in 1..(Len(stack') - 1) : i \in 1..(Len(stack) - 1) \/ i = Len(stack)
      BY <1>1, <2>3
    <3> QED
      BY <1>1, <2>3, <3>1 DEF ChainInv, Working
  <2> QED
    BY <2>1, <2>3, <2>6, <2>7 DEF Working
<1>10. CASE ReturnThrough \/ ReturnError
  <2>1. /\ Popped /\ Len(stack) > 1 /\ input' = input
        /\ pc' \in {"return", "intermediates"}
    BY <1>10, ReturnSteps DEF ReturnThrough, ReturnError
  <2>2. ChainOK(input', Chain')
    <3>1. Chain' = [i \in 1..(Len(Chain) - 1) |-> Chain[i]] /\ Len(Chain) > 1
      BY <1>1, <2>1 DEF Popped
    <3> QED
      BY <1>1, <2>1, <3>1, ChainPrefix DEF ChainInv
  <2>3. \A i \in 1..(Len(stack) - 1) : Chain'[i] = Chain[i] /\ PlaceOK(input, Chain[i], i)
    BY <2>1 DEF Popped, ChainInv
  <2>4. \A i \in 1..Len(stack') : stack'[i].sub_ca_count = SubCas(i)
    BY <1>1, <2>1 DEF Popped, ChainInv
  <2>5. Len(stack') = Len(stack) - 1 /\ Len(stack) - 1 \in 1..(Len(stack) - 1)
    BY <1>1, <2>1 DEF Popped
  <2>6. \A i \in 1..(Len(stack') - 1) : i \in 1..(Len(stack) - 1)
    BY <1>1, <2>5
  <2>7. PlaceOK(input', Chain'[Len(stack')], Len(stack')) /\ pc' # "done"
    BY <2>1, <2>3, <2>5
  <2>8. \A i \in 1..(Len(stack') - 1) : PlaceOK(input', Chain'[i], i)
    BY <2>1, <2>3, <2>6
  <2> QED
    BY <2>2, <2>4, <2>7, <2>8
<1>11. CASE EnterFails \/ IssuersExhausted \/ ReturnResult
  BY <1>3, <1>11 DEF EnterFails, IssuersExhausted, ReturnResult, Working
<1>12. CASE Done \/ UNCHANGED vars
  BY <1>3, <1>12 DEF Done, vars, ChainInv
<1> QED
  BY <1>4, <1>6, <1>7, <1>8, <1>9, <1>10, <1>11, <1>12 DEF Next

-----------------------------------------------------------------------------
(* The walk over the signatures, and the accepted path.                    *)

\* The anchor at k fits the path, and the walk has verified all above position w.
WalkOK(in, path, k, w) ==
    /\ in.trust_anchors[k].subject = path[Len(path)].issuer
    /\ check_name_constraints(in.trust_anchors[k].name_constraints, path,
           subject_common_name_is_dns_name(in, Len(path))) = "Ok"
    /\ \A j \in (w + 1)..Len(path) :
           signature_verdict(in, path, in.trust_anchors[k], j) = "Ok"

AcceptedOK(in, a) ==
    /\ a.anchor \in 1..Len(in.trust_anchors)
    /\ a.path \in Seq(CertsOf(in))
    /\ ValidPath(in, a.path, in.trust_anchors[a.anchor])

SearchInv ==
    /\ pc = "signatures" => WalkOK(input, Chain, Top.anchor, walk)
    /\ IsSome(accepted) => AcceptedOK(input, The(accepted))
    /\ pc \in {"return", "done"} /\ ret = "Ok" =>
           IsSome(accepted) /\ signatures <= MAX_SIGNATURES

LEMMA InitSearch == Init => SearchInv
  BY DEF Init, SearchInv, IsSome, None

\* A complete walk over the chain makes it a valid path.
LEMMA WalkedChainIsValid ==
    ASSUME Typed, ChainInv, pc = "signatures", WalkOK(input, Chain, Top.anchor, 0)
    PROVE  ValidPath(input, Chain, input.trust_anchors[Top.anchor])
<1> DEFINE anchor == input.trust_anchors[Top.anchor]
<1>1. /\ Chain \in Seq(CertsOf(input)) /\ Len(Chain) = Len(stack)
      /\ Len(stack) \in 1..Len(stack) /\ Len(stack) \in Nat \ {0}
  BY ChainOfStack, TopFrame DEF Typed, TypeOK
<1>2. Chain # << >>
  BY <1>1
<1>3. ChainOK(input, Chain)
  BY DEF ChainInv
<1>4. \A i \in 1..Len(Chain) : PlaceOK(input, Chain[i], i)
  <2>1. \A i \in 1..Len(Chain) : i \in 1..(Len(stack) - 1) \/ i = Len(stack)
    BY <1>1
  <2> QED
    BY <2>1 DEF ChainInv, Working
<1>5. PlacesValid(input, Chain)
  BY <1>4 DEF PlacesValid, PlaceOK
<1>6. SignaturesValid(input, Chain, anchor)
  <2>1. \A i \in 1..Len(Chain) : i \in (0 + 1)..Len(Chain)
    BY <1>1
  <2> QED
    BY <2>1 DEF SignaturesValid, WalkOK
<1>7. Linked(Chain, anchor)
  BY <1>3 DEF Linked, ChainOK, WalkOK
<1>8. NamesAllowed(input, Chain, anchor)
  BY <1>3 DEF NamesAllowed, ChainOK, WalkOK
<1>9. Chain[1] = input.cert /\ NoRepeats(Chain)
  BY <1>3 DEF ChainOK
<1> QED
  BY <1>2, <1>5, <1>6, <1>7, <1>8, <1>9 DEF ValidPath

LEMMA WalkAdvances ==
    ASSUME Typed, SearchInv, pc = "signatures", walk_verdict = "Ok"
    PROVE  WalkOK(input, Chain, Top.anchor, walk - 1) /\ signatures < MAX_SIGNATURES
<1>1. /\ walk \in 1..Len(Chain) /\ Len(Chain) \in Nat
      /\ WalkOK(input, Chain, Top.anchor, walk)
  BY ChainOfStack DEF Typed, TypeOK, WalkInBounds, SearchInv
<1>2. signatures < MAX_SIGNATURES
  BY DEF walk_verdict, ??, Require, within_budget, Fatal
<1>3. signature_verdict(input, Chain, input.trust_anchors[Top.anchor], walk) = "Ok"
  BY <1>2 DEF walk_verdict, ??, Require, within_budget
<1>4. \A j \in ((walk - 1) + 1)..Len(Chain) : j = walk \/ j \in (walk + 1)..Len(Chain)
  BY <1>1
<1> QED
  BY <1>1, <1>2, <1>3, <1>4 DEF WalkOK

LEMMA NextSearch == Typed /\ ChainInv /\ SearchInv /\ [Next]_vars => SearchInv'
<1> SUFFICES ASSUME Typed, ChainInv, SearchInv, [Next]_vars PROVE SearchInv'
  OBVIOUS
<1> DEFINE Primed ==
      /\ pc' = "signatures" => WalkOK(input', Chain', Top'.anchor, walk')
      /\ IsSome(accepted') => AcceptedOK(input', The(accepted'))
      /\ pc' \in {"return", "done"} /\ ret' = "Ok" =>
             IsSome(accepted') /\ signatures' <= MAX_SIGNATURES
<1>1. Primed => SearchInv'
  BY DEF SearchInv, WalkOK, AcceptedOK, IsSome, The, signature_verdict,
         issuer_spki, issuer_key_usage, used_as_ca, subject_common_name_is_dns_name,
         ValidPath, Linked, NoRepeats, PlacesValid, NamesAllowed, SignaturesValid,
         Below, SubCas, CertsOf
<1> SUFFICES Primed
  BY <1>1
<1>2. ASSUME pc' # "signatures", UNCHANGED << input, accepted >>,
             pc' \in {"return", "done"} =>
                 \/ ret' # "Ok"
                 \/ pc = "return" /\ UNCHANGED << ret, signatures >>
      PROVE  Primed
  BY <1>2 DEF SearchInv
<1>3. CASE EnterFails
  BY <1>2, <1>3 DEF EnterFails
<1>4. CASE EnterSucceeds \/ AnchorsExhausted \/ IssuerCandidate \/ ReturnError
  BY <1>2, <1>4 DEF EnterSucceeds, AnchorsExhausted, IssuerCandidate, ReturnError
<1>5. CASE AnchorRejected \/ SignatureFails \/ BudgetExhausted \/ IssuerRejected
  BY <1>2, <1>5 DEF AnchorRejected, SignatureFails, BudgetExhausted, IssuerRejected
<1>6. CASE AnchorCandidate
  <2> DEFINE anchor == input.trust_anchors[Top.anchor]
  <2>1. Len(Chain) = Len(stack) /\ Len(stack) \in Nat \ {0} /\ Len(stack) \in 1..Len(stack)
        /\ Chain[Len(stack)] = Top.cert
    BY ChainOfStack, TopFrame DEF Typed, TypeOK, Top
  <2>2. anchor_verdict(anchor) = "Ok"
    BY <1>6 DEF AnchorCandidate
  <2>3. Top.cert.issuer = anchor.subject
    BY <2>2 DEF anchor_verdict, ??, Require
  <2>4. check_name_constraints(anchor.name_constraints, Chain,
            subject_common_name_is_dns_name(input, Len(stack))) = "Ok"
    BY <2>2, <2>3 DEF anchor_verdict, ??, Require
  <2>5. \A j \in (Len(stack) + 1)..Len(Chain) : FALSE
    BY <2>1
  <2>6. WalkOK(input, Chain, Top.anchor, Len(stack))
    BY <2>1, <2>3, <2>4, <2>5 DEF WalkOK
  <2>7. /\ UNCHANGED << input, accepted, stack >> /\ pc' = "signatures"
        /\ walk' = Len(stack) /\ Chain' = Chain /\ Top' = Top
    BY <1>6 DEF AnchorCandidate, Chain, Top
  <2> QED
    BY <2>6, <2>7 DEF SearchInv
<1>7. CASE SignatureValid
  <2>1. /\ WalkOK(input, Chain, Top.anchor, walk - 1) /\ signatures < MAX_SIGNATURES
        /\ walk \in 1..Len(stack) /\ Top.anchor \in 1..Len(input.trust_anchors)
    BY <1>7, WalkAdvances DEF SignatureValid, Typed, WalkInBounds
  <2>2. /\ UNCHANGED << input, stack >> /\ signatures' = signatures + 1
        /\ walk' = walk - 1 /\ pc = "signatures" /\ Chain' = Chain /\ Top' = Top
    BY <1>7 DEF SignatureValid, Chain, Top
  <2>3. CASE ~at_end_entity
    BY <1>7, <2>1, <2>2, <2>3 DEF SignatureValid, SearchInv
  <2>4. CASE at_end_entity
    <3>1. ValidPath(input, Chain, input.trust_anchors[Top.anchor])
      BY <2>1, <2>2, <2>4, WalkedChainIsValid DEF at_end_entity
    <3>2. /\ accepted' = << [path |-> Chain, anchor |-> Top.anchor] >>
          /\ pc' = "return"
      BY <1>7, <2>4 DEF SignatureValid, Some
    <3>3. Chain \in Seq(CertsOf(input))
      BY ChainOfStack DEF Typed, TypeOK
    <3>4. AcceptedOK(input, [path |-> Chain, anchor |-> Top.anchor])
      BY <2>1, <3>1, <3>3 DEF AcceptedOK
    <3>5. IsSome(accepted') /\ The(accepted') = [path |-> Chain, anchor |-> Top.anchor]
      BY <3>2 DEF IsSome, The
    <3>6. signatures' <= MAX_SIGNATURES
      BY <2>1, <2>2, BoundsAssumption DEF Typed, TypeOK
    <3> QED
      BY <2>2, <3>2, <3>4, <3>5, <3>6
  <2> QED
    BY <2>3, <2>4
<1>8. CASE IssuersExhausted
  <2>1. Top.error # "Ok"
    BY TopFrame, OkIsNoError DEF Typed, TypeOK, Frame
  <2> QED
    BY <1>2, <1>8, <2>1 DEF IssuersExhausted
<1>9. CASE ReturnThrough \/ ReturnResult
  BY <1>2, <1>9 DEF ReturnThrough, ReturnResult
<1>10. CASE Done \/ UNCHANGED vars
  <2>1. UNCHANGED vars /\ Chain' = Chain /\ Top' = Top
    BY <1>10 DEF Done, vars, Chain, Top
  <2> QED
    BY <2>1 DEF vars, SearchInv
<1> QED
  BY <1>3, <1>4, <1>5, <1>6, <1>7, <1>8, <1>9, <1>10 DEF Next

-----------------------------------------------------------------------------
IInv == Typed /\ ChainInv /\ SearchInv

LEMMA Invariance == Spec => []IInv
<1>1. Init => IInv
  BY InitTyped, InitChain, InitSearch DEF IInv
<1>2. IInv /\ [Next]_vars => IInv'
  BY NextTyped, NextChain, NextSearch DEF IInv
<1> QED
  BY <1>1, <1>2, PTL DEF Spec

\* Soundness of build_chain: an Ok result is justified by a path of the caller's
\* certificates up to one of the caller's anchors on which every check holds.
THEOREM SoundnessTheorem == Spec => []Soundness
<1>1. IInv => Soundness
  BY DEF IInv, SearchInv, AcceptedOK, Soundness
<1> QED
  BY <1>1, Invariance, PTL

\* The comparison of build_chain_inner with every certificate below prevents
\* loops: the chain being tried never has a subject and key twice.
THEOREM NoRepeatedIssuerTheorem == Spec => []NoRepeatedIssuer
<1>1. IInv => NoRepeatedIssuer
  BY DEF IInv, ChainInv, ChainOK, NoRepeatedIssuer
<1> QED
  BY <1>1, Invariance, PTL

\* The two assertions of verify_cert.rs, on sub_ca_count in build_chain_inner and
\* on the issuer name in check_crls, hold whenever they are reached.
THEOREM AssertionsTheorem == Spec => []AssertionsHold
<1>1. ASSUME IInv PROVE AssertionsHold
  <2>1. /\ Len(Chain) = Len(stack) /\ Len(stack) \in Nat \ {0}
        /\ \A i \in 1..Len(stack) : Chain[i] = stack[i].cert
    BY <1>1, ChainOfStack, TopFrame DEF IInv, Typed, TypeOK
  <2>2. stack[1].sub_ca_count = 0
    BY <1>1, <2>1 DEF IInv, ChainInv, SubCas
  <2>3. ASSUME pc = "signatures"
        PROVE  /\ walk \in 1..Len(stack)
               /\ walk = Len(stack) =>
                      stack[walk].cert.issuer = input.trust_anchors[Top.anchor].subject
               /\ walk # Len(stack) =>
                      stack[walk].cert.issuer = stack[walk + 1].cert.subject
    <3>1. walk \in 1..Len(stack) /\ WalkOK(input, Chain, Top.anchor, walk)
      BY <1>1, <2>3 DEF IInv, Typed, WalkInBounds, SearchInv
    <3>2. Chain[Len(Chain)].issuer = input.trust_anchors[Top.anchor].subject
      BY <3>1 DEF WalkOK
    <3>3. walk # Len(stack) => walk + 1 \in 2..Len(stack) /\ (walk + 1) - 1 = walk
      BY <2>1, <3>1
    <3>4. \A i \in 2..Len(Chain) : Chain[i].subject = Chain[i - 1].issuer
      BY <1>1 DEF IInv, ChainInv, ChainOK
    <3>5. walk # Len(stack) => Chain[walk + 1].subject = Chain[walk].issuer
      BY <2>1, <3>3, <3>4
    <3>6. walk # Len(stack) => walk + 1 \in 1..Len(stack)
      BY <2>1, <3>1
    <3> QED
      BY <2>1, <3>1, <3>2, <3>5, <3>6
  <2> QED
    BY <2>2, <2>3 DEF AssertionsHold
<1> QED
  BY <1>1, Invariance, PTL

\* The recursion of build_chain_inner is at most MAX_SUB_CA_COUNT + 2 deep.
THEOREM RecursionTheorem == Spec => []RecursionBounded
<1>1. ASSUME IInv PROVE RecursionBounded
  <2>1. Len(stack) \in Nat \ {0} /\ MAX_SUB_CA_COUNT \in Nat
    BY <1>1, TopFrame, BoundsAssumption DEF IInv, Typed, TypeOK
  <2>2. Len(stack) <= MAX_SUB_CA_COUNT + 2
    <3>1. CASE Len(stack) <= 2
      BY <2>1, <3>1
    <3>2. CASE Len(stack) > 2
      <4>1. Len(stack) - 1 \in 1..(Len(stack) - 1) /\ Len(stack) - 1 > 1
        BY <2>1, <3>2
      <4>2. SubCas(Len(stack) - 1) < MAX_SUB_CA_COUNT
        BY <1>1, <4>1 DEF IInv, ChainInv, PlaceOK
      <4> QED
        BY <2>1, <3>2, <4>2 DEF SubCas
    <3> QED
      BY <2>1, <3>1, <3>2
  <2>3. ASSUME Len(stack) = MAX_SUB_CA_COUNT + 2 PROVE pc \in {"enter", "return"}
    <3>1. pc \notin Working
      <4>1. Len(stack) > 1 /\ ~(SubCas(Len(stack)) < MAX_SUB_CA_COUNT)
        BY <2>1, <2>3 DEF SubCas
      <4> QED
        BY <1>1, <4>1 DEF IInv, ChainInv, PlaceOK
    <3>2. pc # "done"
      BY <1>1, <2>1, <2>3 DEF IInv, ChainInv
    <3> QED
      BY <1>1, <3>1, <3>2 DEF IInv, Typed, TypeOK, Working
  <2> QED
    BY <2>2, <2>3 DEF RecursionBounded
<1> QED
  BY <1>1, Invariance, PTL

\* check_signatures counts before it verifies, so build_chain never answers Ok
\* beyond its budget of signatures.
THEOREM BudgetTheorem == Spec => []OkWithinBudget
<1>1. IInv => OkWithinBudget
  BY DEF IInv, SearchInv, OkWithinBudget
<1> QED
  BY <1>1, Invariance, PTL

-----------------------------------------------------------------------------
(* The error that build_chain reports is the most specific one of the      *)
(* whole search.  It is assembled in pieces: each active call of           *)
(* build_chain_inner holds the best error of its own loops and of the      *)
(* calls it has finished, and hands it to its caller.  The invariant says  *)
(* that no error is lost on the way: every error met is outranked by that  *)
(* of an active call, or by the one being returned.                        *)

\* One of the n lowest calls on the stack has an error that outranks e.
Outranked(e, n) == \E i \in 1..n : rank[e] <= rank[stack[i].error]

Returning == pc \in {"return", "done"}

Reportable == met \cup {"UnknownIssuer"}

ErrorInv ==
    Fatal \notin met =>
        /\ \A i \in 1..Len(stack) : stack[i].error \in Reportable
        /\ pc = "enter" => Top.error = "UnknownIssuer"
        /\ ~Returning => \A e \in met : Outranked(e, Len(stack))
        /\ Returning /\ ret # "Ok" =>
               /\ ret \in Reportable
               /\ \A e \in met : rank[e] <= rank[ret] \/ Outranked(e, Len(stack) - 1)

LEMMA InitErrors == Init => ErrorInv
<1> SUFFICES ASSUME Init PROVE ErrorInv
  OBVIOUS
<1>1. Len(stack) = 1 /\ stack[1].error = "UnknownIssuer" /\ pc = "enter" /\ met = {}
  BY DEF Init, NewFrame
<1> QED
  BY <1>1 DEF ErrorInv, Reportable, Returning, Top

LEMMA UnknownIssuerLowest == \A e \in Error : rank["UnknownIssuer"] <= rank[e]
<1>1. rank["UnknownIssuer"] = 0
  BY DEF rank
<1> QED
  BY <1>1, RankIsNat

LEMMA NextErrors == Typed /\ ErrorInv /\ [Next]_vars => ErrorInv'
<1> SUFFICES ASSUME Typed, ErrorInv, [Next]_vars, Fatal \notin met'
             PROVE  /\ \A i \in 1..Len(stack') : stack'[i].error \in Reportable'
                    /\ pc' = "enter" => Top'.error = "UnknownIssuer"
                    /\ ~Returning' => \A e \in met' : Outranked(e, Len(stack))'
                    /\ Returning' /\ ret' # "Ok" =>
                           /\ ret' \in Reportable'
                           /\ \A e \in met' : \/ rank[e] <= rank[ret']
                                              \/ Outranked(e, Len(stack) - 1)'
  BY DEF ErrorInv
<1>1. /\ Len(stack) \in Nat \ {0} /\ Len(stack) \in 1..Len(stack)
      /\ \A i \in 1..Len(stack) : stack[i].error \in Error /\ rank[stack[i].error] \in Nat
      /\ met \subseteq Error /\ \A e \in met : rank[e] \in Nat
      /\ Top = stack[Len(stack)] /\ Top.error \in Error
  <2>1. Len(stack) \in Nat \ {0} /\ Len(stack) \in 1..Len(stack) /\ met \subseteq Error
    BY TopFrame DEF Typed, TypeOK
  <2>2. \A i \in 1..Len(stack) : stack[i] \in Frame(input)
    BY DEF Typed, TypeOK
  <2>3. \A i \in 1..Len(stack) : stack[i].error \in Error
    BY <2>2 DEF Frame
  <2> QED
    BY <2>1, <2>3, RankIsNat DEF Top
<1>2. met \subseteq met' /\ Fatal \notin met
  BY DEF Next, vars, EnterFails, EnterSucceeds, AnchorRejected, AnchorCandidate,
         AnchorsExhausted, SignatureValid, SignatureFails, BudgetExhausted, IssuerRejected,
         IssuerCandidate, IssuersExhausted, ReturnThrough, ReturnError, ReturnResult, Done
<1>3. /\ \A i \in 1..Len(stack) : stack[i].error \in Reportable
      /\ pc = "enter" => Top.error = "UnknownIssuer"
      /\ ~Returning => \A e \in met : Outranked(e, Len(stack))
      /\ Returning /\ ret # "Ok" =>
             /\ ret \in Reportable
             /\ \A e \in met : rank[e] <= rank[ret] \/ Outranked(e, Len(stack) - 1)
  BY <1>2 DEF ErrorInv
\* An error of the topmost call or of one below.
<1>4. \A e \in met : Outranked(e, Len(stack)) =>
          rank[e] <= rank[Top.error] \/ Outranked(e, Len(stack) - 1)
  <2>1. \A i \in 1..Len(stack) : i = Len(stack) \/ i \in 1..(Len(stack) - 1)
    BY <1>1
  <2> QED
    BY <1>1, <2>1 DEF Outranked
<1>5. CASE EnterFails
  <2>1. /\ enter_verdict \in Error /\ stack' = stack /\ pc' = "return" /\ pc = "enter"
        /\ ret' = enter_verdict /\ met' = met \cup {enter_verdict}
    BY <1>5, EnterVerdictResult, ErrorIsResult DEF EnterFails
  <2>2. rank[enter_verdict] \in Nat /\ rank["UnknownIssuer"] <= rank[enter_verdict]
        /\ rank["UnknownIssuer"] \in Nat
    BY <2>1, RankIsNat, UnknownIssuerLowest, OkIsNoError
  <2>3. \A e \in met : rank[e] <= rank[ret'] \/ Outranked(e, Len(stack) - 1)
    BY <1>1, <1>3, <1>4, <2>1, <2>2 DEF Returning
  <2>4. \A e \in met' : rank[e] <= rank[ret'] \/ Outranked(e, Len(stack) - 1)
    BY <2>1, <2>2, <2>3
  <2> QED
    BY <1>3, <2>1, <2>4 DEF Reportable, Returning, Outranked
<1>6. CASE UNCHANGED << stack, met >> /\ ~Returning /\ ~Returning' /\ pc' # "enter"
  BY <1>3, <1>6 DEF Reportable, Outranked
<1>7. CASE EnterSucceeds \/ AnchorCandidate \/ AnchorsExhausted
  BY <1>6, <1>7 DEF EnterSucceeds, AnchorCandidate, AnchorsExhausted, Returning
<1>8. CASE AnchorRejected \/ SignatureFails \/ IssuerRejected
  <2>1. TopChanged /\ ~Returning /\ ~Returning' /\ pc' # "enter"
    BY <1>8, LoopSteps DEF AnchorRejected, SignatureFails, IssuerRejected, Returning
  <2>2. PICK v \in Error : /\ met' = met \cup {v}
                           /\ Top'.error = most_specific(Top.error, v)
    BY <1>8, LoopSteps DEF Merged
  <2>3. /\ Top'.error \in {Top.error, v}
        /\ rank[Top.error] <= rank[Top'.error] /\ rank[v] <= rank[Top'.error]
        /\ rank[Top'.error] \in Nat
    BY <1>1, <2>2, MostSpecificChooses, RankIsNat
  <2>4. /\ Len(stack') = Len(stack) /\ stack'[Len(stack)].error = Top'.error
        /\ \A i \in 1..(Len(stack) - 1) : stack'[i] = stack[i]
    BY <2>1 DEF TopChanged, SameChain, Top
  <2>5. \A i \in 1..Len(stack') : stack'[i].error \in Reportable'
    <3>1. \A i \in 1..Len(stack) : i = Len(stack) \/ i \in 1..(Len(stack) - 1)
      BY <1>1
    <3>2. Top.error \in Reportable
      BY <1>1, <1>3
    <3> QED
      BY <1>3, <2>2, <2>3, <2>4, <3>1, <3>2 DEF Reportable
  <2>6. \A e \in met' : rank[e] <= rank[stack'[Len(stack)].error] \/ Outranked(e, Len(stack) - 1)
    BY <1>1, <1>3, <1>4, <2>1, <2>2, <2>3, <2>4
  <2>7. \A e \in met' : \E i \in 1..Len(stack') : rank[e] <= rank[stack'[i].error]
    <3>1. \A i \in 1..(Len(stack) - 1) : i \in 1..Len(stack')
      BY <1>1, <2>4
    <3> QED
      BY <1>1, <2>4, <2>6, <3>1 DEF Outranked
  <2> QED
    BY <2>1, <2>5, <2>7 DEF Outranked
<1>9. CASE BudgetExhausted
  BY <1>9 DEF BudgetExhausted
<1>10. CASE SignatureValid
  <2>1. UNCHANGED << stack, met >> /\ ~Returning /\ pc' # "enter"
    BY <1>10 DEF SignatureValid, Returning
  <2>2. CASE ~at_end_entity
    BY <1>6, <1>10, <2>1, <2>2 DEF SignatureValid, Returning
  <2>3. CASE at_end_entity
    BY <1>3, <1>10, <2>1, <2>3 DEF SignatureValid, Returning, Reportable
  <2> QED
    BY <2>2, <2>3
<1>11. CASE IssuerCandidate
  <2>1. PICK c : Pushed(c)
    BY <1>11, CallStep
  <2>2. /\ Len(stack') = Len(stack) + 1 /\ Top'.error = "UnknownIssuer"
        /\ stack'[Len(stack) + 1].error = "UnknownIssuer"
        /\ \A i \in 1..Len(stack) : stack'[i] = stack[i]
        /\ met' = met /\ ~Returning /\ ~Returning'
    BY <1>11, <2>1 DEF Pushed, IssuerCandidate, NewFrame, Returning, Top
  <2>3. \A i \in 1..Len(stack') : i \in 1..Len(stack) \/ i = Len(stack) + 1
    BY <1>1, <2>2
  <2>4. \A i \in 1..Len(stack) : i \in 1..Len(stack')
    BY <1>1, <2>2
  <2>5. \A i \in 1..Len(stack') : stack'[i].error \in Reportable'
    BY <1>3, <2>2, <2>3 DEF Reportable
  <2>6. \A e \in met' : \E i \in 1..Len(stack') : rank[e] <= rank[stack'[i].error]
    BY <1>3, <2>2, <2>4 DEF Outranked
  <2> QED
    BY <2>2, <2>5, <2>6 DEF Outranked
<1>12. CASE IssuersExhausted
  <2>1. UNCHANGED << stack, met >> /\ ~Returning /\ pc' = "return" /\ ret' = Top.error
    BY <1>12 DEF IssuersExhausted, Returning
  <2>2. ret' \in Reportable
    BY <1>1, <1>3, <2>1
  <2>3. \A e \in met : rank[e] <= rank[ret'] \/ Outranked(e, Len(stack) - 1)
    BY <1>3, <1>4, <2>1
  <2> QED
    BY <1>3, <2>1, <2>2, <2>3 DEF Reportable, Outranked
<1>13. CASE ReturnThrough \/ ReturnError
  <2> DEFINE n == Len(stack) - 1
  <2>1. /\ Popped /\ Returning /\ met' = met /\ ret' = ret
        /\ n \in Nat \ {0} /\ n \in 1..n /\ n \in 1..Len(stack)
    BY <1>1, <1>13, ReturnSteps DEF ReturnThrough, ReturnError, Returning
  <2>2. /\ Len(stack') = n /\ Top' = stack'[n]
        /\ \A i \in 1..(n - 1) : stack'[i] = stack[i]
    BY <1>1, <2>1 DEF Popped, Top
  <2>3. \A i \in 1..n : (i = n \/ i \in 1..(n - 1)) /\ i \in 1..Len(stack)
    BY <1>1, <2>1
  <2> HIDE DEF n
  <2>4. CASE ReturnThrough
    <3>1. ret = "Ok"
      BY <1>2, <1>3, <2>1, <2>4 DEF ReturnThrough, Reportable, Fatal
    <3>2. stack'[n].error = stack[n].error
      BY <2>2, <2>4, ReturnSteps DEF n
    <3>3. \A i \in 1..Len(stack') : stack'[i].error \in Reportable'
      BY <1>3, <2>1, <2>2, <2>3, <3>2 DEF Reportable
    <3>4. pc' = "return"
      BY <2>4 DEF ReturnThrough
    <3> QED
      BY <2>1, <3>1, <3>3, <3>4 DEF Returning
  <2>5. CASE ReturnError
    <3>1. ret \in Error /\ pc' = "intermediates"
      BY <2>5, ErrorIsResult DEF ReturnError, Typed, TypeOK
    <3>2. stack'[n].error = most_specific(stack[n].error, ret)
      BY <2>2, <2>5, ReturnSteps DEF n
    <3>3. /\ stack'[n].error \in {stack[n].error, ret}
          /\ rank[stack[n].error] <= rank[stack'[n].error]
          /\ rank[ret] <= rank[stack'[n].error]
          /\ rank[stack'[n].error] \in Nat /\ rank[ret] \in Nat
      BY <1>1, <2>1, <3>1, <3>2, MostSpecificChooses, RankIsNat
    <3>4. ret # "Ok" /\ ret \in Reportable
      BY <1>3, <2>1, <3>1, OkIsNoError
    <3>5. \A i \in 1..Len(stack') : stack'[i].error \in Reportable'
      BY <1>3, <2>1, <2>2, <2>3, <3>3, <3>4 DEF Reportable
    <3>6. ASSUME NEW e \in met
          PROVE  \E i \in 1..n : rank[e] <= rank[stack'[i].error]
      <4>1. CASE rank[e] <= rank[ret]
        BY <1>1, <2>1, <3>3, <4>1
      <4>2. CASE Outranked(e, n)
        <5>1. PICK i \in 1..n : rank[e] <= rank[stack[i].error]
          BY <4>2 DEF Outranked
        <5>2. CASE i = n
          BY <1>1, <2>1, <3>3, <5>1, <5>2
        <5>3. CASE i \in 1..(n - 1)
          BY <2>2, <5>1, <5>3
        <5> QED
          BY <2>3, <5>2, <5>3
      <4> QED
        BY <1>3, <2>1, <3>4, <4>1, <4>2 DEF n
    <3> QED
      BY <2>1, <2>2, <3>1, <3>5, <3>6 DEF Returning, Outranked
  <2> QED
    BY <1>13, <2>4, <2>5
<1>14. CASE ReturnResult
  BY <1>3, <1>14 DEF ReturnResult, Returning, Reportable, Outranked
<1>15. CASE Done \/ UNCHANGED vars
  <2>1. UNCHANGED vars
    BY <1>15 DEF Done
  <2> QED
    BY <1>3, <2>1 DEF vars, Returning, Reportable, Outranked, Top
<1> QED
  BY <1>5, <1>7, <1>8, <1>9, <1>10, <1>11, <1>12, <1>13, <1>14, <1>15 DEF Next

\* most_specific and the loops of build_chain_inner: unless the budget ran out,
\* the error that build_chain returns outranks every error met in the search.
THEOREM MostSpecificErrorTheorem == Spec => []MostSpecificError
<1>1. Init => ErrorInv
  BY InitErrors
<1>2. Typed /\ ErrorInv /\ [Next]_vars => ErrorInv'
  BY NextErrors
<1>3. ASSUME IInv, ErrorInv PROVE MostSpecificError
  <2>1. ASSUME pc = "done", NEW e \in met, Outranked(e, Len(stack) - 1) PROVE FALSE
    <3>1. PICK i \in 1..(Len(stack) - 1) : TRUE
      BY <2>1 DEF Outranked
    <3>2. Len(stack) = 1
      BY <1>3, <2>1 DEF IInv, ChainInv
    <3> QED
      BY <3>1, <3>2
  <2> QED
    BY <1>3, <2>1 DEF ErrorInv, Returning, Reportable, MostSpecificError
<1> QED
  BY <1>1, <1>2, <1>3, AlwaysTyped, Invariance, PTL DEF Spec

-----------------------------------------------------------------------------
(* Completeness: no valid path exists if an error was returned within      *)
(* the signature budget.                                                   *)
(*                                                                         *)
(* The invariant says what the search has ruled out.  A call of            *)
(* build_chain_inner stands for all the paths that begin with the chain    *)
(* down from its certificate.  Its loop counters split those paths into    *)
(* the ones that end at an anchor already tried, the ones that go on with  *)
(* an intermediate already tried, and the rest; none of the former two is  *)
(* valid.  When a call returns an error there is no rest, and its caller   *)
(* may count the intermediate as tried.                                    *)

\* All valid paths that the caller's certificates can make.
ValidPaths(in) ==
    {path \in Seq(CertsOf(in)) :
        \E k \in 1..Len(in.trust_anchors) : ValidPath(in, path, in.trust_anchors[k])}

\* The path begins with the first n certificates of the chain.
Begins(path, chain, n) == n <= Len(path) /\ \A i \in 1..n : path[i] = chain[i]

\* No valid path begins so.
RuledOut(in, chain, n) == \A path \in ValidPaths(in) : ~Begins(path, chain, n)

\* None of the anchors before k makes the chain a valid path.
AnchorsTried(in, chain, k) ==
    \A j \in 1..(k - 1) : ~ValidPath(in, chain, in.trust_anchors[j])

\* A valid path that begins so does not end there, and does not go on with any of
\* the intermediates before k.
IssuersTried(in, chain, n, k) ==
    \A path \in ValidPaths(in) :
        Begins(path, chain, n) =>
            /\ Len(path) > n
            /\ \A j \in 1..(k - 1) : in.intermediate_certs[j].result = "Ok" =>
                   path[n + 1] # in.intermediate_certs[j].value

\* The caller is trying the intermediate above it on the stack.
Trying(in, chain, n, k) ==
    /\ k \in 1..Len(in.intermediate_certs)
    /\ in.intermediate_certs[k].result = "Ok"
    /\ chain[n + 1] = in.intermediate_certs[k].value

ExploredInv ==
    signatures <= MAX_SIGNATURES =>
        /\ \A n \in 1..(Len(stack) - 1) :
               /\ IssuersTried(input, Chain, n, stack[n].issuer)
               /\ Trying(input, Chain, n, stack[n].issuer)
        /\ pc = "enter" => Top.anchor = 1
        /\ pc \in {"enter", "anchors", "signatures"} => Top.issuer = 1
        /\ pc \in {"anchors", "signatures"} => AnchorsTried(input, Chain, Top.anchor)
        /\ pc = "intermediates" => IssuersTried(input, Chain, Len(stack), Top.issuer)
        /\ Returning /\ ret # "Ok" => RuledOut(input, Chain, Len(stack))

\* The fatal error is met only when the budget is exceeded.
BudgetInv == Fatal \in met => signatures > MAX_SIGNATURES

-----------------------------------------------------------------------------
(* Valid paths and the verdicts.  What every valid path has, the checks     *)
(* that the search makes on the way to it find.                            *)

LEMMA ValidPathIsSeq ==
    ASSUME NEW in, NEW path \in ValidPaths(in)
    PROVE  /\ path \in Seq(CertsOf(in)) /\ Len(path) \in Nat \ {0}
           /\ path = [i \in 1..Len(path) |-> path[i]]
           /\ path[1] = in.cert /\ NoRepeats(path) /\ PlacesValid(in, path)
           /\ \A i \in 2..Len(path) : path[i].subject = path[i - 1].issuer
           /\ \A i \in 2..Len(path) :
                  check_name_constraints(path[i].name_constraints, Below(path, i),
                      subject_common_name_is_dns_name(in, i - 1)) = "Ok"
<1>1. path \in Seq(CertsOf(in))
  BY DEF ValidPaths
<1>2. PICK k \in 1..Len(in.trust_anchors) : ValidPath(in, path, in.trust_anchors[k])
  BY DEF ValidPaths
<1>3. path # << >> /\ path[1] = in.cert /\ NoRepeats(path) /\ PlacesValid(in, path)
  BY <1>2 DEF ValidPath
<1>4. /\ \A i \in 2..Len(path) : path[i].subject = path[i - 1].issuer
      /\ \A i \in 2..Len(path) :
             check_name_constraints(path[i].name_constraints, Below(path, i),
                 subject_common_name_is_dns_name(in, i - 1)) = "Ok"
  BY <1>2 DEF ValidPath, Linked, NamesAllowed
<1>5. Len(path) \in Nat \ {0} /\ path = [i \in 1..Len(path) |-> path[i]]
  BY <1>1, <1>3
<1> QED
  BY <1>1, <1>3, <1>4, <1>5

\* A path that ends where the chain does is the chain.
LEMMA WholeChain ==
    ASSUME Typed, NEW path \in ValidPaths(input),
           Begins(path, Chain, Len(stack)), ~(Len(path) > Len(stack))
    PROVE  path = Chain
<1>1. Len(stack) \in Nat \ {0} /\ Chain = [i \in 1..Len(stack) |-> Chain[i]]
  BY TopFrame DEF Typed, TypeOK, Chain
<1>2. Len(path) \in Nat \ {0} /\ path = [i \in 1..Len(path) |-> path[i]]
  BY ValidPathIsSeq
<1>3. Len(path) = Len(stack) /\ \A i \in 1..Len(stack) : path[i] = Chain[i]
  BY <1>1, <1>2 DEF Begins
<1> QED
  BY <1>1, <1>2, <1>3

\* A certificate that fails on entry is on no valid path in that place.
LEMMA EnterRulesOut ==
    ASSUME Typed, ChainInv, enter_verdict # "Ok"
    PROVE  RuledOut(input, Chain, Len(stack))
<1> SUFFICES ASSUME NEW path \in ValidPaths(input), Begins(path, Chain, Len(stack))
             PROVE  FALSE
  BY DEF RuledOut
<1> DEFINE n == Len(stack)
<1>1. n \in Nat \ {0} /\ n \in 1..n /\ Chain[n] = Top.cert
  BY TopFrame, ChainOfStack DEF Typed, TypeOK, Top
<1>2. Len(path) \in Nat /\ PlacesValid(input, path)
  BY ValidPathIsSeq
<1>3. n \in 1..Len(path) /\ path[n] = Top.cert
  BY <1>1, <1>2 DEF Begins
<1>4. Top.sub_ca_count = SubCas(n)
  BY <1>1 DEF ChainInv, Top
<1> HIDE DEF n
<1>5. /\ check_issuer_independent_properties(Top.cert, input.time, n > 1,
             Top.sub_ca_count, input.eku) = "Ok"
      /\ n > 1 => Top.sub_ca_count < MAX_SUB_CA_COUNT
  BY <1>2, <1>3, <1>4 DEF PlacesValid
<1> QED
  BY <1>5 DEF enter_verdict, ??, Require, sub_ca_count_allowed, used_as_ca, n

\* An anchor that is rejected, or for which a signature or a revocation check
\* fails, does not make the chain a valid path.
LEMMA AnchorFails ==
    ASSUME Typed, NEW k, ValidPath(input, Chain, input.trust_anchors[k])
    PROVE  /\ anchor_verdict(input.trust_anchors[k]) = "Ok"
           /\ \A i \in 1..Len(stack) :
                  signature_verdict(input, Chain, input.trust_anchors[k], i) = "Ok"
<1> DEFINE anchor == input.trust_anchors[k]
<1>1. Len(Chain) = Len(stack) /\ Chain[Len(stack)] = Top.cert
  BY TopFrame, ChainOfStack DEF Typed, TypeOK, Top
<1>2. anchor.subject = Top.cert.issuer
  BY <1>1 DEF ValidPath, Linked
<1>3. check_name_constraints(anchor.name_constraints, Chain,
          subject_common_name_is_dns_name(input, Len(stack))) = "Ok"
  BY <1>1 DEF ValidPath, NamesAllowed
<1>4. \A i \in 1..Len(stack) : signature_verdict(input, Chain, anchor, i) = "Ok"
  BY <1>1 DEF ValidPath, SignaturesValid
<1> QED
  BY <1>2, <1>3, <1>4 DEF anchor_verdict, ??, Require

\* An intermediate that is rejected is on no valid path above the chain.
LEMMA IssuerFails ==
    ASSUME Typed, NEW path \in ValidPaths(input), Begins(path, Chain, Len(stack)),
           Len(path) > Len(stack),
           NEW issuer, issuer.result = "Ok", path[Len(stack) + 1] = issuer.value
    PROVE  issuer_verdict(issuer) = "Ok"
<1> DEFINE n == Len(stack)
           c == issuer.value
<1>1. /\ n \in Nat \ {0} /\ n \in 1..n /\ Chain[n] = Top.cert
      /\ Chain = [i \in 1..n |-> Chain[i]]
      /\ \A i \in 1..n : Chain[i] = stack[i].cert
  BY TopFrame, ChainOfStack DEF Typed, TypeOK, Top, Chain
<1>2. /\ Len(path) \in Nat /\ NoRepeats(path)
      /\ \A i \in 2..Len(path) : path[i].subject = path[i - 1].issuer
      /\ \A i \in 2..Len(path) :
             check_name_constraints(path[i].name_constraints, Below(path, i),
                 subject_common_name_is_dns_name(input, i - 1)) = "Ok"
  BY ValidPathIsSeq
<1>3. n + 1 \in 2..Len(path) /\ (n + 1) - 1 = n /\ \A i \in 1..n : i \in 1..Len(path) /\ i # n + 1
  BY <1>1, <1>2
<1>4. \A i \in 1..n : path[i] = Chain[i]
  BY DEF Begins
<1>5. c.subject = Top.cert.issuer
  <2>1. path[n + 1].subject = path[(n + 1) - 1].issuer
    BY <1>2, <1>3
  <2> QED
    BY <1>1, <1>3, <1>4, <2>1
<1>6. Below(path, n + 1) = Chain
  BY <1>1, <1>3, <1>4 DEF Below
<1>7. check_name_constraints(c.name_constraints, Chain,
          subject_common_name_is_dns_name(input, n)) = "Ok"
  <2>1. check_name_constraints(path[n + 1].name_constraints, Below(path, n + 1),
            subject_common_name_is_dns_name(input, (n + 1) - 1)) = "Ok"
    BY <1>2, <1>3
  <2> QED
    BY <1>3, <1>6, <2>1
<1>8. ~in_chain(c)
  <2>1. ASSUME NEW i \in 1..n, c.spki = stack[i].cert.spki, c.subject = stack[i].cert.subject
        PROVE  FALSE
    <3>1. n + 1 \in 1..Len(path) /\ i \in 1..Len(path) /\ i # n + 1
      BY <1>2, <1>3
    <3>2. path[i] = stack[i].cert /\ path[n + 1] = c
      BY <1>1, <1>4
    <3> QED
      BY <1>2, <2>1, <3>1, <3>2 DEF NoRepeats
  <2> QED
    BY <2>1 DEF in_chain
<1> QED
  BY <1>5, <1>7, <1>8 DEF issuer_verdict, ??, Require

\* Above the end entity a valid path consists of intermediates.
LEMMA AboveIsIntermediate ==
    ASSUME NEW in, NEW path \in ValidPaths(in), NEW i \in 2..Len(path)
    PROVE  \E j \in 1..Len(in.intermediate_certs) :
               /\ in.intermediate_certs[j].result = "Ok"
               /\ path[i] = in.intermediate_certs[j].value
<1>1. /\ path \in Seq(CertsOf(in)) /\ Len(path) \in Nat
      /\ path[1] = in.cert /\ NoRepeats(path)
  BY ValidPathIsSeq
<1>2. i \in 1..Len(path) /\ 1 \in 1..Len(path) /\ i # 1
  BY <1>1
<1>3. path[i] \in CertsOf(in)
  BY <1>1, <1>2
<1>4. path[i] # in.cert
  BY <1>1, <1>2 DEF NoRepeats
<1> QED
  BY <1>3, <1>4 DEF CertsOf

-----------------------------------------------------------------------------
(* The steps of the search.                                                *)

\* What has been ruled out depends on the chain only up to that point.
LEMMA SameBeginning ==
    ASSUME NEW in, NEW chain, NEW other, NEW n, \A i \in 1..n : other[i] = chain[i], NEW k
    PROVE  /\ IssuersTried(in, other, n, k) <=> IssuersTried(in, chain, n, k)
           /\ RuledOut(in, other, n) <=> RuledOut(in, chain, n)
<1>1. \A path : Begins(path, other, n) <=> Begins(path, chain, n)
  BY DEF Begins
<1> QED
  BY <1>1 DEF IssuersTried, RuledOut

\* A loop counts the item it has tried.
LEMMA CountersAdvance ==
    ASSUME Typed
    PROVE  /\ AnchorRejected \/ SignatureFails =>
                  Top'.anchor = Top.anchor + 1 /\ Top'.issuer = Top.issuer
           /\ IssuerRejected => Top'.issuer = Top.issuer + 1
           /\ ReturnError => Top'.issuer = stack[Len(stack) - 1].issuer + 1
<1>1. /\ stack \in Seq(Frame(input)) /\ Len(stack) \in Nat \ {0}
      /\ Top \in Frame(input) /\ Len(stack) \in 1..Len(stack)
  BY TopFrame DEF Typed, TypeOK
<1>2. ASSUME NEW f, stack' = [stack EXCEPT ![Len(stack)] = f] PROVE Top' = f
  BY <1>1, <1>2 DEF Top
<1>3. \A f \in Frame(input) : \A e :
          /\ AnchorFailed(f, e).anchor = f.anchor + 1
          /\ AnchorFailed(f, e).issuer = f.issuer
          /\ IssuerFailed(f, e).issuer = f.issuer + 1
  BY DEF AnchorFailed, IssuerFailed, Frame
<1>4. ASSUME AnchorRejected \/ SignatureFails
      PROVE  Top'.anchor = Top.anchor + 1 /\ Top'.issuer = Top.issuer
  <2>1. PICK e : stack' = [stack EXCEPT ![Len(stack)] = AnchorFailed(Top, e)]
    BY <1>1, <1>4 DEF AnchorRejected, SignatureFails, Top
  <2> QED
    BY <1>1, <1>2, <1>3, <2>1
<1>5. ASSUME IssuerRejected PROVE Top'.issuer = Top.issuer + 1
  <2>1. PICK e : stack' = [stack EXCEPT ![Len(stack)] = IssuerFailed(Top, e)]
    BY <1>1, <1>5 DEF IssuerRejected, Top
  <2> QED
    BY <1>1, <1>2, <1>3, <2>1
<1>6. ASSUME ReturnError PROVE Top'.issuer = stack[Len(stack) - 1].issuer + 1
  <2> DEFINE n == Len(stack) - 1
  <2>1. /\ n \in Nat \ {0} /\ n \in 1..n /\ Len(Callers) = n /\ Callers[n] = stack[n]
        /\ Callers \in Seq(Frame(input))
    BY <1>1, <1>6, FramePopped DEF ReturnError
  <2>2. stack' = [Callers EXCEPT ![n] = IssuerFailed(stack[n], ret)]
    BY <1>6, <2>1 DEF ReturnError
  <2>3. Top' = IssuerFailed(stack[n], ret) /\ stack[n] \in Frame(input)
    BY <2>1, <2>2 DEF Top
  <2> QED
    BY <1>3, <2>3
<1> QED
  BY <1>4, <1>5, <1>6

LEMMA InitExplored == Init => ExploredInv /\ BudgetInv
<1> SUFFICES ASSUME Init PROVE ExploredInv /\ BudgetInv
  OBVIOUS
<1>1. /\ Len(stack) = 1 /\ Top.anchor = 1 /\ Top.issuer = 1 /\ pc = "enter"
      /\ met = {}
  BY DEF Init, NewFrame, Top
<1>2. \A n \in 1..(1 - 1) : FALSE
  OBVIOUS
<1> QED
  BY <1>1, <1>2 DEF ExploredInv, BudgetInv, Returning

LEMMA NextBudget == Typed /\ BudgetInv /\ [Next]_vars => BudgetInv'
<1> SUFFICES ASSUME Typed, BudgetInv, [Next]_vars PROVE BudgetInv'
  OBVIOUS
<1>1. signatures \in Nat /\ MAX_SIGNATURES \in Nat
  BY BoundsAssumption DEF Typed, TypeOK
<1>2. CASE met' = met /\ signatures' \in {signatures, signatures + 1}
  BY <1>1, <1>2 DEF BudgetInv
<1>3. ASSUME NEW v, v # Fatal, met' = met \cup {v}, signatures' \in {signatures, signatures + 1}
      PROVE  BudgetInv'
  BY <1>1, <1>3 DEF BudgetInv
<1>4. CASE EnterFails
  BY <1>3, <1>4, EnterVerdictResult, ErrorIsResult DEF EnterFails
<1>5. CASE AnchorRejected
  <2>1. Top.anchor \in 1..Len(input.trust_anchors)
    BY <1>5, TopFrame, InputsAssumption
       DEF AnchorRejected, Frame, Typed, TypeOK, InputWellFormed
  <2> QED
    BY <1>3, <1>5, <2>1, AnchorVerdictResult, ErrorIsResult DEF AnchorRejected
<1>6. CASE SignatureFails
  BY <1>3, <1>6 DEF SignatureFails
<1>7. CASE BudgetExhausted
  <2>1. ~(signatures < MAX_SIGNATURES) /\ signatures' = signatures + 1
    BY <1>7, WalkVerdictResult DEF BudgetExhausted, within_budget
  <2> QED
    BY <1>1, <2>1 DEF BudgetInv
<1>8. CASE IssuerRejected
  <2>1. Top.issuer \in 1..Len(input.intermediate_certs)
    BY <1>8, TopFrame, InputsAssumption
       DEF IssuerRejected, Frame, Typed, TypeOK, InputWellFormed, AllResults
  <2> QED
    BY <1>3, <1>8, <2>1, IssuerVerdictResult, ErrorIsResult DEF IssuerRejected
<1> QED
  BY <1>2, <1>4, <1>5, <1>6, <1>7, <1>8
     DEF Next, vars, EnterSucceeds, AnchorCandidate, AnchorsExhausted, SignatureValid,
         IssuerCandidate, IssuersExhausted, ReturnThrough, ReturnError, ReturnResult, Done

LEMMA NextExplored ==
    Typed /\ ChainInv /\ ErrorInv /\ BudgetInv /\ ExploredInv /\ [Next]_vars => ExploredInv'
<1> SUFFICES ASSUME Typed, ChainInv, ErrorInv, BudgetInv, ExploredInv, [Next]_vars
             PROVE  ExploredInv'
  OBVIOUS
<1> DEFINE
      CallersPrimed ==
          \A n \in 1..(Len(stack') - 1) :
              /\ IssuersTried(input', Chain', n, stack'[n].issuer)
              /\ Trying(input', Chain', n, stack'[n].issuer)
      Primed ==
        signatures' <= MAX_SIGNATURES =>
          /\ CallersPrimed
          /\ pc' = "enter" => Top'.anchor = 1
          /\ pc' \in {"enter", "anchors", "signatures"} => Top'.issuer = 1
          /\ pc' \in {"anchors", "signatures"} => AnchorsTried(input', Chain', Top'.anchor)
          /\ pc' = "intermediates" => IssuersTried(input', Chain', Len(stack'), Top'.issuer)
          /\ Returning' /\ ret' # "Ok" => RuledOut(input', Chain', Len(stack'))
<1>1. Primed => ExploredInv'
  BY DEF ExploredInv, IssuersTried, Trying, AnchorsTried, RuledOut, ValidPaths, Begins,
         signature_verdict, issuer_spki, issuer_key_usage, used_as_ca,
         subject_common_name_is_dns_name, ValidPath, Linked, NoRepeats, PlacesValid,
         NamesAllowed, SignaturesValid, Below, SubCas, CertsOf
<1> SUFFICES ASSUME signatures' <= MAX_SIGNATURES PROVE Primed
  BY <1>1
<1>2. signatures <= MAX_SIGNATURES
  <2>1. signatures \in Nat /\ MAX_SIGNATURES \in Nat
    BY BoundsAssumption DEF Typed, TypeOK
  <2>2. signatures' \in {signatures, signatures + 1}
    BY DEF Next, vars, EnterFails, EnterSucceeds, AnchorRejected, AnchorCandidate,
           AnchorsExhausted, SignatureValid, SignatureFails, BudgetExhausted, IssuerRejected,
           IssuerCandidate, IssuersExhausted, ReturnThrough, ReturnError, ReturnResult, Done
  <2> QED
    BY <2>1, <2>2
<1>3. /\ \A n \in 1..(Len(stack) - 1) :
             /\ IssuersTried(input, Chain, n, stack[n].issuer)
             /\ Trying(input, Chain, n, stack[n].issuer)
      /\ pc = "enter" => Top.anchor = 1
      /\ pc \in {"enter", "anchors", "signatures"} => Top.issuer = 1
      /\ pc \in {"anchors", "signatures"} => AnchorsTried(input, Chain, Top.anchor)
      /\ pc = "intermediates" => IssuersTried(input, Chain, Len(stack), Top.issuer)
      /\ Returning /\ ret # "Ok" => RuledOut(input, Chain, Len(stack))
  BY <1>2 DEF ExploredInv
<1>4. /\ Len(stack) \in Nat \ {0} /\ Len(stack) \in 1..Len(stack)
      /\ stack \in Seq(Frame(input)) /\ Top \in Frame(input) /\ Top = stack[Len(stack)]
      /\ Top.anchor \in Nat \ {0} /\ Top.issuer \in Nat \ {0}
  BY TopFrame DEF Typed, TypeOK, Frame, Top
<1>5. /\ Len(input.trust_anchors) \in Nat /\ Len(input.intermediate_certs) \in Nat
  BY InputsAssumption DEF Typed, InputWellFormed, AllResults
\* Steps that leave the stack alone.
<1>6. ASSUME UNCHANGED << input, stack >> PROVE Chain' = Chain /\ Top' = Top /\ CallersPrimed
  BY <1>3, <1>6 DEF Chain, Top
\* Steps that change the loop of the topmost call.
<1>7. ASSUME TopChanged, input' = input PROVE CallersPrimed /\ Chain' = Chain /\ Len(stack') = Len(stack)
  BY <1>3, <1>7 DEF TopChanged, SameChain
<1>8. CASE EnterFails
  <2>1. RuledOut(input, Chain, Len(stack))
    BY <1>8, EnterRulesOut DEF EnterFails
  <2> QED
    BY <1>6, <1>8, <2>1 DEF EnterFails
<1>9. CASE EnterSucceeds
  <2>1. AnchorsTried(input, Chain, 1)
    BY DEF AnchorsTried
  <2> QED
    BY <1>3, <1>6, <1>9, <2>1 DEF EnterSucceeds, Returning
<1>10. CASE AnchorRejected \/ SignatureFails
  <2> DEFINE k == Top.anchor
  <2>1. TopChanged /\ Top'.anchor = k + 1 /\ Top'.issuer = Top.issuer
    BY <1>10, LoopSteps, CountersAdvance
  <2>2. ~ValidPath(input, Chain, input.trust_anchors[k])
    <3>1. CASE AnchorRejected
      BY <3>1, AnchorFails DEF AnchorRejected
    <3>2. CASE SignatureFails
      <4>1. within_budget /\ walk \in 1..Len(stack)
        BY <3>2, WalkVerdictResult DEF SignatureFails, Typed, WalkInBounds
      <4>2. signature_verdict(input, Chain, input.trust_anchors[k], walk) # "Ok"
        BY <3>2, <4>1 DEF SignatureFails, walk_verdict, Require, ??
      <4> QED
        BY <4>1, <4>2, AnchorFails
    <3> QED
      BY <1>10, <3>1, <3>2
  <2>3. \A j \in 1..((k + 1) - 1) : j = k \/ j \in 1..(k - 1)
    BY <1>4
  <2>4. pc \in {"anchors", "signatures"} /\ pc' = "anchors" /\ input' = input
    BY <1>10 DEF AnchorRejected, SignatureFails
  <2>5. AnchorsTried(input, Chain, k + 1)
    BY <1>3, <2>2, <2>3, <2>4 DEF AnchorsTried
  <2> QED
    BY <1>3, <1>7, <2>1, <2>4, <2>5 DEF Returning
<1>11. CASE AnchorCandidate
  BY <1>3, <1>6, <1>11 DEF AnchorCandidate, Returning
<1>12. CASE AnchorsExhausted
  <2>1. Top.issuer = 1 /\ AnchorsTried(input, Chain, Top.anchor) /\ Top.anchor > Len(input.trust_anchors)
    BY <1>3, <1>12 DEF AnchorsExhausted
  <2>2. ASSUME NEW path \in ValidPaths(input), Begins(path, Chain, Len(stack)),
               ~(Len(path) > Len(stack))
        PROVE  FALSE
    <3>1. path = Chain
      BY <2>2, WholeChain
    <3>2. PICK k \in 1..Len(input.trust_anchors) :
              ValidPath(input, path, input.trust_anchors[k])
      BY DEF ValidPaths
    <3>3. k \in 1..(Top.anchor - 1)
      BY <1>4, <1>5, <2>1
    <3> QED
      BY <2>1, <3>1, <3>2, <3>3 DEF AnchorsTried
  <2>3. IssuersTried(input, Chain, Len(stack), 1)
    BY <2>2 DEF IssuersTried
  <2> QED
    BY <1>6, <1>12, <2>1, <2>3 DEF AnchorsExhausted, Returning
<1>13. CASE SignatureValid
  <2>1. CASE ~at_end_entity
    BY <1>3, <1>6, <1>13, <2>1 DEF SignatureValid, Returning
  <2>2. CASE at_end_entity
    BY <1>6, <1>13, <2>2 DEF SignatureValid, Returning
  <2> QED
    BY <2>1, <2>2
<1>14. CASE BudgetExhausted
  <2>1. ~(signatures < MAX_SIGNATURES) /\ signatures' = signatures + 1
    BY <1>14, WalkVerdictResult DEF BudgetExhausted, within_budget
  <2>2. signatures \in Nat /\ MAX_SIGNATURES \in Nat
    BY BoundsAssumption DEF Typed, TypeOK
  <2> QED
    BY <2>1, <2>2
<1>15. CASE IssuerRejected
  <2> DEFINE k == Top.issuer
             n == Len(stack)
             issuer == input.intermediate_certs[k]
  <2>1. /\ TopChanged /\ Top'.issuer = k + 1
        /\ pc = "intermediates" /\ pc' = "intermediates" /\ input' = input
        /\ issuer_verdict(issuer) # "Ok"
    BY <1>15, LoopSteps, CountersAdvance DEF IssuerRejected
  <2>2. \A j \in 1..((k + 1) - 1) : j = k \/ j \in 1..(k - 1)
    BY <1>4
  <2> HIDE DEF k, n, issuer
  <2>3. ASSUME NEW path \in ValidPaths(input), Begins(path, Chain, n)
        PROVE  /\ Len(path) > n
               /\ \A j \in 1..((k + 1) - 1) : input.intermediate_certs[j].result = "Ok" =>
                      path[n + 1] # input.intermediate_certs[j].value
    <3>1. /\ Len(path) > n
          /\ \A j \in 1..(k - 1) : input.intermediate_certs[j].result = "Ok" =>
                 path[n + 1] # input.intermediate_certs[j].value
      BY <1>3, <2>1, <2>3 DEF IssuersTried, k, n
    <3>2. issuer.result = "Ok" => path[n + 1] # issuer.value
      BY <2>1, <2>3, <3>1, IssuerFails DEF n
    <3> QED
      BY <2>2, <3>1, <3>2 DEF issuer
  <2>4. IssuersTried(input, Chain, n, k + 1)
    BY <2>3 DEF IssuersTried
  <2> QED
    BY <1>7, <2>1, <2>4 DEF Returning, n
<1>16. CASE IssuerCandidate
  <2> DEFINE k == Top.issuer
             n == Len(stack)
             c == input.intermediate_certs[k].value
  <2>1. /\ Pushed(c) /\ k \in 1..Len(input.intermediate_certs)
        /\ pc = "intermediates" /\ pc' = "enter" /\ input' = input
    BY <1>16, CallStep DEF IssuerCandidate
  <2>2. input.intermediate_certs[k].result = "Ok"
    BY <1>16 DEF IssuerCandidate, issuer_verdict, ??
  <2> HIDE DEF c, n, k
  <2>3. /\ Len(stack') = n + 1 /\ (n + 1) - 1 = n /\ n \in 1..n
        /\ \A i \in 1..n : stack'[i] = stack[i] /\ Chain'[i] = Chain[i]
        /\ Chain'[n + 1] = c
        /\ Top'.anchor = 1 /\ Top'.issuer = 1
    BY <1>4, <2>1 DEF Pushed, NewFrame, n
  <2>4. \A i \in 1..n : \A j : IssuersTried(input, Chain', i, j) <=> IssuersTried(input, Chain, i, j)
    <3>1. \A i \in 1..n : \A j \in 1..i : Chain'[j] = Chain[j]
      BY <1>4, <2>3 DEF n
    <3> QED
      BY <3>1, SameBeginning
  <2>5. \A i \in 1..n : IssuersTried(input, Chain, i, stack[i].issuer)
    <3>1. \A i \in 1..n : i = n \/ i \in 1..(n - 1)
      BY <1>4 DEF n
    <3> QED
      BY <1>3, <1>4, <2>1, <3>1 DEF n
  <2>6. \A i \in 1..n : Trying(input, Chain', i, stack[i].issuer)
    <3>1. \A i \in 1..n : i = n \/ (i \in 1..(n - 1) /\ i + 1 \in 1..n)
      BY <1>4 DEF n
    <3>2. Trying(input, Chain', n, stack[n].issuer)
      BY <1>4, <2>1, <2>2, <2>3 DEF Trying, c, k, n
    <3>3. \A i \in 1..(n - 1) : Trying(input, Chain, i, stack[i].issuer)
      BY <1>3 DEF n
    <3>4. \A i \in 1..(n - 1) : i + 1 \in 1..n => Trying(input, Chain', i, stack[i].issuer)
      BY <2>3, <3>3 DEF Trying
    <3> QED
      BY <3>1, <3>2, <3>4
  <2>7. CallersPrimed
    BY <2>1, <2>3, <2>4, <2>5, <2>6
  <2> QED
    BY <2>1, <2>3, <2>7 DEF Returning
<1>17. CASE IssuersExhausted
  <2>1. /\ pc = "intermediates" /\ Top.issuer > Len(input.intermediate_certs)
        /\ pc' = "return" /\ UNCHANGED << input, stack >>
    BY <1>17 DEF IssuersExhausted
  <2>2. ASSUME NEW path \in ValidPaths(input), Begins(path, Chain, Len(stack))
        PROVE  FALSE
    <3>1. /\ Len(path) > Len(stack)
          /\ \A j \in 1..(Top.issuer - 1) : input.intermediate_certs[j].result = "Ok" =>
                 path[Len(stack) + 1] # input.intermediate_certs[j].value
      BY <1>3, <2>1, <2>2 DEF IssuersTried
    <3>2. Len(stack) + 1 \in 2..Len(path)
      BY <1>4, <3>1, ValidPathIsSeq
    <3>3. PICK j \in 1..Len(input.intermediate_certs) :
              /\ input.intermediate_certs[j].result = "Ok"
              /\ path[Len(stack) + 1] = input.intermediate_certs[j].value
      BY <3>2, AboveIsIntermediate
    <3>4. j \in 1..(Top.issuer - 1)
      BY <1>4, <1>5, <2>1
    <3> QED
      BY <3>1, <3>3, <3>4
  <2>3. RuledOut(input, Chain, Len(stack))
    BY <2>2 DEF RuledOut
  <2> QED
    BY <1>6, <2>1, <2>3
<1>18. CASE ReturnThrough \/ ReturnError
  <2> DEFINE n == Len(stack) - 1
  <2>1. /\ Popped /\ Returning /\ input' = input /\ ret' = ret
        /\ n \in Nat \ {0} /\ n \in 1..n
    BY <1>4, <1>18, ReturnSteps DEF ReturnThrough, ReturnError, Returning
  <2>2. /\ Len(stack') = n /\ Top' = stack'[n]
        /\ \A i \in 1..(n - 1) : stack'[i] = stack[i]
        /\ \A i \in 1..n : Chain'[i] = Chain[i]
        /\ Len(stack) = n + 1
    BY <1>4, <2>1 DEF Popped, Top
  <2>3. \A i \in 1..(n - 1) : i \in 1..n /\ i + 1 \in 1..n
    BY <2>1
  <2>4. /\ \A i \in 1..n : IssuersTried(input, Chain, i, stack[i].issuer)
        /\ \A i \in 1..n : Trying(input, Chain, i, stack[i].issuer)
    BY <1>3
  <2> HIDE DEF n
  <2>5. \A i \in 1..n : \A j : IssuersTried(input, Chain', i, j) <=> IssuersTried(input, Chain, i, j)
    <3>1. \A i \in 1..n : \A j \in 1..i : Chain'[j] = Chain[j]
      BY <2>1, <2>2
    <3> QED
      BY <3>1, SameBeginning
  <2>6. \A i \in 1..(n - 1) : Trying(input, Chain', i, stack[i].issuer)
    BY <2>2, <2>3, <2>4 DEF Trying
  <2>7. CallersPrimed
    BY <2>1, <2>2, <2>3, <2>4, <2>5, <2>6
  <2>8. CASE ReturnThrough
    <3>1. ret = "Ok"
      <4>1. ret # Fatal
        <5>1. Fatal \notin met
          BY <1>2, BoundsAssumption DEF BudgetInv, Typed, TypeOK
        <5>2. ret = "Ok" \/ ret \in met \cup {"UnknownIssuer"}
          BY <2>1, <5>1 DEF ErrorInv, Reportable
        <5> QED
          BY <5>1, <5>2 DEF Fatal
      <4> QED
        BY <2>8, <4>1 DEF ReturnThrough
    <3> QED
      BY <2>1, <2>7, <2>8, <3>1 DEF ReturnThrough
  <2>9. CASE ReturnError
    <3> DEFINE k == stack[n].issuer
    <3>1. /\ Top'.issuer = k + 1 /\ pc' = "intermediates"
          /\ RuledOut(input, Chain, n + 1)
      BY <1>3, <2>1, <2>2, <2>9, CountersAdvance DEF ReturnError, n
    <3>2. \A j \in 1..((k + 1) - 1) : j = k \/ j \in 1..(k - 1)
      BY <1>4, <1>5, <2>1, <2>4 DEF Trying
    <3>3. Chain[n + 1] = input.intermediate_certs[k].value
      BY <2>1, <2>4 DEF Trying
    <3> HIDE DEF k
    <3>4. ASSUME NEW path \in ValidPaths(input), Begins(path, Chain, n)
          PROVE  /\ Len(path) > n
                 /\ \A j \in 1..((k + 1) - 1) : input.intermediate_certs[j].result = "Ok" =>
                        path[n + 1] # input.intermediate_certs[j].value
      <4>1. /\ Len(path) > n
            /\ \A j \in 1..(k - 1) : input.intermediate_certs[j].result = "Ok" =>
                   path[n + 1] # input.intermediate_certs[j].value
        BY <2>1, <2>4, <3>4 DEF IssuersTried, k
      <4>2. path[n + 1] # input.intermediate_certs[k].value
        <5>1. ASSUME path[n + 1] = Chain[n + 1] PROVE Begins(path, Chain, n + 1)
          <6>1. \A i \in 1..(n + 1) : i = n + 1 \/ i \in 1..n
            BY <2>1
          <6>2. n + 1 <= Len(path)
            BY <2>1, <4>1, ValidPathIsSeq
          <6> QED
            BY <3>4, <5>1, <6>1, <6>2 DEF Begins
        <5> QED
          BY <3>1, <3>3, <3>4, <5>1 DEF RuledOut
      <4> QED
        BY <3>2, <4>1, <4>2
    <3>5. IssuersTried(input, Chain, n, k + 1)
      BY <3>4 DEF IssuersTried
    <3> QED
      BY <2>1, <2>2, <2>5, <2>7, <3>1, <3>5 DEF Returning
  <2> QED
    BY <1>18, <2>8, <2>9
<1>19. CASE ReturnResult
  BY <1>3, <1>6, <1>19 DEF ReturnResult, Returning
<1>20. CASE Done \/ UNCHANGED vars
  <2>1. UNCHANGED vars
    BY <1>20 DEF Done
  <2> QED
    BY <1>3, <1>6, <2>1 DEF vars, Returning
<1> QED
  BY <1>8, <1>9, <1>10, <1>11, <1>12, <1>13, <1>14, <1>15, <1>16, <1>17, <1>18, <1>19, <1>20
     DEF Next

-----------------------------------------------------------------------------
\* The candidate paths of the property are sequences of the caller's certificates.
LEMMA CandidatesAreSequences ==
    ASSUME NEW in, Len(in.intermediate_certs) \in Nat, NEW path \in CandidatePaths(in)
    PROVE  path \in Seq(CertsOf(in))
<1> DEFINE usable == {i \in 1..Len(in.intermediate_certs) :
                          in.intermediate_certs[i].result = "Ok"}
           chosen(f) == [k \in DOMAIN f |-> in.intermediate_certs[f[k]].value]
<1>1. \A i \in usable : in.intermediate_certs[i].value \in CertsOf(in)
  BY DEF CertsOf
<1> HIDE DEF usable
<1>2. PICK f : /\ \E n \in 0..Cardinality(usable) : f \in [1..n -> usable]
               /\ path = << in.cert >> \o chosen(f)
  BY DEF CandidatePaths, usable
<1>3. PICK n \in Nat : f \in [1..n -> usable]
  <2>1. IsFiniteSet(1..Len(in.intermediate_certs))
    BY FS_Interval
  <2>2. IsFiniteSet(usable)
    BY <2>1, FS_Subset DEF usable
  <2>3. Cardinality(usable) \in Nat
    BY <2>2, FS_CardinalityType
  <2> QED
    BY <1>2, <2>3
<1>4. chosen(f) \in Seq(CertsOf(in))
  BY <1>1, <1>3
<1>5. << in.cert >> \in Seq(CertsOf(in))
  BY DEF CertsOf
<1> QED
  BY <1>2, <1>4, <1>5

\* A valid path of the caller's certificates is a candidate: it uses no
\* intermediate twice, so there are enough of them.
LEMMA ValidPathIsCandidate ==
    ASSUME NEW in, Len(in.intermediate_certs) \in Nat, NEW path \in ValidPaths(in)
    PROVE  path \in CandidatePaths(in)
<1> DEFINE usable == {i \in 1..Len(in.intermediate_certs) :
                          in.intermediate_certs[i].result = "Ok"}
           n == Len(path) - 1
           chosen(g) == [k \in DOMAIN g |-> in.intermediate_certs[g[k]].value]
           f == [k \in 1..n |->
                    CHOOSE j \in usable : path[k + 1] = in.intermediate_certs[j].value]
<1>1. /\ path \in Seq(CertsOf(in)) /\ n \in Nat /\ Len(path) = n + 1
      /\ path = [i \in 1..Len(path) |-> path[i]]
      /\ path[1] = in.cert /\ NoRepeats(path)
  BY ValidPathIsSeq
<1>2. \A k \in 1..n : k + 1 \in 2..Len(path)
  BY <1>1
<1>3. \A k \in 1..n : \E j \in usable : path[k + 1] = in.intermediate_certs[j].value
  BY <1>2, AboveIsIntermediate
<1>4. f \in [1..n -> usable] /\ \A k \in 1..n : path[k + 1] = in.intermediate_certs[f[k]].value
  BY <1>3
<1>5. usable \subseteq 1..Len(in.intermediate_certs)
  OBVIOUS
<1>6. path \in CandidatePaths(in) <=>
          \E g : /\ \E m \in 0..Cardinality(usable) : g \in [1..m -> usable]
                 /\ \A a, b \in DOMAIN g : a # b => g[a] # g[b]
                 /\ path = << in.cert >> \o chosen(g)
  BY DEF CandidatePaths
<1> HIDE DEF usable, n, f
<1>7. ASSUME NEW a \in 1..n, NEW b \in 1..n, a # b PROVE f[a] # f[b]
  <2>1. a + 1 \in 1..Len(path) /\ b + 1 \in 1..Len(path) /\ a + 1 # b + 1
    BY <1>1, <1>7
  <2>2. path[a + 1] # path[b + 1]
    BY <1>1, <2>1 DEF NoRepeats
  <2> QED
    BY <1>4, <2>2
<1>8. Cardinality(usable) \in Nat /\ n <= Cardinality(usable)
  <2>1. IsFiniteSet(1..Len(in.intermediate_certs))
    BY FS_Interval
  <2>2. IsFiniteSet(usable) /\ Cardinality(usable) \in Nat
    BY <1>5, <2>1, FS_Subset, FS_CardinalityType
  <2>3. IsFiniteSet(1..n) /\ Cardinality(1..n) = n
    <3>1. 1 \in Int /\ n \in Int
      BY <1>1
    <3>2. IsFiniteSet(1..n) /\ Cardinality(1..n) = IF 1 > n THEN 0 ELSE n - 1 + 1
      BY <3>1, FS_Interval, Zenon
    <3> QED
      BY <1>1, <3>2
  <2>4. ~(Cardinality(usable) < Cardinality(1..n))
    <3>1. \A x, y \in 1..n : ~(x # y /\ f[x] = f[y])
      BY <1>7
    <3>2. ASSUME Cardinality(usable) < Cardinality(1..n)
          PROVE  \E x, y \in 1..n : x # y /\ f[x] = f[y]
      <4>1. f \in [1..n -> usable]
        BY <1>4
      <4> QED
        BY <2>2, <2>3, <3>2, <4>1, FS_PigeonHole
    <3> QED
      BY <3>1, <3>2
  <2> QED
    BY <1>1, <2>2, <2>3, <2>4
<1>9. path = << in.cert >> \o chosen(f)
  <2>1. DOMAIN f = 1..n
    BY <1>4
  <2>2. chosen(f) = [k \in 1..n |-> path[k + 1]]
    BY <1>4, <2>1
  <2>3. \A k \in 1..n : path[k + 1] \in CertsOf(in)
    BY <1>1, <1>2
  <2>4. chosen(f) \in Seq(CertsOf(in)) /\ Len(chosen(f)) = n
    BY <1>1, <2>2, <2>3, SeqOfFunction
  <2>5. << in.cert >> \in Seq(CertsOf(in)) /\ Len(<< in.cert >>) = 1
    BY DEF CertsOf
  <2> HIDE DEF chosen
  <2>6. /\ << in.cert >> \o chosen(f) \in Seq(CertsOf(in))
        /\ Len(<< in.cert >> \o chosen(f)) = n + 1
        /\ \A i \in 1..(n + 1) : (<< in.cert >> \o chosen(f))[i] =
               IF i = 1 THEN in.cert ELSE chosen(f)[i - 1]
    BY <1>1, <2>4, <2>5
  <2>7. \A i \in 1..(n + 1) : i # 1 => i - 1 \in 1..n /\ (i - 1) + 1 = i
    BY <1>1
  <2>8. \A i \in 1..(n + 1) : (<< in.cert >> \o chosen(f))[i] = path[i]
    BY <1>1, <2>2, <2>6, <2>7
  <2>9. << in.cert >> \o chosen(f) = [i \in 1..(n + 1) |-> (<< in.cert >> \o chosen(f))[i]]
    BY <2>6
  <2> QED
    BY <1>1, <2>8, <2>9
<1>10. n \in 0..Cardinality(usable) /\ DOMAIN f = 1..n
  BY <1>1, <1>4, <1>8
<1> QED
  BY <1>4, <1>6, <1>7, <1>9, <1>10

\* When the outermost call returns an error, nothing is left to try.
LEMMA NoneLeft ==
    ASSUME IInv, ExploredInv, Returning, Len(stack) = 1, ret # "Ok",
           signatures <= MAX_SIGNATURES
    PROVE  ~HasValidPath(input)
<1> SUFFICES ASSUME NEW path \in CandidatePaths(input),
                    NEW k \in 1..Len(input.trust_anchors),
                    ValidPath(input, path, input.trust_anchors[k])
             PROVE  FALSE
  BY DEF HasValidPath
<1>1. path \in ValidPaths(input)
  BY CandidatesAreSequences, InputsAssumption
     DEF ValidPaths, IInv, Typed, InputWellFormed, AllResults
<1>2. Chain[1] = input.cert
  BY DEF IInv, ChainInv, ChainOK
<1>3. Begins(path, Chain, 1)
  BY <1>1, <1>2, ValidPathIsSeq DEF Begins
<1>4. RuledOut(input, Chain, 1)
  BY DEF ExploredInv
<1> QED
  BY <1>1, <1>3, <1>4 DEF RuledOut

LEMMA ExploredInvariance == Spec => [](ErrorInv /\ ExploredInv /\ BudgetInv)
<1>1. Init => ErrorInv /\ ExploredInv /\ BudgetInv
  BY InitErrors, InitExplored
<1>2. /\ IInv /\ ErrorInv /\ ExploredInv /\ BudgetInv /\ [Next]_vars
      => ErrorInv' /\ ExploredInv' /\ BudgetInv'
  BY NextErrors, NextExplored, NextBudget DEF IInv
<1> QED
  BY <1>1, <1>2, Invariance, PTL DEF Spec

\* Completeness of build_chain: an error within the signature budget means that
\* no arrangement of the caller's certificates is a valid path.
THEOREM CompletenessTheorem == Spec => []Completeness
<1>1. IInv /\ ExploredInv => Completeness
  BY NoneLeft DEF Completeness, Returning, IInv, ChainInv
<1> QED
  BY <1>1, Invariance, ExploredInvariance, PTL

\* build_chain implements the abstract verifier: every step of the search leaves
\* the verdict pending, but for the return of the outermost call, which decides
\* whether a valid path exists.
THEOREM DecisionTheorem == Spec => DecidesValidPaths
<1> DEFINE Inv == IInv /\ ExploredInv
<1>1. Spec => []Inv
  BY Invariance, ExploredInvariance, PTL
<1>2. Init => Search!Init
  BY DEF Init, Search!Init
<1>3. ASSUME Inv, [Next]_vars PROVE [Search!Decide]_(Search!vars)
  <2>1. CASE ReturnResult
    <3>1. /\ pc # "done" /\ pc' = "done" /\ UNCHANGED << input, ret, signatures >>
          /\ pc = "return" /\ Len(stack) = 1 /\ ret \in Results
      BY <1>3, <2>1 DEF ReturnResult, IInv, Typed, TypeOK
    <3>2. signatures \in Nat /\ MAX_SIGNATURES \in Nat
      BY <1>3, BoundsAssumption DEF IInv, Typed, TypeOK
    <3>3. Search!Results = Results
      BY DEF Search!Results, Search!Error, Search!rank, Results, Error, rank
    <3>4. ASSUME ret = "Ok" PROVE HasValidPath(input) /\ ~(signatures > MAX_SIGNATURES)
      <4>1. AcceptedOK(input, The(accepted)) /\ signatures <= MAX_SIGNATURES
        BY <1>3, <3>1, <3>4 DEF IInv, SearchInv
      <4>2. The(accepted).path \in ValidPaths(input)
        BY <4>1 DEF AcceptedOK, ValidPaths
      <4>3. The(accepted).path \in CandidatePaths(input)
        BY <1>3, <4>2, ValidPathIsCandidate, InputsAssumption
           DEF IInv, Typed, InputWellFormed, AllResults
      <4> QED
        BY <3>2, <4>1, <4>3 DEF AcceptedOK, HasValidPath
    <3>5. ASSUME ret # "Ok", ~(signatures > MAX_SIGNATURES) PROVE ~HasValidPath(input)
      BY <1>3, <3>1, <3>2, <3>5, NoneLeft DEF Returning
    <3> QED
      BY <3>1, <3>3, <3>4, <3>5 DEF Search!Decide
  <2>2. CASE pc # "done" /\ pc' # "done" /\ input' = input
    BY <2>2 DEF Search!vars
  <2>3. CASE UNCHANGED vars
    BY <2>3 DEF vars, Search!vars
  <2> QED
    BY <1>3, <2>1, <2>2, <2>3
       DEF Next, EnterFails, EnterSucceeds, AnchorRejected, AnchorCandidate,
         AnchorsExhausted, SignatureValid, SignatureFails, BudgetExhausted, IssuerRejected,
         IssuerCandidate, IssuersExhausted, ReturnThrough, ReturnError, Done
<1> HIDE DEF Inv
<1> QED
  BY <1>1, <1>2, <1>3, PTL DEF DecidesValidPaths, Search!Spec, Spec

-----------------------------------------------------------------------------
(* What the checks mean.                                                   *)

LEMMA ReferenceTerms ==
    /\ \A o : Reference!IsSome(o) <=> IsSome(o)
    /\ \A o : Reference!The(o) = The(o)
    /\ \A r : Reference!Decoded(r) <=> r.result = "Ok"
    /\ \A s : Reference!IsSeq(s) <=> IsSeq(s)
    /\ Reference!None = None
    /\ \A v : Reference!Ok(v) = Ok(v)
    /\ \A f : Reference!Range(f) = {f[x] : x \in DOMAIN f}
    /\ \A S : Reference!Min(S) = Min(S)
  BY DEF Reference!IsSome, IsSome, Reference!The, The, Reference!Decoded, Reference!IsSeq,
         IsSeq, Reference!None, None, Reference!Ok, Ok, Reference!Range, Reference!Min, Min

LEMMA ReferenceCardinality == \A S : Reference!Cardinality(S) = Cardinality(S)
  BY DEF Reference!Cardinality, Cardinality

\* An element that SelectInSeq finds is the first one of its kind.
LEMMA SelectedIsFirst ==
    ASSUME NEW s, Len(s) \in Nat, NEW I, I \in SUBSET (1..Len(s)),
           NEW k, k = IF I # {} THEN Min(I) ELSE 0
    PROVE  /\ k = 0 => I = {}
           /\ k # 0 => k \in I /\ \A j \in 1..(k - 1) : j \notin I
           /\ I # {} => k # 0
<1>1. CASE I = {}
  BY <1>1
<1>2. CASE I # {}
  <2>1. k \in I /\ \A j \in I : k <= j
    <3>1. I \in SUBSET Nat
      OBVIOUS
    <3> QED
      BY <1>2, <3>1, MinOfIndices
  <2>2. k \in 1..Len(s)
    BY <2>1
  <2>3. \A j \in 1..(k - 1) : ~(k <= j)
    BY <2>2
  <2> QED
    BY <1>2, <2>1, <2>2, <2>3
<1> QED
  BY <1>1, <1>2

LEMMA CurrentMeans ==
    ASSUME NEW c, NEW time \in Int, Reference!RegularCert(c)
    PROVE  read_all(c.validity.trailing, check_validity(c.validity, time)) = "Ok" <=>
               Reference!Current(c, time)
  BY DEF Reference!Current, Reference!RegularCert, Reference!Decoded,
         read_all, check_validity, Require, ??

LEMMA RoleMeans ==
    ASSUME NEW c, NEW i \in Nat \ {0}
    PROVE  read_all(IsSome(c.basic_constraints) /\ The(c.basic_constraints).trailing,
                    check_basic_constraints(c.basic_constraints, i > 1, SubCas(i))) = "Ok" <=>
               Reference!RoleAllowed(c, i)
<1>1. Reference!Cardinality(2..(i - 1)) = SubCas(i)
  <2>1. Cardinality(2..(i - 1)) = IF 2 > i - 1 THEN 0 ELSE (i - 1) - 2 + 1
    BY FS_Interval
  <2> QED
    BY <2>1, ReferenceCardinality DEF SubCas
<1> DEFINE bc == The(c.basic_constraints)
           some == IsSome(c.basic_constraints)
           is_ca == some /\ bc.ca.value
           n == SubCas(i)
           fits == IsSome(bc.path_len) => n <= The(bc.path_len).value
<1>2. Reference!RoleAllowed(c, i) <=>
          /\ some => /\ bc.ca.result = "Ok" /\ ~bc.trailing
                     /\ IsSome(bc.path_len) => The(bc.path_len).result = "Ok"
          /\ is_ca <=> i > 1
          /\ is_ca => fits
  BY <1>1, ReferenceTerms, Zenon DEF Reference!RoleAllowed
<1>3. parse_basic_constraints(bc) = "Ok" <=>
          bc.ca.result = "Ok" /\ (IsSome(bc.path_len) => The(bc.path_len).result = "Ok")
  BY DEF parse_basic_constraints, ??
<1>4. read_all(some /\ bc.trailing, check_basic_constraints(c.basic_constraints, i > 1, n)) = "Ok" <=>
          /\ some => parse_basic_constraints(bc) = "Ok"
          /\ ~(is_ca /\ ~(i > 1)) /\ ~((i > 1) /\ ~is_ca)
          /\ (i > 1) => fits
          /\ ~(some /\ bc.trailing)
  BY DEF read_all, check_basic_constraints, path_len_allows, Require, ??
<1> HIDE DEF fits
<1> QED
  BY <1>2, <1>3, <1>4

LEMMA PurposeMeans ==
    ASSUME NEW c, CertWellFormed(c), Reference!RegularCert(c), NEW eku
    PROVE  check_eku(eku, c.eku) = "Ok" <=> Reference!PurposeAllowed(c, eku)
<1> DEFINE oids == The(c.eku)
           stops(o) == o.result # "Ok" \/ key_purpose_id_equals(eku, o.value)
           I == {i \in 1..Len(oids) : stops(oids[i])}
           k == SelectInSeq(oids, stops)
<1>1. Reference!PurposeAllowed(c, eku) <=>
          IF IsSome(c.eku)
          THEN \E m \in DOMAIN oids : /\ \A j \in 1..m : oids[j].result = "Ok"
                                      /\ oids[m].value = eku.oid
          ELSE eku.mode = "RequiredIfPresent"
  BY ReferenceTerms, Zenon DEF Reference!PurposeAllowed
<1>2. CASE ~IsSome(c.eku)
  BY <1>1, <1>2 DEF check_eku, Require
<1>3. CASE IsSome(c.eku)
  <2>1. IsSeq(oids)
    BY <1>3, ReferenceTerms DEF Reference!RegularCert
  <2>2. Len(oids) \in Nat /\ DOMAIN oids = 1..Len(oids) /\ (oids = << >> <=> Len(oids) = 0)
    BY <2>1, ListFacts
  <2>3. k = IF I # {} THEN Min(I) ELSE 0
    BY DEF SelectInSeq
  <2>4. check_eku(eku, c.eku) =
            Require(oids # << >>, "BadDer") ?? Require(k # 0, "RequiredEkuNotFound")
            ?? oids[k].result
    BY <1>3 DEF check_eku
  <2>5. \A i : i \in I <=> /\ i \in 1..Len(oids)
                           /\ oids[i].result # "Ok" \/ oids[i].value = eku.oid
    BY DEF key_purpose_id_equals
  <2>6. I \in SUBSET (1..Len(oids))
    OBVIOUS
  <2> HIDE DEF I, k, oids
  <2>7. /\ k = 0 => I = {}
        /\ k # 0 => k \in I /\ \A j \in 1..(k - 1) : j \notin I
        /\ I # {} => k # 0
    BY <2>2, <2>3, <2>6, SelectedIsFirst
  <2>8. check_eku(eku, c.eku) = "Ok" <=> k # 0 /\ oids # << >> /\ oids[k].result = "Ok"
    BY <2>4 DEF Require, ??
  <2>9. ASSUME k # 0, oids[k].result = "Ok"
        PROVE  k \in DOMAIN oids /\ oids[k].value = eku.oid /\ \A j \in 1..k : oids[j].result = "Ok"
    <3>1. k \in 1..Len(oids) /\ oids[k].value = eku.oid
      BY <2>5, <2>7, <2>9
    <3>2. \A j \in 1..k : j = k \/ (j \in 1..(k - 1) /\ j \in 1..Len(oids))
      BY <2>2, <3>1
    <3> QED
      BY <2>2, <2>5, <2>7, <2>9, <3>1, <3>2
  <2>10. ASSUME NEW m \in DOMAIN oids, oids[m].value = eku.oid,
                \A j \in 1..m : oids[j].result = "Ok"
         PROVE  k # 0 /\ oids # << >> /\ oids[k].result = "Ok"
    <3>1. m \in I /\ m \in 1..Len(oids)
      BY <2>2, <2>5, <2>10
    <3>2. k # 0 /\ k \in I /\ k \in 1..Len(oids)
      BY <2>5, <2>7, <3>1
    <3>3. k <= m
      <4>1. ~(m \in 1..(k - 1))
        BY <2>7, <3>1, <3>2
      <4> QED
        BY <2>2, <3>1, <3>2, <4>1
    <3>4. k \in 1..m
      BY <2>2, <3>1, <3>2, <3>3
    <3>5. Len(oids) # 0
      BY <2>2, <3>2
    <3> QED
      BY <2>2, <2>10, <3>2, <3>4, <3>5
  <2>11. k # 0 => oids # << >>
    BY <2>2, <2>5, <2>7
  <2> QED
    BY <1>1, <1>3, <2>8, <2>9, <2>10, <2>11 DEF oids
<1> QED
  BY <1>2, <1>3

\* The checks of one certificate.
LEMMA PlaceMeans ==
    ASSUME NEW c, CertWellFormed(c), Reference!RegularCert(c), NEW time \in Int,
           NEW i \in Nat \ {0}, NEW eku
    PROVE  check_issuer_independent_properties(c, time, i > 1, SubCas(i), eku) = "Ok" <=>
               /\ Reference!Current(c, time)
               /\ Reference!RoleAllowed(c, i)
               /\ Reference!PurposeAllowed(c, eku)
  BY CurrentMeans, RoleMeans, PurposeMeans DEF check_issuer_independent_properties, ??

LEMMA VerifiesMeans ==
    ASSUME NEW algs, IsSeq(algs), NEW spki, NEW signed
    PROVE  verify_signed_data(algs, spki, signed) = "Ok" <=>
               Reference!Verifies(algs, spki, signed)
<1> DEFINE fits(alg) == alg.signature_alg = signed.algorithm
           v(alg) == verify_signature(alg, spki, signed)
           decides(alg) == fits(alg) /\ v(alg) # "UnsupportedSignatureAlgorithmForPublicKey"
           I == {i \in 1..Len(algs) : decides(algs[i])}
           k == SelectInSeq(algs, decides)
<1>1. Len(algs) \in Nat /\ DOMAIN algs = 1..Len(algs)
  BY ListFacts
<1>2. k = IF I # {} THEN Min(I) ELSE 0
  BY DEF SelectInSeq
<1>3. verify_signed_data(algs, spki, signed) = "Ok" <=> k # 0 /\ v(algs[k]) = "Ok"
  BY DEF verify_signed_data
<1>4. Reference!Verifies(algs, spki, signed) <=>
          /\ spki.result = "Ok" /\ signed.signer = spki.value.key
          /\ \E i \in 1..Len(algs) : /\ fits(algs[i])
                                     /\ algs[i].public_key_alg = spki.value.algorithm
  BY <1>1, ReferenceTerms DEF Reference!Verifies
<1>5. \A alg : /\ v(alg) = "Ok" <=> /\ spki.result = "Ok" /\ signed.signer = spki.value.key
                                    /\ alg.public_key_alg = spki.value.algorithm
               /\ spki.result = "Ok" =>
                     (v(alg) # "UnsupportedSignatureAlgorithmForPublicKey" <=>
                         alg.public_key_alg = spki.value.algorithm)
  BY DEF verify_signature, crypto_verify, Require, ??
<1>6. I \in SUBSET (1..Len(algs)) /\ \A i : i \in I <=> i \in 1..Len(algs) /\ decides(algs[i])
  OBVIOUS
<1> HIDE DEF I, k, v, fits
<1>7. /\ k = 0 => I = {}
      /\ k # 0 => k \in I
      /\ I # {} => k # 0
  BY <1>1, <1>2, <1>6, SelectedIsFirst
<1> QED
  BY <1>3, <1>4, <1>5, <1>6, <1>7

-----------------------------------------------------------------------------
(* Revocation.                                                             *)

LEMMA UrisMeans ==
    ASSUME NEW names, IsSeq(names)
    PROVE  \A u : u \in Reference!UrisOf(names) <=>
                      \E n \in DOMAIN names : names_uri(names[n], u)
<1>1. \A u : u \in Reference!UrisOf(names) <=>
          \E n \in DOMAIN names : /\ names[n].result = "Ok" /\ names[n].value.type = "Uri"
                                  /\ u = names[n].value.value
  BY ReferenceTerms DEF Reference!UrisOf
<1> QED
  BY <1>1 DEF names_uri, IsUri

\* The URI of a CRL is the first one it has.
LEMMA FirstUriMeans ==
    ASSUME NEW names, IsSeq(names), Reference!OneUri(names), NEW u
    PROVE  u \in Reference!UrisOf(names) <=>
               first_uri(names) # 0 /\ u = names[first_uri(names)].value.value
<1> DEFINE I == {i \in 1..Len(names) : IsUri(names[i])}
           k == first_uri(names)
<1>1. Len(names) \in Nat /\ DOMAIN names = 1..Len(names)
  BY ListFacts
<1>2. k = IF I # {} THEN Min(I) ELSE 0
  BY DEF first_uri, SelectInSeq
<1>3. I \in SUBSET (1..Len(names)) /\ \A i : i \in I <=> i \in DOMAIN names /\ IsUri(names[i])
  BY <1>1
<1>4. \A i, j : i \in I /\ j \in I => i = j
  BY <1>3, ReferenceTerms DEF Reference!OneUri, IsUri
<1> HIDE DEF I, k
<1>5. /\ k = 0 => I = {}
      /\ k # 0 => k \in I
  BY <1>1, <1>2, <1>3, SelectedIsFirst
<1>6. u \in Reference!UrisOf(names) <=> \E n \in I : u = names[n].value.value
  BY <1>3, UrisMeans DEF names_uri
<1> QED
  BY <1>4, <1>5, <1>6 DEF k

LEMMA PlainMeans ==
    ASSUME NEW dp PROVE Reference!PlainPoint(dp) <=> usable_dp(dp)
  BY ReferenceTerms DEF Reference!PlainPoint, usable_dp

\* A certificate with distribution points.
LEMMA PointsMean ==
    ASSUME NEW dps, Reference!RegularPoints(dps),
           NEW names, IsSeq(names), Reference!OneUri(names)
    PROVE  (\E k \in DOMAIN dps :
               /\ \A j \in 1..k : Reference!PlainPoint(dps[j])
               /\ Reference!UrisOf(The(dps[k].value.full_name)) \cap Reference!UrisOf(names) # {})
           <=>
           /\ dps # << >> /\ usable_dp(dps[1]) /\ first_uri(names) # 0
           /\ \E n \in DOMAIN The(dps[1].value.full_name) :
                  names_uri(The(dps[1].value.full_name)[n], names[first_uri(names)].value.value)
<1> DEFINE list == The(dps[1].value.full_name)
           u == names[first_uri(names)].value.value
           shared(k) == Reference!UrisOf(The(dps[k].value.full_name))
                            \cap Reference!UrisOf(names) # {}
<1>1. IsSeq(dps) /\ \A k \in DOMAIN dps : k > 1 => ~usable_dp(dps[k])
  BY ReferenceTerms, PlainMeans DEF Reference!RegularPoints
<1>2. /\ Len(dps) \in Nat /\ DOMAIN dps = 1..Len(dps) /\ (dps = << >> <=> Len(dps) = 0)
  BY <1>1, ListFacts
<1>3. dps # << >> <=> 1 \in DOMAIN dps
  BY <1>2
<1>4. \A k \in DOMAIN dps : (\A j \in 1..k : Reference!PlainPoint(dps[j])) => k = 1
  <2>1. \A k \in DOMAIN dps : k \in 1..k /\ (k = 1 \/ k > 1)
    BY <1>2
  <2> QED
    BY <1>1, <2>1, PlainMeans
<1>5. \A j : j \in 1..1 <=> j = 1
  OBVIOUS
<1>6. ASSUME 1 \in DOMAIN dps, usable_dp(dps[1])
      PROVE  shared(1) <=> /\ first_uri(names) # 0
                           /\ \E n \in DOMAIN list : names_uri(list[n], u)
  <2>1. IsSeq(list)
    BY <1>6, ReferenceTerms, PlainMeans DEF Reference!RegularPoints
  <2>2. \A x : x \in Reference!UrisOf(list) <=> \E n \in DOMAIN list : names_uri(list[n], x)
    BY <2>1, UrisMeans
  <2>3. \A x : x \in Reference!UrisOf(names) <=> first_uri(names) # 0 /\ x = u
    BY FirstUriMeans
  <2> HIDE DEF list, u
  <2>4. shared(1) <=> \E x : x \in Reference!UrisOf(list) /\ x \in Reference!UrisOf(names)
    BY DEF list
  <2> HIDE DEF shared
  <2> QED
    BY <2>2, <2>3, <2>4
<1> HIDE DEF list, u, shared
<1>7. (\E k \in DOMAIN dps : (\A j \in 1..k : Reference!PlainPoint(dps[j])) /\ shared(k)) <=>
          1 \in DOMAIN dps /\ usable_dp(dps[1]) /\ shared(1)
  BY <1>4, <1>5, PlainMeans
<1> QED
  BY <1>3, <1>6, <1>7 DEF shared, list, u

LEMMA CoversMeans ==
    ASSUME NEW crl, Reference!RegularCrl(crl), NEW c, Reference!RegularCert(c),
           NEW is_ca \in BOOLEAN
    PROVE  crl_authoritative(crl, c, is_ca) <=> Reference!Covers(crl, c, is_ca)
<1> DEFINE idp == The(crl.issuing_distribution_point)
           dps == The(c.crl_distribution_points)
           fits == \E k \in DOMAIN dps :
                      /\ \A j \in 1..k : Reference!PlainPoint(dps[j])
                      /\ Reference!UrisOf(The(dps[k].value.full_name))
                             \cap Reference!UrisOf(idp.names) # {}
           first == /\ dps # << >> /\ usable_dp(dps[1]) /\ first_uri(idp.names) # 0
                    /\ \E n \in DOMAIN The(dps[1].value.full_name) :
                           names_uri(The(dps[1].value.full_name)[n],
                                     idp.names[first_uri(idp.names)].value.value)
<1>1. Reference!Covers(crl, c, is_ca) <=>
          /\ crl.issuer = c.issuer
          /\ IsSome(crl.issuing_distribution_point) =>
                 ~(IF is_ca THEN idp.only_contains_user_certs ELSE idp.only_contains_ca_certs)
          /\ IsSome(c.crl_distribution_points) =>
                 IsSome(crl.issuing_distribution_point) /\ fits
  BY ReferenceTerms, Zenon DEF Reference!Covers
<1>2. crl_authoritative(crl, c, is_ca) <=>
          /\ crl.issuer = c.issuer
          /\ IF IsSome(crl.issuing_distribution_point)
             THEN scope_includes(idp, is_ca) /\ (IsSome(c.crl_distribution_points) => first)
             ELSE ~IsSome(c.crl_distribution_points)
  BY Zenon DEF crl_authoritative, authoritative_for
<1>3. scope_includes(idp, is_ca) <=>
          ~(IF is_ca THEN idp.only_contains_user_certs ELSE idp.only_contains_ca_certs)
  BY DEF scope_includes
<1>4. ASSUME IsSome(crl.issuing_distribution_point), IsSome(c.crl_distribution_points)
      PROVE  fits <=> first
  <2>1. Reference!RegularPoints(dps)
    BY <1>4, ReferenceTerms DEF Reference!RegularCert
  <2>2. IsSeq(idp.names) /\ Reference!OneUri(idp.names)
    BY <1>4, ReferenceTerms DEF Reference!RegularCrl
  <2> HIDE DEF idp, dps
  <2> QED
    BY <2>1, <2>2, PointsMean
<1> HIDE DEF fits, first
<1> QED
  BY <1>1, <1>2, <1>3, <1>4

\* What the CRL says.
LEMMA ClearsMeans ==
    ASSUME NEW algs, IsSeq(algs), NEW crl, Reference!RegularCrl(crl), AllResults(crl.revoked),
           NEW c, NEW spki, NEW ku
    PROVE  consult_crl(algs, crl, c, spki, ku) = "Ok" <=>
               Reference!Clears(algs, crl, c, spki, ku)
<1> DEFINE s == crl.revoked
           stops(entry) == entry.result # "Ok" \/ entry.value = c.serial
           I == {i \in 1..Len(s) : stops(s[i])}
           k == SelectInSeq(s, stops)
           found == find_serial(crl, c.serial)
           v == verify_signed_data(algs, spki, crl.signed_data)
<1>1. IsSeq(s)
  BY ReferenceTerms DEF Reference!RegularCrl
<1>2. Len(s) \in Nat /\ DOMAIN s = 1..Len(s)
  BY <1>1, ListFacts
<1>3. k = IF I # {} THEN Min(I) ELSE 0
  BY DEF SelectInSeq
<1>4. I \in SUBSET (1..Len(s)) /\ \A i : i \in I <=> i \in 1..Len(s) /\ stops(s[i])
  OBVIOUS
<1>5. found = IF k = 0 THEN Ok(FALSE) ELSE IF s[k].result # "Ok" THEN s[k] ELSE Ok(TRUE)
  BY DEF find_serial
<1>6. Reference!Clears(algs, crl, c, spki, ku) <=>
          /\ Reference!Verifies(algs, spki, crl.signed_data)
          /\ IsSome(ku) => The(ku).result = "Ok" /\ 6 \in The(ku).value
          /\ \A i \in 1..Len(s) : ~stops(s[i])
  BY <1>2, ReferenceTerms DEF Reference!Clears
<1> HIDE DEF I, k, found
<1>7. (k = 0 => I = {}) /\ (k # 0 => k \in I)
  BY <1>2, <1>3, <1>4, SelectedIsFirst
<1>8. found.result = "Ok" /\ ~found.value <=> I = {}
  BY <1>4, <1>5, <1>7 DEF Ok
<1>9. check_key_usage(ku) = "Ok" <=> (IsSome(ku) => The(ku).result = "Ok" /\ 6 \in The(ku).value)
  BY DEF check_key_usage, CrlSign, Require, ??
<1>10. crl_signature_err(v) = "Ok" <=> v = "Ok"
  BY DEF crl_signature_err
<1>11. v = "Ok" <=> Reference!Verifies(algs, spki, crl.signed_data)
  BY VerifiesMeans
<1> HIDE DEF v
<1>12. consult_crl(algs, crl, c, spki, ku) = "Ok" <=>
           /\ crl_signature_err(v) = "Ok" /\ check_key_usage(ku) = "Ok"
           /\ found.result = "Ok" /\ ~found.value
  BY DEF consult_crl, found, v, Require, ??
<1> QED
  BY <1>4, <1>6, <1>8, <1>9, <1>10, <1>11, <1>12

LEMMA RevocationMeans ==
    ASSUME NEW in, InputWellFormed(in), Reference!Regular(in),
           NEW c, Reference!RegularCert(c), NEW is_ca \in BOOLEAN, NEW spki, NEW ku
    PROVE  (IF IsSome(in.revocation)
            THEN check_crls(in.supported_sig_algs, c, is_ca, spki, ku, The(in.revocation))
            ELSE "Ok") = "Ok" <=> Reference!NotRevoked(in, c, is_ca, spki, ku)
<1> DEFINE options == The(in.revocation)
           crls == options.crls
           algs == in.supported_sig_algs
           test(crl) == crl_authoritative(crl, c, is_ca)
           I == {i \in 1..Len(crls) : test(crls[i])}
           k == SelectInSeq(crls, test)
           covering == {i \in DOMAIN crls : Reference!Covers(crls[i], c, is_ca)}
<1>1. Reference!NotRevoked(in, c, is_ca, spki, ku) <=>
          \/ ~IsSome(in.revocation)
          \/ options.depth = "EndEntity" /\ is_ca
          \/ covering = {} /\ options.status_requirement = "Allow"
          \/ covering # {} /\ Reference!Clears(algs, crls[Min(covering)], c, spki, ku)
  BY ReferenceTerms, Zenon DEF Reference!NotRevoked
<1>2. CASE ~IsSome(in.revocation)
  BY <1>1, <1>2
<1>3. CASE IsSome(in.revocation)
  <2>1. IsSeq(crls) /\ IsSeq(algs) /\ \A i \in DOMAIN crls : Reference!RegularCrl(crls[i])
    BY <1>3, ReferenceTerms DEF Reference!Regular
  <2>2. Len(crls) \in Nat /\ DOMAIN crls = 1..Len(crls)
    BY <2>1, ListFacts
  <2>3. \A i \in 1..Len(crls) : AllResults(crls[i].revoked)
    BY <1>3 DEF InputWellFormed
  <2>4. check_crls(algs, c, is_ca, spki, ku, options) =
            IF options.depth = "EndEntity" /\ is_ca THEN "Ok"
            ELSE IF k = 0 THEN Require(options.status_requirement = "Allow",
                                       "UnknownRevocationStatus")
            ELSE consult_crl(algs, crls[k], c, spki, ku)
    BY DEF check_crls
  <2>5. k = IF I # {} THEN Min(I) ELSE 0
    BY DEF SelectInSeq
  <2>6. I = covering
    BY <2>1, <2>2, CoversMeans
  <2>7. I \in SUBSET (1..Len(crls))
    OBVIOUS
  <2> HIDE DEF I, k, covering, crls, algs, options
  <2>8. /\ k = 0 => I = {}
        /\ k # 0 => k \in I
        /\ I # {} => k # 0
    BY <2>2, <2>5, <2>7, SelectedIsFirst
  <2>9. k # 0 => (consult_crl(algs, crls[k], c, spki, ku) = "Ok" <=>
                      Reference!Clears(algs, crls[k], c, spki, ku))
    BY <2>1, <2>2, <2>3, <2>7, <2>8, ClearsMeans
  <2>10. k # 0 => k = Min(covering) /\ covering # {}
    BY <2>5, <2>6, <2>8
  <2>11. k = 0 => covering = {}
    BY <2>6, <2>8
  <2>12. check_crls(algs, c, is_ca, spki, ku, options) = "Ok" <=>
             Reference!NotRevoked(in, c, is_ca, spki, ku)
    BY <1>1, <1>3, <2>4, <2>9, <2>10, <2>11 DEF Require
  <2> QED
    BY <1>3, <2>12 DEF algs, options
<1> QED
  BY <1>2, <1>3

\* The signature of a certificate and its revocation status.
LEMMA SignatureMeans ==
    ASSUME NEW in, InputWellFormed(in), Reference!Regular(in),
           NEW chain, NEW anchor, NEW i \in Nat \ {0}, Reference!RegularCert(chain[i])
    PROVE  LET spki == issuer_spki(chain, anchor, i)
           IN  signature_verdict(in, chain, anchor, i) = "Ok" <=>
                   /\ Reference!Verifies(in.supported_sig_algs, spki, chain[i].signed_data)
                   /\ Reference!NotRevoked(in, chain[i], i > 1, spki,
                                           issuer_key_usage(chain, i))
<1> DEFINE spki == issuer_spki(chain, anchor, i)
           ku == issuer_key_usage(chain, i)
           r == IF IsSome(in.revocation)
                THEN check_crls(in.supported_sig_algs, chain[i], i > 1, spki, ku,
                                The(in.revocation))
                ELSE "Ok"
           v == verify_signed_data(in.supported_sig_algs, spki, chain[i].signed_data)
<1>1. signature_verdict(in, chain, anchor, i) = v ?? r
  BY DEF signature_verdict, used_as_ca
<1>2. IsSeq(in.supported_sig_algs) /\ (i > 1) \in BOOLEAN
  BY ReferenceTerms DEF Reference!Regular
<1> HIDE DEF spki, ku
<1>3. r = "Ok" <=> Reference!NotRevoked(in, chain[i], i > 1, spki, ku)
  BY <1>2, RevocationMeans
<1>4. v = "Ok" <=> Reference!Verifies(in.supported_sig_algs, spki, chain[i].signed_data)
  BY <1>2, VerifiesMeans
<1> HIDE DEF r, v
<1>5. v ?? r = "Ok" <=> v = "Ok" /\ r = "Ok"
  BY DEF ??
<1> QED
  BY <1>1, <1>3, <1>4, <1>5 DEF spki, ku

-----------------------------------------------------------------------------
(* Names.                                                                  *)

LEMMA IsSeqWider ==
    ASSUME NEW s, IsSeq(s), NEW T, \A i \in DOMAIN s : s[i] \in T
    PROVE  s \in Seq(T)
<1>1. Len(s) \in Nat /\ DOMAIN s = 1..Len(s) /\ s = [i \in 1..Len(s) |-> s[i]]
  BY DEF IsSeq
<1> QED
  BY <1>1

LEMMA Appended ==
    ASSUME NEW T, NEW s \in Seq(T), NEW d \in Seq(T)
    PROVE  /\ s \o d \in Seq(T) /\ Len(s \o d) = Len(s) + Len(d)
           /\ \A i \in 1..(Len(s) + Len(d)) :
                  (s \o d)[i] = IF i <= Len(s) THEN s[i] ELSE d[i - Len(s)]
  OBVIOUS

\* Labels added on the left.
LEMMA AddsMeans ==
    ASSUME NEW a, IsSeq(a), NEW d, IsSeq(d), NEW k \in Nat
    PROVE  (\E f \in [1..k -> Reference!Range(a)] : a = f \o d) <=>
               Len(a) = k + Len(d) /\ LastLabels(a, Len(d)) = d
<1> DEFINE T == {a[i] : i \in DOMAIN a} \cup {d[i] : i \in DOMAIN d}
           M == Len(d)
<1>1. a \in Seq(T) /\ d \in Seq(T)
  BY IsSeqWider
<1>2. Reference!Range(a) = {a[i] : i \in DOMAIN a} /\ Reference!Range(a) \subseteq T
  BY ReferenceTerms
<1> HIDE DEF T
<1>3. /\ Len(a) \in Nat /\ M \in Nat /\ DOMAIN a = 1..Len(a) /\ DOMAIN d = 1..M
      /\ a = [i \in 1..Len(a) |-> a[i]] /\ d = [i \in 1..M |-> d[i]]
  BY <1>1
<1>4. \A f \in [1..k -> T] : /\ f \o d \in Seq(T) /\ Len(f \o d) = k + M
                             /\ \A i \in 1..k : (f \o d)[i] = f[i]
                             /\ \A i \in 1..M : (f \o d)[k + i] = d[i]
  <2> TAKE f \in [1..k -> T]
  <2>1. f \in Seq(T) /\ Len(f) = k
    BY SeqOfFunction
  <2>2. /\ f \o d \in Seq(T) /\ Len(f \o d) = k + M
        /\ \A i \in 1..(k + M) : (f \o d)[i] = IF i <= k THEN f[i] ELSE d[i - k]
    BY <1>1, <2>1, Appended, Zenon
  <2>3. \A i \in 1..k : i \in 1..(k + M) /\ i <= k
    BY <1>3
  <2>4. \A i \in 1..M : k + i \in 1..(k + M) /\ ~(k + i <= k) /\ (k + i) - k = i
    BY <1>3
  <2> QED
    BY <2>2, <2>3, <2>4
<1>5. ASSUME NEW f \in [1..k -> Reference!Range(a)], a = f \o d
      PROVE  Len(a) = k + M /\ LastLabels(a, M) = d
  <2>1. f \in [1..k -> T]
    BY <1>2
  <2>2. Len(a) = k + M /\ \A i \in 1..M : a[k + i] = d[i]
    BY <1>4, <1>5, <2>1
  <2>3. Len(a) - M = k
    BY <1>3, <2>2
  <2>4. LastLabels(a, M) = [i \in 1..M |-> d[i]]
    BY <2>2, <2>3 DEF LastLabels
  <2> QED
    BY <1>3, <2>2, <2>4
<1>6. ASSUME Len(a) = k + M, LastLabels(a, M) = d
      PROVE  \E f \in [1..k -> Reference!Range(a)] : a = f \o d
  <2> DEFINE f == [i \in 1..k |-> a[i]]
  <2>1. \A i \in 1..k : i \in DOMAIN a
    BY <1>3, <1>6
  <2>2. f \in [1..k -> Reference!Range(a)] /\ f \in [1..k -> T] /\ \A i \in 1..k : f[i] = a[i]
    BY <1>2, <2>1
  <2>3. \A i \in 1..M : d[i] = a[k + i]
    <3>1. Len(a) - M = k
      BY <1>3, <1>6
    <3> QED
      BY <1>6, <3>1 DEF LastLabels
  <2> HIDE DEF f
  <2>4. /\ f \o d \in Seq(T) /\ Len(f \o d) = Len(a)
        /\ \A i \in 1..k : (f \o d)[i] = a[i]
        /\ \A i \in 1..M : (f \o d)[k + i] = a[k + i]
    BY <1>4, <1>6, <2>2, <2>3
  <2>5. \A i \in 1..Len(a) : i \in 1..k \/ (i - k \in 1..M /\ k + (i - k) = i)
    BY <1>3, <1>6
  <2>6. \A i \in 1..Len(a) : (f \o d)[i] = a[i]
    BY <2>4, <2>5
  <2>7. f \o d = [i \in 1..Len(a) |-> (f \o d)[i]]
    <3> DEFINE e == f \o d
    <3> HIDE DEF e
    <3>1. e \in Seq(T) /\ Len(e) = Len(a)
      BY <2>4 DEF e
    <3>2. e = [i \in 1..Len(a) |-> e[i]]
      BY <3>1
    <3> QED
      BY <3>2, Zenon DEF e
  <2>8. a = f \o d
    BY <1>3, <2>6, <2>7
  <2> QED
    BY <2>2, <2>8
<1> QED
  BY <1>5, <1>6

\* A label put before the rest of another name.
LEMMA ReplacedLabel ==
    ASSUME NEW a, IsSeq(a), NEW d, IsSeq(d), a # << >>
    PROVE  (\E l \in Reference!Range(d) : d = << l >> \o Tail(a)) <=>
               /\ Len(d) = Len(a)
               /\ LastLabels(a, Len(a) - 1) = LastLabels(d, Len(a) - 1)
<1> DEFINE T == {a[i] : i \in DOMAIN a} \cup {d[i] : i \in DOMAIN d}
           N == Len(a)
           t == Tail(a)
<1>1. a \in Seq(T) /\ d \in Seq(T)
  BY IsSeqWider
<1>2. Reference!Range(d) = {d[i] : i \in DOMAIN d} /\ Reference!Range(d) \subseteq T
  BY ReferenceTerms
<1> HIDE DEF T
<1>3. /\ N \in Nat \ {0} /\ Len(d) \in Nat /\ DOMAIN d = 1..Len(d)
      /\ d = [i \in 1..Len(d) |-> d[i]]
  BY <1>1
<1>4. t \in Seq(T) /\ Len(t) = N - 1 /\ \A i \in 1..(N - 1) : t[i] = a[i + 1]
  BY <1>1, <1>3
<1> HIDE DEF t
<1>5. \A l \in T : /\ << l >> \o t \in Seq(T) /\ Len(<< l >> \o t) = N
                   /\ (<< l >> \o t)[1] = l
                   /\ \A i \in 1..(N - 1) : (<< l >> \o t)[i + 1] = t[i]
  <2> TAKE l \in T
  <2>1. << l >> \in Seq(T) /\ Len(<< l >>) = 1 /\ << l >>[1] = l
    OBVIOUS
  <2> DEFINE p == << l >>
  <2> HIDE DEF p
  <2>2. /\ p \o t \in Seq(T) /\ Len(p \o t) = N
        /\ \A i \in 1..N : (p \o t)[i] = IF i <= 1 THEN p[i] ELSE t[i - 1]
    BY <1>3, <1>4, <2>1 DEF p
  <2>3. 1 \in 1..N /\ \A i \in 1..(N - 1) : i + 1 \in 1..N /\ ~(i + 1 <= 1) /\ (i + 1) - 1 = i
    BY <1>3
  <2> QED
    BY <2>1, <2>2, <2>3 DEF p
<1>6. \A s : Len(s) = N => LastLabels(s, N - 1) = [i \in 1..(N - 1) |-> s[i + 1]]
  <2>1. \A i \in 1..(N - 1) : N - (N - 1) + i = i + 1
    BY <1>3
  <2> QED
    BY <2>1 DEF LastLabels
<1>7. ASSUME NEW l \in Reference!Range(d), d = << l >> \o t
      PROVE  Len(d) = N /\ LastLabels(a, N - 1) = LastLabels(d, N - 1)
  <2>1. Len(d) = N /\ \A i \in 1..(N - 1) : d[i + 1] = a[i + 1]
    BY <1>2, <1>4, <1>5, <1>7
  <2> QED
    BY <1>6, <2>1
<1>8. ASSUME Len(d) = N, LastLabels(a, N - 1) = LastLabels(d, N - 1)
      PROVE  \E l \in Reference!Range(d) : d = << l >> \o t
  <2>1. \A i \in 1..(N - 1) : d[i + 1] = t[i]
    <3>1. [i \in 1..(N - 1) |-> a[i + 1]] = [i \in 1..(N - 1) |-> d[i + 1]]
      BY <1>6, <1>8
    <3>2. \A i \in 1..(N - 1) : a[i + 1] = d[i + 1]
      BY <3>1
    <3> QED
      BY <1>4, <3>2
  <2>2. 1 \in DOMAIN d /\ d[1] \in Reference!Range(d) /\ d[1] \in T
    BY <1>2, <1>3, <1>8
  <2> DEFINE e == << d[1] >> \o t
  <2>3. e \in Seq(T) /\ Len(e) = N /\ e[1] = d[1] /\ \A i \in 1..(N - 1) : e[i + 1] = d[i + 1]
    BY <1>5, <2>1, <2>2
  <2> HIDE DEF e
  <2>4. \A i \in 1..N : i = 1 \/ (i - 1 \in 1..(N - 1) /\ (i - 1) + 1 = i)
    BY <1>3
  <2>5. \A i \in 1..N : e[i] = d[i]
    BY <2>3, <2>4
  <2>6. e = [i \in 1..N |-> e[i]]
    BY <2>3
  <2>7. d = e
    BY <1>3, <1>8, <2>5, <2>6
  <2> QED
    BY <2>2, <2>7 DEF e
<1> QED
  BY <1>7, <1>8 DEF t

LEMMA DnsMeans ==
    ASSUME NEW n, IsSeq(n.labels), NEW b, IsSeq(b.labels)
    PROVE  /\ dns_matches_constraint(n, b).result = "Ok" <=> n.valid /\ b.valid
           /\ n.valid /\ b.valid =>
                  (dns_matches_constraint(n, b).value <=> Reference!DnsSatisfies(n, b))
<1> DEFINE a == n.labels
           d == b.labels
           below == Len(a) > Len(d) /\ LastLabels(a, Len(d)) = d
           equal == ~b.leading_dot /\ a = d
           wild == /\ Len(a) = Len(d) /\ Len(a) > 0 /\ a[1] = Wildcard
                   /\ LastLabels(a, Len(a) - 1) = LastLabels(d, Len(a) - 1)
           adds(k) == \E f \in [1..k -> Reference!Range(a)] : a = f \o d
           swap == \E l \in Reference!Range(d) : d = << l >> \o Tail(a)
<1>1. dns_matches_constraint(n, b) =
          IF ~n.valid THEN Err("MalformedDnsIdentifier")
          ELSE IF ~b.valid THEN Err("MalformedNameConstraint")
          ELSE Ok(below \/ equal \/ wild)
  BY Zenon DEF dns_matches_constraint
<1>2. Reference!DnsSatisfies(n, b) <=>
          \/ \E k \in 1..Len(a) : adds(k)
          \/ ~b.leading_dot /\ adds(0)
          \/ a # << >> /\ a[1] = Wildcard /\ swap
  BY Zenon DEF Reference!DnsSatisfies
<1>3. /\ Len(a) \in Nat /\ DOMAIN a = 1..Len(a) /\ (a = << >> <=> Len(a) = 0)
      /\ Len(d) \in Nat /\ DOMAIN d = 1..Len(d)
      /\ a = [i \in 1..Len(a) |-> a[i]] /\ d = [i \in 1..Len(d) |-> d[i]]
  BY ListFacts DEF IsSeq
<1>4. \A k \in Nat : adds(k) <=> Len(a) = k + Len(d) /\ LastLabels(a, Len(d)) = d
  BY AddsMeans
<1>5. a # << >> => (swap <=> /\ Len(d) = Len(a)
                             /\ LastLabels(a, Len(a) - 1) = LastLabels(d, Len(a) - 1))
  BY ReplacedLabel
<1>6. Len(a) = Len(d) => LastLabels(a, Len(d)) = a
  <2>1. ASSUME Len(a) = Len(d) PROVE LastLabels(a, Len(d)) = [i \in 1..Len(a) |-> a[i]]
    <3>1. \A i \in 1..Len(d) : Len(a) - Len(d) + i = i
      BY <1>3, <2>1
    <3> QED
      BY <2>1, <3>1 DEF LastLabels
  <2> QED
    BY <1>3, <2>1
<1> HIDE DEF a, d, adds, swap
<1>7. (\E k \in 1..Len(a) : adds(k)) <=> below
  <2>1. \A k \in 1..Len(a) : k \in Nat /\ (Len(a) = k + Len(d) => Len(a) > Len(d))
    BY <1>3
  <2>2. Len(a) > Len(d) => /\ Len(a) - Len(d) \in 1..Len(a)
                           /\ Len(a) = (Len(a) - Len(d)) + Len(d)
    BY <1>3
  <2> QED
    BY <1>4, <2>1, <2>2
<1>8. adds(0) <=> a = d
  <2>1. 0 \in Nat /\ 0 + Len(d) = Len(d)
    BY <1>3
  <2>2. adds(0) <=> Len(a) = Len(d) /\ LastLabels(a, Len(d)) = d
    BY <1>4, <2>1
  <2> QED
    BY <1>6, <2>2
<1>9. (a # << >> /\ a[1] = Wildcard /\ swap) <=> wild
  <2>1. a # << >> <=> Len(a) > 0
    BY <1>3
  <2> QED
    BY <1>5, <2>1
<1> HIDE DEF below, equal, wild
<1>10. Reference!DnsSatisfies(n, b) <=> below \/ equal \/ wild
  BY <1>2, <1>7, <1>8, <1>9 DEF equal
<1>11. \A v : Ok(v).result = "Ok" /\ Ok(v).value = v
  BY DEF Ok
<1>12. n.valid /\ b.valid =>
           /\ dns_matches_constraint(n, b).result = "Ok"
           /\ dns_matches_constraint(n, b).value = (below \/ equal \/ wild)
  BY <1>1, <1>11, Zenon
<1>13. ~(n.valid /\ b.valid) => dns_matches_constraint(n, b).result # "Ok"
  BY <1>1 DEF Err
<1> QED
  BY <1>10, <1>12, <1>13, Zenon

-----------------------------------------------------------------------------
(* Addresses.                                                              *)

Bit(x, k)  == Reference!Bits(x)[k]
Quot(x, p) == x \div p
Odd(x)     == x % 2

LEMMA HalfOf ==
    ASSUME NEW y \in Int
    PROVE  y = 2 * Quot(y, 2) + Odd(y) /\ Quot(y, 2) \in Int /\ Odd(y) \in {0, 1}
<1>1. Odd(y) = y - 2 * Quot(y, 2) /\ Quot(y, 2) \in Int /\ Odd(y) \in {0, 1}
  BY DEF Quot, Odd
<1> QED
  BY <1>1

\* Every bit doubles what the bits before it make.
Doubled(x) ==
    /\ Quot(x, 256) = 0 /\ Quot(x, 1) = x
    /\ Quot(x, 128) = 2 * Quot(x, 256) + Bit(x, 1)
    /\ Quot(x, 64) = 2 * Quot(x, 128) + Bit(x, 2)
    /\ Quot(x, 32) = 2 * Quot(x, 64) + Bit(x, 3)
    /\ Quot(x, 16) = 2 * Quot(x, 32) + Bit(x, 4)
    /\ Quot(x, 8) = 2 * Quot(x, 16) + Bit(x, 5)
    /\ Quot(x, 4) = 2 * Quot(x, 8) + Bit(x, 6)
    /\ Quot(x, 2) = 2 * Quot(x, 4) + Bit(x, 7)
    /\ Quot(x, 1) = 2 * Quot(x, 2) + Bit(x, 8)

Whole(x) == \A p \in {1, 2, 4, 8, 16, 32, 64, 128, 256} : Quot(x, p) \in Int

LEMMA Doubling ==
    ASSUME NEW x \in 0..255
    PROVE  /\ Doubled(x) /\ Whole(x)
           /\ \A k \in 1..8 : Bit(x, k) \in {0, 1}
<1>1. \A p \in {1, 2, 4, 8, 16, 32, 64, 128, 256} : Quot(x, p) \in Int
  BY DEF Quot
<1>2. /\ Quot(x, 256) = 0 /\ Quot(x, 1) = x
      /\ Quot(x, 256) = Quot(Quot(x, 128), 2) /\ Quot(x, 128) = Quot(Quot(x, 64), 2)
      /\ Quot(x, 64) = Quot(Quot(x, 32), 2) /\ Quot(x, 32) = Quot(Quot(x, 16), 2)
      /\ Quot(x, 16) = Quot(Quot(x, 8), 2) /\ Quot(x, 8) = Quot(Quot(x, 4), 2)
      /\ Quot(x, 4) = Quot(Quot(x, 2), 2) /\ Quot(x, 2) = Quot(Quot(x, 1), 2)
  BY DEF Quot
<1>3. /\ Bit(x, 1) = Odd(Quot(x, 128)) /\ Bit(x, 2) = Odd(Quot(x, 64))
      /\ Bit(x, 3) = Odd(Quot(x, 32)) /\ Bit(x, 4) = Odd(Quot(x, 16))
      /\ Bit(x, 5) = Odd(Quot(x, 8)) /\ Bit(x, 6) = Odd(Quot(x, 4))
      /\ Bit(x, 7) = Odd(Quot(x, 2)) /\ Bit(x, 8) = Odd(Quot(x, 1))
  BY DEF Bit, Reference!Bits, Quot, Odd
<1>4. \A k \in 1..8 : k \in {1, 2, 3, 4, 5, 6, 7, 8}
  OBVIOUS
<1>5. \A k \in 1..8 : Bit(x, k) \in {0, 1}
  BY <1>1, <1>3, <1>4, HalfOf
<1>6. Doubled(x)
  BY <1>1, <1>2, <1>3, HalfOf DEF Doubled
<1> QED
  BY <1>1, <1>5, <1>6 DEF Whole

\* An octet is made of its bits.
LEMMA SumOfBits ==
    ASSUME NEW m \in 0..255
    PROVE  m = 128 * Bit(m, 1) + 64 * Bit(m, 2) + 32 * Bit(m, 3) + 16 * Bit(m, 4)
               + 8 * Bit(m, 5) + 4 * Bit(m, 6) + 2 * Bit(m, 7) + Bit(m, 8)
<1>1. Doubled(m)
  BY Doubling, Zenon
<1>2. \A k \in 1..8 : Bit(m, k) \in Int
  <2>1. \A k \in 1..8 : Bit(m, k) \in {0, 1}
    BY Doubling, Zenon
  <2> QED
    BY <2>1
<1>3. /\ Bit(m, 1) \in Int /\ Bit(m, 2) \in Int /\ Bit(m, 3) \in Int /\ Bit(m, 4) \in Int
      /\ Bit(m, 5) \in Int /\ Bit(m, 6) \in Int /\ Bit(m, 7) \in Int /\ Bit(m, 8) \in Int
  BY <1>2
<1> QED
  BY <1>1, <1>3 DEF Doubled

\* As many ones as t says, from the left.
Ones(m, t) == \A k \in 1..8 : Bit(m, k) = IF k <= t THEN 1 ELSE 0

\* The octets of a mask.
LEMMA MaskOctets ==
    ASSUME NEW m \in 0..255, NEW t \in Int, Ones(m, t)
    PROVE  \/ (t <= 0 /\ m = 0) \/ (t = 1 /\ m = 128) \/ (t = 2 /\ m = 192)
           \/ (t = 3 /\ m = 224) \/ (t = 4 /\ m = 240) \/ (t = 5 /\ m = 248)
           \/ (t = 6 /\ m = 252) \/ (t = 7 /\ m = 254) \/ (t >= 8 /\ m = 255)
<1>1. /\ Bit(m, 1) = IF 1 <= t THEN 1 ELSE 0
      /\ Bit(m, 2) = IF 2 <= t THEN 1 ELSE 0
      /\ Bit(m, 3) = IF 3 <= t THEN 1 ELSE 0
      /\ Bit(m, 4) = IF 4 <= t THEN 1 ELSE 0
      /\ Bit(m, 5) = IF 5 <= t THEN 1 ELSE 0
      /\ Bit(m, 6) = IF 6 <= t THEN 1 ELSE 0
      /\ Bit(m, 7) = IF 7 <= t THEN 1 ELSE 0
      /\ Bit(m, 8) = IF 8 <= t THEN 1 ELSE 0
  BY DEF Ones
<1>2. \/ t <= 0 \/ t = 1 \/ t = 2 \/ t = 3 \/ t = 4 \/ t = 5 \/ t = 6 \/ t = 7 \/ t >= 8
  OBVIOUS
<1>4. m = 128 * Bit(m, 1) + 64 * Bit(m, 2) + 32 * Bit(m, 3) + 16 * Bit(m, 4)
              + 8 * Bit(m, 5) + 4 * Bit(m, 6) + 2 * Bit(m, 7) + Bit(m, 8)
  BY SumOfBits
<1>5. CASE t <= 0
  <2>1. /\ Bit(m, 1) = 0 /\ Bit(m, 2) = 0 /\ Bit(m, 3) = 0 /\ Bit(m, 4) = 0
        /\ Bit(m, 5) = 0 /\ Bit(m, 6) = 0 /\ Bit(m, 7) = 0 /\ Bit(m, 8) = 0
    BY <1>1, <1>5
  <2>2. m = 0
    <3>1. m = 128 * 0 + 64 * 0 + 32 * 0 + 16 * 0 + 8 * 0 + 4 * 0 + 2 * 0 + 0
      BY <1>4, <2>1
    <3> QED
      BY <3>1
  <2> QED
    BY <1>5, <2>2
<1>6. CASE t = 1
  <2>1. /\ Bit(m, 1) = 1 /\ Bit(m, 2) = 0 /\ Bit(m, 3) = 0 /\ Bit(m, 4) = 0
        /\ Bit(m, 5) = 0 /\ Bit(m, 6) = 0 /\ Bit(m, 7) = 0 /\ Bit(m, 8) = 0
    BY <1>1, <1>6
  <2>2. m = 128
    <3>1. m = 128 * 1 + 64 * 0 + 32 * 0 + 16 * 0 + 8 * 0 + 4 * 0 + 2 * 0 + 0
      BY <1>4, <2>1
    <3> QED
      BY <3>1
  <2> QED
    BY <1>6, <2>2
<1>7. CASE t = 2
  <2>1. /\ Bit(m, 1) = 1 /\ Bit(m, 2) = 1 /\ Bit(m, 3) = 0 /\ Bit(m, 4) = 0
        /\ Bit(m, 5) = 0 /\ Bit(m, 6) = 0 /\ Bit(m, 7) = 0 /\ Bit(m, 8) = 0
    BY <1>1, <1>7
  <2>2. m = 192
    <3>1. m = 128 * 1 + 64 * 1 + 32 * 0 + 16 * 0 + 8 * 0 + 4 * 0 + 2 * 0 + 0
      BY <1>4, <2>1
    <3> QED
      BY <3>1
  <2> QED
    BY <1>7, <2>2
<1>8. CASE t = 3
  <2>1. /\ Bit(m, 1) = 1 /\ Bit(m, 2) = 1 /\ Bit(m, 3) = 1 /\ Bit(m, 4) = 0
        /\ Bit(m, 5) = 0 /\ Bit(m, 6) = 0 /\ Bit(m, 7) = 0 /\ Bit(m, 8) = 0
    BY <1>1, <1>8
  <2>2. m = 224
    <3>1. m = 128 * 1 + 64 * 1 + 32 * 1 + 16 * 0 + 8 * 0 + 4 * 0 + 2 * 0 + 0
      BY <1>4, <2>1
    <3> QED
      BY <3>1
  <2> QED
    BY <1>8, <2>2
<1>9. CASE t = 4
  <2>1. /\ Bit(m, 1) = 1 /\ Bit(m, 2) = 1 /\ Bit(m, 3) = 1 /\ Bit(m, 4) = 1
        /\ Bit(m, 5) = 0 /\ Bit(m, 6) = 0 /\ Bit(m, 7) = 0 /\ Bit(m, 8) = 0
    BY <1>1, <1>9
  <2>2. m = 240
    <3>1. m = 128 * 1 + 64 * 1 + 32 * 1 + 16 * 1 + 8 * 0 + 4 * 0 + 2 * 0 + 0
      BY <1>4, <2>1
    <3> QED
      BY <3>1
  <2> QED
    BY <1>9, <2>2
<1>10. CASE t = 5
  <2>1. /\ Bit(m, 1) = 1 /\ Bit(m, 2) = 1 /\ Bit(m, 3) = 1 /\ Bit(m, 4) = 1
        /\ Bit(m, 5) = 1 /\ Bit(m, 6) = 0 /\ Bit(m, 7) = 0 /\ Bit(m, 8) = 0
    BY <1>1, <1>10
  <2>2. m = 248
    <3>1. m = 128 * 1 + 64 * 1 + 32 * 1 + 16 * 1 + 8 * 1 + 4 * 0 + 2 * 0 + 0
      BY <1>4, <2>1
    <3> QED
      BY <3>1
  <2> QED
    BY <1>10, <2>2
<1>11. CASE t = 6
  <2>1. /\ Bit(m, 1) = 1 /\ Bit(m, 2) = 1 /\ Bit(m, 3) = 1 /\ Bit(m, 4) = 1
        /\ Bit(m, 5) = 1 /\ Bit(m, 6) = 1 /\ Bit(m, 7) = 0 /\ Bit(m, 8) = 0
    BY <1>1, <1>11
  <2>2. m = 252
    <3>1. m = 128 * 1 + 64 * 1 + 32 * 1 + 16 * 1 + 8 * 1 + 4 * 1 + 2 * 0 + 0
      BY <1>4, <2>1
    <3> QED
      BY <3>1
  <2> QED
    BY <1>11, <2>2
<1>12. CASE t = 7
  <2>1. /\ Bit(m, 1) = 1 /\ Bit(m, 2) = 1 /\ Bit(m, 3) = 1 /\ Bit(m, 4) = 1
        /\ Bit(m, 5) = 1 /\ Bit(m, 6) = 1 /\ Bit(m, 7) = 1 /\ Bit(m, 8) = 0
    BY <1>1, <1>12
  <2>2. m = 254
    <3>1. m = 128 * 1 + 64 * 1 + 32 * 1 + 16 * 1 + 8 * 1 + 4 * 1 + 2 * 1 + 0
      BY <1>4, <2>1
    <3> QED
      BY <3>1
  <2> QED
    BY <1>12, <2>2
<1>13. CASE t >= 8
  <2>1. /\ Bit(m, 1) = 1 /\ Bit(m, 2) = 1 /\ Bit(m, 3) = 1 /\ Bit(m, 4) = 1
        /\ Bit(m, 5) = 1 /\ Bit(m, 6) = 1 /\ Bit(m, 7) = 1 /\ Bit(m, 8) = 1
    BY <1>1, <1>13
  <2>2. m = 255
    <3>1. m = 128 * 1 + 64 * 1 + 32 * 1 + 16 * 1 + 8 * 1 + 4 * 1 + 2 * 1 + 1
      BY <1>4, <2>1
    <3> QED
      BY <3>1
  <2> QED
    BY <1>13, <2>2
<1> QED
  BY <1>2, <1>5, <1>6, <1>7, <1>8, <1>9, <1>10, <1>11, <1>12, <1>13

LEMMA NextBit ==
    ASSUME NEW a \in Int, NEW b \in Int, NEW c \in {0, 1}, NEW d \in {0, 1}
    PROVE  2 * a + c = 2 * b + d <=> a = b /\ c = d
  OBVIOUS

SameBits(x, y, j) == \A k \in 1..j : Bit(x, k) = Bit(y, k)

\* Two octets have the same quotient exactly if they have the same leading bits.
Agree(x, y, p, j) == Quot(x, p) = Quot(y, p) <=> SameBits(x, y, j)

LEMMA NextAgree ==
    ASSUME NEW x \in 0..255, NEW y \in 0..255, NEW j \in 1..8, NEW p, NEW q,
           Quot(x, p) \in Int, Quot(y, p) \in Int, Agree(x, y, p, j - 1),
           Quot(x, q) = 2 * Quot(x, p) + Bit(x, j), Quot(y, q) = 2 * Quot(y, p) + Bit(y, j)
    PROVE  Agree(x, y, q, j)
<1>1. SameBits(x, y, j) <=> SameBits(x, y, j - 1) /\ Bit(x, j) = Bit(y, j)
  <2>1. j \in 1..j /\ \A k \in 1..j : k = j \/ k \in 1..(j - 1)
    OBVIOUS
  <2>2. \A k \in 1..(j - 1) : k \in 1..j
    OBVIOUS
  <2> QED
    BY <2>1, <2>2 DEF SameBits
<1>2. Bit(x, j) \in {0, 1} /\ Bit(y, j) \in {0, 1}
  BY Doubling, Zenon
<1>3. Quot(x, q) = Quot(y, q) <=> Quot(x, p) = Quot(y, p) /\ Bit(x, j) = Bit(y, j)
  BY <1>2, NextBit
<1> QED
  BY <1>1, <1>3 DEF Agree

LEMMA LeadingBits ==
    ASSUME NEW x \in 0..255, NEW y \in 0..255
    PROVE  /\ Agree(x, y, 256, 0) /\ Agree(x, y, 128, 1) /\ Agree(x, y, 64, 2)
           /\ Agree(x, y, 32, 3) /\ Agree(x, y, 16, 4) /\ Agree(x, y, 8, 5)
           /\ Agree(x, y, 4, 6) /\ Agree(x, y, 2, 7) /\ Agree(x, y, 1, 8)
<1>1. Whole(x) /\ Whole(y) /\ Doubled(x) /\ Doubled(y)
  BY Doubling, Zenon
<1>2. Agree(x, y, 256, 0)
  BY <1>1 DEF Agree, SameBits, Doubled
<1>3. Agree(x, y, 128, 1)
  <2>1. /\ 1 \in 1..8 /\ Agree(x, y, 256, 1 - 1)
        /\ Quot(x, 256) \in Int /\ Quot(y, 256) \in Int
        /\ Quot(x, 128) = 2 * Quot(x, 256) + Bit(x, 1)
        /\ Quot(y, 128) = 2 * Quot(y, 256) + Bit(y, 1)
    BY <1>1, <1>2 DEF Doubled, Whole
  <2> QED
    BY <2>1, NextAgree
<1>4. Agree(x, y, 64, 2)
  <2>1. /\ 2 \in 1..8 /\ Agree(x, y, 128, 2 - 1)
        /\ Quot(x, 128) \in Int /\ Quot(y, 128) \in Int
        /\ Quot(x, 64) = 2 * Quot(x, 128) + Bit(x, 2)
        /\ Quot(y, 64) = 2 * Quot(y, 128) + Bit(y, 2)
    BY <1>1, <1>3 DEF Doubled, Whole
  <2> QED
    BY <2>1, NextAgree
<1>5. Agree(x, y, 32, 3)
  <2>1. /\ 3 \in 1..8 /\ Agree(x, y, 64, 3 - 1)
        /\ Quot(x, 64) \in Int /\ Quot(y, 64) \in Int
        /\ Quot(x, 32) = 2 * Quot(x, 64) + Bit(x, 3)
        /\ Quot(y, 32) = 2 * Quot(y, 64) + Bit(y, 3)
    BY <1>1, <1>4 DEF Doubled, Whole
  <2> QED
    BY <2>1, NextAgree
<1>6. Agree(x, y, 16, 4)
  <2>1. /\ 4 \in 1..8 /\ Agree(x, y, 32, 4 - 1)
        /\ Quot(x, 32) \in Int /\ Quot(y, 32) \in Int
        /\ Quot(x, 16) = 2 * Quot(x, 32) + Bit(x, 4)
        /\ Quot(y, 16) = 2 * Quot(y, 32) + Bit(y, 4)
    BY <1>1, <1>5 DEF Doubled, Whole
  <2> QED
    BY <2>1, NextAgree
<1>7. Agree(x, y, 8, 5)
  <2>1. /\ 5 \in 1..8 /\ Agree(x, y, 16, 5 - 1)
        /\ Quot(x, 16) \in Int /\ Quot(y, 16) \in Int
        /\ Quot(x, 8) = 2 * Quot(x, 16) + Bit(x, 5)
        /\ Quot(y, 8) = 2 * Quot(y, 16) + Bit(y, 5)
    BY <1>1, <1>6 DEF Doubled, Whole
  <2> QED
    BY <2>1, NextAgree
<1>8. Agree(x, y, 4, 6)
  <2>1. /\ 6 \in 1..8 /\ Agree(x, y, 8, 6 - 1)
        /\ Quot(x, 8) \in Int /\ Quot(y, 8) \in Int
        /\ Quot(x, 4) = 2 * Quot(x, 8) + Bit(x, 6)
        /\ Quot(y, 4) = 2 * Quot(y, 8) + Bit(y, 6)
    BY <1>1, <1>7 DEF Doubled, Whole
  <2> QED
    BY <2>1, NextAgree
<1>9. Agree(x, y, 2, 7)
  <2>1. /\ 7 \in 1..8 /\ Agree(x, y, 4, 7 - 1)
        /\ Quot(x, 4) \in Int /\ Quot(y, 4) \in Int
        /\ Quot(x, 2) = 2 * Quot(x, 4) + Bit(x, 7)
        /\ Quot(y, 2) = 2 * Quot(y, 4) + Bit(y, 7)
    BY <1>1, <1>8 DEF Doubled, Whole
  <2> QED
    BY <2>1, NextAgree
<1>10. Agree(x, y, 1, 8)
  <2>1. /\ 8 \in 1..8 /\ Agree(x, y, 2, 8 - 1)
        /\ Quot(x, 2) \in Int /\ Quot(y, 2) \in Int
        /\ Quot(x, 1) = 2 * Quot(x, 2) + Bit(x, 8)
        /\ Quot(y, 1) = 2 * Quot(y, 2) + Bit(y, 8)
    BY <1>1, <1>9 DEF Doubled, Whole
  <2> QED
    BY <2>1, NextAgree
<1> QED
  BY <1>2, <1>3, <1>4, <1>5, <1>6, <1>7, <1>8, <1>9, <1>10

Masked(x, y, m) == \A k \in 1..8 : Bit(m, k) = 1 => Bit(x, k) = Bit(y, k)

\* Comparing quotients is comparing the bits under the mask.
LEMMA MaskedOctet ==
    ASSUME NEW x \in 0..255, NEW y \in 0..255, NEW m \in 0..255, NEW t \in Int, Ones(m, t)
    PROVE  /\ m \in DOMAIN MaskGrain
           /\ x \div MaskGrain[m] = y \div MaskGrain[m] <=> Masked(x, y, m)
<1>1. /\ DOMAIN MaskGrain = {0, 128, 192, 224, 240, 248, 252, 254, 255}
      /\ MaskGrain[0] = 256 /\ MaskGrain[128] = 128 /\ MaskGrain[192] = 64
      /\ MaskGrain[224] = 32 /\ MaskGrain[240] = 16 /\ MaskGrain[248] = 8
      /\ MaskGrain[252] = 4 /\ MaskGrain[254] = 2 /\ MaskGrain[255] = 1
  BY DEF MaskGrain
<1>3. ASSUME NEW j \in 0..8, \A k \in 1..8 : k <= t <=> k <= j
      PROVE  Masked(x, y, m) <=> SameBits(x, y, j)
  <2>1. \A k \in 1..8 : Bit(m, k) = 1 <=> k <= j
    BY <1>3 DEF Ones
  <2>2. \A k : k \in 1..j <=> k \in 1..8 /\ k <= j
    OBVIOUS
  <2> QED
    BY <2>1, <2>2 DEF Masked, SameBits
<1>4. CASE t <= 0 /\ m = 0
  <2>1. 0 \in 0..8 /\ \A k \in 1..8 : k <= t <=> k <= 0
    BY <1>4
  <2>2. Masked(x, y, m) <=> SameBits(x, y, 0)
    BY <1>3, <2>1
  <2>3. MaskGrain[m] = 256 /\ m \in DOMAIN MaskGrain
    BY <1>1, <1>4
  <2>4. Agree(x, y, 256, 0)
    BY LeadingBits
  <2>5. x \div 256 = y \div 256 <=> Masked(x, y, m)
    BY <2>2, <2>4 DEF Agree, Quot
  <2> QED
    BY <2>3, <2>5
<1>5. CASE t = 1 /\ m = 128
  <2>1. 1 \in 0..8 /\ \A k \in 1..8 : k <= t <=> k <= 1
    BY <1>5
  <2>2. Masked(x, y, m) <=> SameBits(x, y, 1)
    BY <1>3, <2>1
  <2>3. MaskGrain[m] = 128 /\ m \in DOMAIN MaskGrain
    BY <1>1, <1>5
  <2>4. Agree(x, y, 128, 1)
    BY LeadingBits
  <2>5. x \div 128 = y \div 128 <=> Masked(x, y, m)
    BY <2>2, <2>4 DEF Agree, Quot
  <2> QED
    BY <2>3, <2>5
<1>6. CASE t = 2 /\ m = 192
  <2>1. 2 \in 0..8 /\ \A k \in 1..8 : k <= t <=> k <= 2
    BY <1>6
  <2>2. Masked(x, y, m) <=> SameBits(x, y, 2)
    BY <1>3, <2>1
  <2>3. MaskGrain[m] = 64 /\ m \in DOMAIN MaskGrain
    BY <1>1, <1>6
  <2>4. Agree(x, y, 64, 2)
    BY LeadingBits
  <2>5. x \div 64 = y \div 64 <=> Masked(x, y, m)
    BY <2>2, <2>4 DEF Agree, Quot
  <2> QED
    BY <2>3, <2>5
<1>7. CASE t = 3 /\ m = 224
  <2>1. 3 \in 0..8 /\ \A k \in 1..8 : k <= t <=> k <= 3
    BY <1>7
  <2>2. Masked(x, y, m) <=> SameBits(x, y, 3)
    BY <1>3, <2>1
  <2>3. MaskGrain[m] = 32 /\ m \in DOMAIN MaskGrain
    BY <1>1, <1>7
  <2>4. Agree(x, y, 32, 3)
    BY LeadingBits
  <2>5. x \div 32 = y \div 32 <=> Masked(x, y, m)
    BY <2>2, <2>4 DEF Agree, Quot
  <2> QED
    BY <2>3, <2>5
<1>8. CASE t = 4 /\ m = 240
  <2>1. 4 \in 0..8 /\ \A k \in 1..8 : k <= t <=> k <= 4
    BY <1>8
  <2>2. Masked(x, y, m) <=> SameBits(x, y, 4)
    BY <1>3, <2>1
  <2>3. MaskGrain[m] = 16 /\ m \in DOMAIN MaskGrain
    BY <1>1, <1>8
  <2>4. Agree(x, y, 16, 4)
    BY LeadingBits
  <2>5. x \div 16 = y \div 16 <=> Masked(x, y, m)
    BY <2>2, <2>4 DEF Agree, Quot
  <2> QED
    BY <2>3, <2>5
<1>9. CASE t = 5 /\ m = 248
  <2>1. 5 \in 0..8 /\ \A k \in 1..8 : k <= t <=> k <= 5
    BY <1>9
  <2>2. Masked(x, y, m) <=> SameBits(x, y, 5)
    BY <1>3, <2>1
  <2>3. MaskGrain[m] = 8 /\ m \in DOMAIN MaskGrain
    BY <1>1, <1>9
  <2>4. Agree(x, y, 8, 5)
    BY LeadingBits
  <2>5. x \div 8 = y \div 8 <=> Masked(x, y, m)
    BY <2>2, <2>4 DEF Agree, Quot
  <2> QED
    BY <2>3, <2>5
<1>10. CASE t = 6 /\ m = 252
  <2>1. 6 \in 0..8 /\ \A k \in 1..8 : k <= t <=> k <= 6
    BY <1>10
  <2>2. Masked(x, y, m) <=> SameBits(x, y, 6)
    BY <1>3, <2>1
  <2>3. MaskGrain[m] = 4 /\ m \in DOMAIN MaskGrain
    BY <1>1, <1>10
  <2>4. Agree(x, y, 4, 6)
    BY LeadingBits
  <2>5. x \div 4 = y \div 4 <=> Masked(x, y, m)
    BY <2>2, <2>4 DEF Agree, Quot
  <2> QED
    BY <2>3, <2>5
<1>11. CASE t = 7 /\ m = 254
  <2>1. 7 \in 0..8 /\ \A k \in 1..8 : k <= t <=> k <= 7
    BY <1>11
  <2>2. Masked(x, y, m) <=> SameBits(x, y, 7)
    BY <1>3, <2>1
  <2>3. MaskGrain[m] = 2 /\ m \in DOMAIN MaskGrain
    BY <1>1, <1>11
  <2>4. Agree(x, y, 2, 7)
    BY LeadingBits
  <2>5. x \div 2 = y \div 2 <=> Masked(x, y, m)
    BY <2>2, <2>4 DEF Agree, Quot
  <2> QED
    BY <2>3, <2>5
<1>12. CASE t >= 8 /\ m = 255
  <2>1. 8 \in 0..8 /\ \A k \in 1..8 : k <= t <=> k <= 8
    BY <1>12
  <2>2. Masked(x, y, m) <=> SameBits(x, y, 8)
    BY <1>3, <2>1
  <2>3. MaskGrain[m] = 1 /\ m \in DOMAIN MaskGrain
    BY <1>1, <1>12
  <2>4. Agree(x, y, 1, 8)
    BY LeadingBits
  <2>5. x \div 1 = y \div 1 <=> Masked(x, y, m)
    BY <2>2, <2>4 DEF Agree, Quot
  <2> QED
    BY <2>3, <2>5
<1> QED
  BY <1>4, <1>5, <1>6, <1>7, <1>8, <1>9, <1>10, <1>11, <1>12, MaskOctets

\* Some bit is zero, some bit is one, some one is to the right of a zero.
HasZero(m)  == \E l \in 1..8 : Bit(m, l) = 0
HasOne(m)   == \E k \in 1..8 : Bit(m, k) = 1
HasBreak(m) == \E k, l \in 1..8 : Bit(m, k) = 1 /\ Bit(m, l) = 0 /\ l < k

LEMMA OctetShape ==
    ASSUME NEW m \in 0..255
    PROVE  /\ m # 255 <=> HasZero(m)
           /\ m # 0 <=> HasOne(m)
           /\ m \notin DOMAIN MaskGrain <=> HasBreak(m)
           /\ m \in DOMAIN MaskGrain => \E t \in 0..8 : Ones(m, t)
<1> DEFINE a == Bit(m, 1)
           b == Bit(m, 2)
           c == Bit(m, 3)
           d == Bit(m, 4)
           e == Bit(m, 5)
           f == Bit(m, 6)
           g == Bit(m, 7)
           h == Bit(m, 8)
           falling == /\ (b = 1 => a = 1) /\ (c = 1 => b = 1) /\ (d = 1 => c = 1)
                      /\ (e = 1 => d = 1) /\ (f = 1 => e = 1) /\ (g = 1 => f = 1)
                      /\ (h = 1 => g = 1)
<1>1. \A k \in 1..8 : k \in {1, 2, 3, 4, 5, 6, 7, 8}
  OBVIOUS
<1>2. /\ a \in {0, 1} /\ b \in {0, 1} /\ c \in {0, 1} /\ d \in {0, 1}
      /\ e \in {0, 1} /\ f \in {0, 1} /\ g \in {0, 1} /\ h \in {0, 1}
  <2>1. \A k \in 1..8 : Bit(m, k) \in {0, 1}
    BY Doubling, Zenon
  <2> QED
    BY <2>1
<1>3. m = 128 * a + 64 * b + 32 * c + 16 * d + 8 * e + 4 * f + 2 * g + h
  BY SumOfBits
<1>4. HasZero(m) <=> a = 0 \/ b = 0 \/ c = 0 \/ d = 0 \/ e = 0 \/ f = 0 \/ g = 0 \/ h = 0
  BY <1>1 DEF HasZero
<1>5. HasOne(m) <=> a = 1 \/ b = 1 \/ c = 1 \/ d = 1 \/ e = 1 \/ f = 1 \/ g = 1 \/ h = 1
  BY <1>1 DEF HasOne
<1>6. HasBreak(m) <=> ~falling
  <2>1. ~falling => HasBreak(m)
    <3>1. /\ 1 \in 1..8 /\ 2 \in 1..8 /\ 3 \in 1..8 /\ 4 \in 1..8 /\ 5 \in 1..8
          /\ 6 \in 1..8 /\ 7 \in 1..8 /\ 8 \in 1..8
          /\ 1 < 2 /\ 2 < 3 /\ 3 < 4 /\ 4 < 5 /\ 5 < 6 /\ 6 < 7 /\ 7 < 8
      OBVIOUS
    <3> QED
      BY <1>2, <3>1 DEF HasBreak
  <2>2. ASSUME falling, NEW k \in 1..8, NEW l \in 1..8, Bit(m, k) = 1, Bit(m, l) = 0, l < k
        PROVE  FALSE
    <3>1. k \in {1, 2, 3, 4, 5, 6, 7, 8} /\ l \in {1, 2, 3, 4, 5, 6, 7, 8}
      BY <1>1
    <3> QED
      BY <1>2, <2>2, <3>1
  <2> QED
    BY <2>1, <2>2 DEF HasBreak
<1>7. ASSUME falling PROVE \E t \in 0..8 : Ones(m, t)
  <2>1. CASE a = 0 /\ b = 0 /\ c = 0 /\ d = 0 /\ e = 0 /\ f = 0 /\ g = 0 /\ h = 0
    <3>1. \A k \in 1..8 : Bit(m, k) = IF k <= 0 THEN 1 ELSE 0
      BY <1>1, <2>1
    <3> QED
      BY <3>1 DEF Ones
  <2>2. CASE a = 1 /\ b = 0 /\ c = 0 /\ d = 0 /\ e = 0 /\ f = 0 /\ g = 0 /\ h = 0
    <3>1. \A k \in 1..8 : Bit(m, k) = IF k <= 1 THEN 1 ELSE 0
      BY <1>1, <2>2
    <3> QED
      BY <3>1 DEF Ones
  <2>3. CASE a = 1 /\ b = 1 /\ c = 0 /\ d = 0 /\ e = 0 /\ f = 0 /\ g = 0 /\ h = 0
    <3>1. \A k \in 1..8 : Bit(m, k) = IF k <= 2 THEN 1 ELSE 0
      BY <1>1, <2>3
    <3> QED
      BY <3>1 DEF Ones
  <2>4. CASE a = 1 /\ b = 1 /\ c = 1 /\ d = 0 /\ e = 0 /\ f = 0 /\ g = 0 /\ h = 0
    <3>1. \A k \in 1..8 : Bit(m, k) = IF k <= 3 THEN 1 ELSE 0
      BY <1>1, <2>4
    <3> QED
      BY <3>1 DEF Ones
  <2>5. CASE a = 1 /\ b = 1 /\ c = 1 /\ d = 1 /\ e = 0 /\ f = 0 /\ g = 0 /\ h = 0
    <3>1. \A k \in 1..8 : Bit(m, k) = IF k <= 4 THEN 1 ELSE 0
      BY <1>1, <2>5
    <3> QED
      BY <3>1 DEF Ones
  <2>6. CASE a = 1 /\ b = 1 /\ c = 1 /\ d = 1 /\ e = 1 /\ f = 0 /\ g = 0 /\ h = 0
    <3>1. \A k \in 1..8 : Bit(m, k) = IF k <= 5 THEN 1 ELSE 0
      BY <1>1, <2>6
    <3> QED
      BY <3>1 DEF Ones
  <2>7. CASE a = 1 /\ b = 1 /\ c = 1 /\ d = 1 /\ e = 1 /\ f = 1 /\ g = 0 /\ h = 0
    <3>1. \A k \in 1..8 : Bit(m, k) = IF k <= 6 THEN 1 ELSE 0
      BY <1>1, <2>7
    <3> QED
      BY <3>1 DEF Ones
  <2>8. CASE a = 1 /\ b = 1 /\ c = 1 /\ d = 1 /\ e = 1 /\ f = 1 /\ g = 1 /\ h = 0
    <3>1. \A k \in 1..8 : Bit(m, k) = IF k <= 7 THEN 1 ELSE 0
      BY <1>1, <2>8
    <3> QED
      BY <3>1 DEF Ones
  <2>9. CASE a = 1 /\ b = 1 /\ c = 1 /\ d = 1 /\ e = 1 /\ f = 1 /\ g = 1 /\ h = 1
    <3>1. \A k \in 1..8 : Bit(m, k) = IF k <= 8 THEN 1 ELSE 0
      BY <1>1, <2>9
    <3> QED
      BY <3>1 DEF Ones
  <2> QED
    BY <1>2, <1>7, <2>1, <2>2, <2>3, <2>4, <2>5, <2>6, <2>7, <2>8, <2>9
<1>8. \A t \in 0..8 : Ones(m, t) => m \in DOMAIN MaskGrain
  <2>1. \A t \in 0..8 : t \in Int
    OBVIOUS
  <2> QED
    BY <2>1, MaskedOctet
<1>9. ASSUME m \in DOMAIN MaskGrain PROVE falling
  <2>1. m \in {0, 128, 192, 224, 240, 248, 252, 254, 255}
    BY <1>9 DEF MaskGrain
  <2> HIDE DEF a, b, c, d, e, f, g, h
  <2> QED
    BY <1>2, <1>3, <2>1
<1>10. (m # 255 <=> HasZero(m)) /\ (m # 0 <=> HasOne(m))
  <2> HIDE DEF a, b, c, d, e, f, g, h
  <2> QED
    BY <1>2, <1>3, <1>4, <1>5
<1> HIDE DEF falling
<1> QED
  BY <1>6, <1>7, <1>8, <1>9, <1>10

\* A mask octet that is unacceptable where it stands.
BadMask(b, h, i) ==
    \/ b[h + i] \notin DOMAIN MaskGrain
    \/ (\E j \in 1..(i - 1) : b[h + j] # 255) /\ b[h + i] # 0

LEMMA BrokenMeans ==
    ASSUME NEW b, NEW h \in Nat, Len(b) = 2 * h, NEW i \in 1..h,
           \A j \in 1..h : b[h + j] \in 0..255
    PROVE  Reference!Broken(b, i) <=> BadMask(b, h, i)
<1> DEFINE m(j) == b[h + j]
<1>1. Len(b) \div 2 = h
  OBVIOUS
<1>2. \A j, k : Reference!MaskBit(b, j, k) = Bit(m(j), k)
  BY <1>1 DEF Reference!MaskBit, Bit
<1>3. Reference!Broken(b, i) <=>
          \E k \in 1..8 : /\ Bit(m(i), k) = 1
                          /\ \E j \in 1..i, l \in 1..8 : Bit(m(j), l) = 0 /\ 8 * j + l < 8 * i + k
  BY <1>2 DEF Reference!Broken
<1>4. \A j \in 1..h : m(j) \in 0..255
  OBVIOUS
<1> HIDE DEF m
<1>5. \A j \in 1..h : /\ m(j) # 255 <=> HasZero(m(j))
                      /\ m(j) # 0 <=> HasOne(m(j))
                      /\ m(j) \notin DOMAIN MaskGrain <=> HasBreak(m(j))
  BY <1>4, OctetShape
<1>6. /\ i \in 1..i /\ \A j \in 1..i : j = i \/ j \in 1..(i - 1)
      /\ \A j \in 1..(i - 1) : j \in 1..i /\ j \in 1..h
  OBVIOUS
<1>7. \A k, l \in 1..8 : 8 * i + l < 8 * i + k <=> l < k
  OBVIOUS
<1>8. \A j \in 1..(i - 1) : \A k, l \in 1..8 : 8 * j + l < 8 * i + k
  OBVIOUS
<1>9. Reference!Broken(b, i) <=>
          \/ \E k, l \in 1..8 : Bit(m(i), k) = 1 /\ Bit(m(i), l) = 0 /\ l < k
          \/ /\ \E k \in 1..8 : Bit(m(i), k) = 1
             /\ \E j \in 1..(i - 1) : \E l \in 1..8 : Bit(m(j), l) = 0
  BY <1>3, <1>6, <1>7, <1>8
<1>10. Reference!Broken(b, i) <=>
          HasBreak(m(i)) \/ (HasOne(m(i)) /\ \E j \in 1..(i - 1) : HasZero(m(j)))
  BY <1>9 DEF HasBreak, HasOne, HasZero
<1>11. (\E j \in 1..(i - 1) : HasZero(m(j))) <=> \E j \in 1..(i - 1) : m(j) # 255
  BY <1>5, <1>6
<1> QED
  BY <1>5, <1>10, <1>11 DEF m, BadMask

LEMMA IpMeans ==
    ASSUME NEW n, Reference!Octets(n), NEW b, Reference!Octets(b)
    PROVE  LET fits == Len(n) \in {4, 16} /\ Len(b) \in {8, 32} /\ Reference!MaskUsable(n, b)
           IN  /\ ip_matches_constraint(n, b).result = "Ok" <=> fits
               /\ fits => (ip_matches_constraint(n, b).value <=> Reference!IpSatisfies(n, b))
<1> DEFINE h == Len(n)
           address == [i \in 1..h |-> b[i]]
           mask == [i \in 1..h |-> b[h + i]]
           bad(i) == \/ mask[i] \notin DOMAIN MaskGrain
                     \/ (\E j \in 1..(i - 1) : mask[j] # 255) /\ mask[i] # 0
           differs(i) == n[i] \div MaskGrain[mask[i]] # address[i] \div MaskGrain[mask[i]]
           stops == {i \in 1..h : bad(i) \/ differs(i)}
           r == ip_matches_constraint(n, b)
           broken(i) == Reference!Broken(b, i)
           agrees(i) == Reference!OctetAgrees(n, b, i)
<1>1. r = IF h \notin {4, 16} THEN Err("BadDer")
          ELSE IF Len(b) \notin {8, 32} THEN Err("InvalidNetworkMaskConstraint")
          ELSE IF Len(b) # 2 * h \/ stops = {} THEN Ok(Len(b) = 2 * h)
          ELSE IF bad(Min(stops)) THEN Err("InvalidNetworkMaskConstraint")
          ELSE Ok(FALSE)
  BY Zenon DEF ip_matches_constraint
<1>2. /\ h \in Nat /\ DOMAIN n = 1..h /\ \A i \in DOMAIN n : n[i] \in 0..255
      /\ Len(b) \in Nat /\ DOMAIN b = 1..Len(b) /\ \A i \in DOMAIN b : b[i] \in 0..255
  BY ListFacts, ReferenceTerms DEF Reference!Octets
<1>3. Reference!IpSatisfies(n, b) <=> Len(b) = 2 * h /\ \A i \in 1..h : agrees(i)
  BY <1>2 DEF Reference!IpSatisfies
<1>4. Reference!MaskUsable(n, b) <=>
          (Len(b) = 2 * h =>
               \A i \in 1..h : broken(i) => \E j \in 1..(i - 1) : ~agrees(j))
  BY <1>2 DEF Reference!MaskUsable
<1>5. CASE h \notin {4, 16} \/ Len(b) \notin {8, 32}
  <2>1. r = Err("BadDer") \/ r = Err("InvalidNetworkMaskConstraint")
    BY <1>1, <1>5
  <2>2. r.result # "Ok"
    BY <2>1 DEF Err
  <2> QED
    BY <1>5, <2>2
<1>6. CASE h \in {4, 16} /\ Len(b) \in {8, 32} /\ Len(b) # 2 * h
  <2>1. r = Ok(Len(b) = 2 * h)
    BY <1>1, <1>6
  <2>2. r.result = "Ok" /\ r.value = (Len(b) = 2 * h)
    BY <2>1 DEF Ok
  <2> QED
    BY <1>3, <1>4, <1>6, <2>2
<1>7. CASE h \in {4, 16} /\ Len(b) \in {8, 32} /\ Len(b) = 2 * h
  <2>1. \A i \in 1..h : b[i] \in 0..255 /\ b[h + i] \in 0..255 /\ n[i] \in 0..255
    <3>1. \A i \in 1..h : i \in DOMAIN b /\ h + i \in DOMAIN b /\ i \in DOMAIN n
      BY <1>2, <1>7
    <3> QED
      BY <1>2, <3>1
  <2>2. ASSUME NEW i \in 1..h
        PROVE  bad(i) <=> broken(i)
    <3>1. \A j \in 1..(i - 1) : j \in 1..h
      BY <1>2
    <3>2. mask[i] = b[h + i] /\ \A j \in 1..(i - 1) : mask[j] = b[h + j]
      BY <3>1
    <3>3. bad(i) <=> BadMask(b, h, i)
      <4> HIDE DEF mask, h
      <4>1. mask[i] \notin DOMAIN MaskGrain <=> b[h + i] \notin DOMAIN MaskGrain
        BY <3>2
      <4>2. mask[i] # 0 <=> b[h + i] # 0
        BY <3>2
      <4>3. (\E j \in 1..(i - 1) : mask[j] # 255) <=> \E j \in 1..(i - 1) : b[h + j] # 255
        BY <3>2
      <4> QED
        BY <4>1, <4>2, <4>3 DEF BadMask
    <3>4. h \in Nat /\ Len(b) = 2 * h /\ \A j \in 1..h : b[h + j] \in 0..255
      BY <1>2, <1>7, <2>1
    <3>5. broken(i) <=> BadMask(b, h, i)
      <4> HIDE DEF h
      <4> QED
        BY <3>4, BrokenMeans
    <3> HIDE DEF bad, broken
    <3> QED
      BY <3>3, <3>5
  <2>3. ASSUME NEW i \in 1..h, ~bad(i)
        PROVE  differs(i) <=> ~agrees(i)
    <3> DEFINE m == b[h + i]
    <3>1. mask[i] = m /\ address[i] = b[i] /\ m \in DOMAIN MaskGrain
      BY <2>3
    <3>2. m \in 0..255 /\ b[i] \in 0..255 /\ n[i] \in 0..255
      BY <2>1
    <3>3. Len(b) \div 2 = h
      <4>1. h \in Nat /\ Len(b) = 2 * h
        BY <1>2, <1>7
      <4> HIDE DEF h
      <4> QED
        BY <4>1
    <3>4. agrees(i) <=> Masked(n[i], b[i], m)
      BY <3>3 DEF Reference!OctetAgrees, Reference!MaskBit, Masked, Bit
    <3> HIDE DEF m
    <3>5. PICK t \in 0..8 : Ones(m, t)
      BY <3>1, <3>2, OctetShape
    <3>6. t \in Int
      OBVIOUS
    <3>7. n[i] \div MaskGrain[m] = b[i] \div MaskGrain[m] <=> Masked(n[i], b[i], m)
      BY <3>2, <3>5, <3>6, MaskedOctet
    <3> QED
      BY <3>1, <3>4, <3>7
  <2>4. \A i \in 1..h : i \in stops <=> broken(i) \/ ~agrees(i)
    <3> TAKE i \in 1..h
    <3> HIDE DEF differs, bad, agrees, broken
    <3>1. (bad(i) <=> broken(i)) /\ (~bad(i) => (differs(i) <=> ~agrees(i)))
      BY <2>2, <2>3
    <3> QED
      BY <3>1
  <2>5. stops \in SUBSET Nat /\ stops \in SUBSET (1..h)
    BY <1>2
  <2> HIDE DEF stops, bad, r, agrees, broken
  <2>6. CASE stops = {}
    <3>1. r = Ok(Len(b) = 2 * h)
      BY <1>1, <1>7, <2>6
    <3>2. r.result = "Ok" /\ r.value = (Len(b) = 2 * h)
      BY <3>1 DEF Ok
    <3>3. Reference!IpSatisfies(n, b) /\ Reference!MaskUsable(n, b)
      BY <1>3, <1>4, <1>7, <2>4, <2>6
    <3> QED
      BY <1>7, <3>2, <3>3 DEF r
  <2>7. CASE stops # {}
    <3> DEFINE s == Min(stops)
    <3>1. s \in stops /\ \A j \in stops : s <= j
      BY <2>5, <2>7, MinOfIndices
    <3> HIDE DEF s
    <3>2. s \in 1..h /\ (bad(s) <=> broken(s)) /\ (broken(s) \/ ~agrees(s))
      BY <2>2, <2>4, <2>5, <3>1 DEF bad, broken
    <3>3. \A j \in 1..(s - 1) : j \in 1..h /\ ~broken(j) /\ agrees(j)
      <4>1. \A j \in 1..(s - 1) : j \in 1..h /\ ~(s <= j)
        BY <1>2, <3>2
      <4> QED
        BY <2>4, <3>1, <4>1
    <3>4. r = IF bad(s) THEN Err("InvalidNetworkMaskConstraint") ELSE Ok(FALSE)
      BY <1>1, <1>7, <2>7 DEF s
    <3>5. CASE broken(s)
      <4>1. r.result # "Ok"
        BY <3>2, <3>4, <3>5 DEF Err
      <4>2. ~Reference!MaskUsable(n, b)
        BY <1>4, <1>7, <3>2, <3>3, <3>5
      <4> QED
        BY <4>1, <4>2 DEF r
    <3>6. CASE ~broken(s)
      <4>1. r.result = "Ok" /\ r.value = FALSE
        BY <3>2, <3>4, <3>6 DEF Ok
      <4>2. ~Reference!IpSatisfies(n, b)
        BY <1>3, <3>2, <3>6
      <4>3. \A i \in 1..h : broken(i) => s \in 1..(i - 1)
        <5>1. \A i \in 1..h : broken(i) => i \in stops /\ i # s
          BY <2>4, <3>6
        <5> QED
          BY <1>2, <3>1, <3>2, <5>1
      <4>4. Reference!MaskUsable(n, b)
        BY <1>4, <3>2, <3>6, <4>3
      <4> QED
        BY <1>7, <4>1, <4>2, <4>4 DEF r
    <3> QED
      BY <3>5, <3>6
  <2> QED
    BY <2>6, <2>7
<1> QED
  BY <1>5, <1>6, <1>7

-----------------------------------------------------------------------------
(* Subtrees.                                                               *)

\* A name and a constraint of its form that can be compared.
Fits(n, b) ==
    IF n.type = "DnsName" THEN n.value.valid /\ b.value.valid
    ELSE Len(n.value) \in {4, 16} /\ Len(b.value) \in {8, 32} /\ Reference!MaskUsable(n.value, b.value)

Compared == {"DnsName", "IpAddress"}
Refused  == {"DirectoryName", "Unsupported"}

LEMMA OutcomeMeans ==
    ASSUME NEW n, Reference!RegularName(n), NEW s, s.result = "Ok",
           Reference!RegularName(s.value), NEW excluded \in BOOLEAN
    PROVE  LET o == subtree_outcome(n, s, excluded)
               b == s.value
               applies == Reference!Applies(n, b)
           IN  /\ ~applies => o = "skip"
               /\ n.type \notin Compared \cup Refused => o = "skip"
               /\ applies /\ n.type = "DirectoryName" =>
                      o = IF excluded THEN "match" ELSE "mismatch"
               /\ applies /\ n.type = "Unsupported" => o = "NameConstraintViolation"
               /\ applies /\ n.type \in Compared =>
                      IF Fits(n, b)
                      THEN o = IF Reference!Satisfies(n, b) THEN "match" ELSE "mismatch"
                      ELSE o \notin {"Ok", "skip", "match", "mismatch"}
<1> DEFINE o == subtree_outcome(n, s, excluded)
           b == s.value
           applies == Reference!Applies(n, b)
           outcome(r) == IF r.result # "Ok" THEN r.result
                         ELSE IF r.value THEN "match" ELSE "mismatch"
           dns == dns_matches_constraint(n.value, b.value)
           ip == ip_matches_constraint(n.value, b.value)
<1>1. o = IF n.type # b.type THEN "skip"
          ELSE CASE n.type = "DnsName" -> outcome(dns)
                 [] n.type = "IpAddress" -> outcome(ip)
                 [] n.type = "DirectoryName" -> IF excluded THEN "match" ELSE "mismatch"
                 [] n.type = "Unsupported" ->
                        IF n.value = b.value THEN "NameConstraintViolation" ELSE "skip"
                 [] OTHER -> "skip"
  BY DEF subtree_outcome
<1>2. applies <=> n.type = b.type /\ (n.type = "Unsupported" => n.value = b.value)
  BY DEF Reference!Applies
<1>3. ASSUME applies, n.type = "DnsName"
      PROVE  IF Fits(n, b) THEN o = IF Reference!Satisfies(n, b) THEN "match" ELSE "mismatch"
             ELSE o \notin {"Ok", "skip", "match", "mismatch"}
  <2>1. IsSeq(n.value.labels) /\ IsSeq(b.value.labels)
    BY <1>2, <1>3, ReferenceTerms DEF Reference!RegularName
  <2>2. /\ dns.result = "Ok" <=> n.value.valid /\ b.value.valid
        /\ n.value.valid /\ b.value.valid =>
               (dns.value <=> Reference!DnsSatisfies(n.value, b.value))
    BY <2>1, DnsMeans
  <2>3. dns.result \notin {"skip", "match", "mismatch"}
    BY DEF dns_matches_constraint, Ok, Err
  <2>4. Reference!Satisfies(n, b) = Reference!DnsSatisfies(n.value, b.value)
    BY <1>3 DEF Reference!Satisfies
  <2>5. Fits(n, b) <=> n.value.valid /\ b.value.valid
    BY <1>3 DEF Fits
  <2>6. o = outcome(dns)
    BY <1>1, <1>2, <1>3
  <2> HIDE DEF dns
  <2> QED
    BY <2>2, <2>3, <2>4, <2>5, <2>6
<1>4. ASSUME applies, n.type = "IpAddress"
      PROVE  IF Fits(n, b) THEN o = IF Reference!Satisfies(n, b) THEN "match" ELSE "mismatch"
             ELSE o \notin {"Ok", "skip", "match", "mismatch"}
  <2>1. Reference!Octets(n.value) /\ Reference!Octets(b.value)
    BY <1>2, <1>4 DEF Reference!RegularName
  <2> DEFINE fits == /\ Len(n.value) \in {4, 16} /\ Len(b.value) \in {8, 32}
                     /\ Reference!MaskUsable(n.value, b.value)
  <2>2. /\ ip.result = "Ok" <=> fits
        /\ fits => (ip.value <=> Reference!IpSatisfies(n.value, b.value))
    BY <2>1, IpMeans
  <2>3. ip.result \notin {"skip", "match", "mismatch"}
    BY DEF ip_matches_constraint, Ok, Err
  <2>4. Reference!Satisfies(n, b) = Reference!IpSatisfies(n.value, b.value)
    BY <1>4 DEF Reference!Satisfies
  <2>5. Fits(n, b) <=> fits
    BY <1>4 DEF Fits
  <2>6. o = outcome(ip)
    BY <1>1, <1>2, <1>4
  <2> HIDE DEF ip, fits
  <2> QED
    BY <2>2, <2>3, <2>4, <2>5, <2>6
<1> HIDE DEF dns, ip
<1>5. ~applies => o = "skip"
  BY <1>1, <1>2
<1>6. n.type \notin Compared \cup Refused => o = "skip"
  BY <1>1 DEF Compared, Refused
<1>7. applies /\ n.type = "DirectoryName" => o = IF excluded THEN "match" ELSE "mismatch"
  BY <1>1, <1>2
<1>8. applies /\ n.type = "Unsupported" => o = "NameConstraintViolation"
  BY <1>1, <1>2
<1> HIDE DEF o, applies
<1>9. applies /\ n.type \in Compared =>
          IF Fits(n, b) THEN o = IF Reference!Satisfies(n, b) THEN "match" ELSE "mismatch"
          ELSE o \notin {"Ok", "skip", "match", "mismatch"}
  BY <1>3, <1>4 DEF Compared
<1> QED
  BY <1>5, <1>6, <1>7, <1>8, <1>9 DEF o, applies

\* One pass over the subtrees.
LEMMA SubtreesPass ==
    ASSUME NEW n, NEW sub, Len(sub) \in Nat, NEW excluded \in BOOLEAN
    PROVE  LET o(i) == subtree_outcome(n, sub[i], excluded)
           IN  check_subtrees(n, sub, excluded) = "Ok" <=>
                   /\ \A i \in 1..Len(sub) : \/ o(i) \in {"Ok", "skip", "mismatch"}
                                             \/ o(i) = "match" /\ ~excluded
                   /\ ~excluded /\ (\E i \in 1..Len(sub) : o(i) = "mismatch") =>
                          \E i \in 1..Len(sub) : o(i) = "match"
<1> DEFINE o(i) == subtree_outcome(n, sub[i], excluded)
           outcome == [i \in 1..Len(sub) |-> o(i)]
           said(w) == \E i \in 1..Len(sub) : outcome[i] = w
           verdict == [i \in 1..Len(sub) |->
               IF \/ outcome[i] \in {"skip", "mismatch"}
                  \/ outcome[i] = "match" /\ ~excluded THEN "Ok"
               ELSE IF outcome[i] = "match" THEN "NameConstraintViolation"
               ELSE outcome[i]]
           matched == ~excluded /\ said("mismatch") => said("match")
<1>1. check_subtrees(n, sub, excluded) =
        FirstErr(verdict) ?? Require(matched, "NameConstraintViolation")
  BY DEF check_subtrees
<1> HIDE DEF o
<1>2. \A i \in 1..Len(sub) : verdict[i] = "Ok" <=>
          \/ o(i) \in {"Ok", "skip", "mismatch"}
          \/ o(i) = "match" /\ ~excluded
  OBVIOUS
<1>3. DOMAIN verdict = 1..Len(sub)
  OBVIOUS
<1>4. matched <=> (~excluded /\ (\E i \in 1..Len(sub) : o(i) = "mismatch") =>
                       \E i \in 1..Len(sub) : o(i) = "match")
  OBVIOUS
<1> HIDE DEF verdict, matched
<1>5. FirstErr(verdict) = "Ok" <=> \A i \in 1..Len(sub) : verdict[i] = "Ok"
  BY <1>3, FirstErrPasses
<1>6. check_subtrees(n, sub, excluded) = "Ok" <=> FirstErr(verdict) = "Ok" /\ matched
  BY <1>1 DEF Require, ??
<1> QED
  BY <1>2, <1>4, <1>5, <1>6 DEF o

\* The subtrees of one kind that apply to a name allow it.
Allows(n, A, excluded) ==
    /\ n.type \in Refused => A = {}
    /\ n.type \in Compared =>
           /\ \A b \in A : Fits(n, b)
           /\ IF excluded THEN \A b \in A : ~Reference!Satisfies(n, b)
              ELSE A # {} => \E b \in A : Reference!Satisfies(n, b)

ApplyTo(n, B) == {b \in B : Reference!Applies(n, b)}

RegularList(sub) ==
    /\ IsSeq(sub) /\ AllResults(sub)
    /\ \A i \in DOMAIN sub : sub[i].result = "Ok" => Reference!RegularName(sub[i].value)

BasesOf(sub) == {s.value : s \in Reference!Range(sub)}

LEMMA SubtreesMean ==
    ASSUME NEW n, Reference!RegularName(n), NEW sub, RegularList(sub), NEW excluded \in BOOLEAN
    PROVE  check_subtrees(n, sub, excluded) = "Ok" <=>
               /\ \A i \in DOMAIN sub : sub[i].result = "Ok"
               /\ Allows(n, ApplyTo(n, BasesOf(sub)), excluded)
<1> DEFINE o(i) == subtree_outcome(n, sub[i], excluded)
           I == 1..Len(sub)
           A == ApplyTo(n, BasesOf(sub))
           passes == /\ \A i \in I : \/ o(i) \in {"Ok", "skip", "mismatch"}
                                     \/ o(i) = "match" /\ ~excluded
                     /\ ~excluded /\ (\E i \in I : o(i) = "mismatch") =>
                            \E i \in I : o(i) = "match"
<1>1. Len(sub) \in Nat /\ DOMAIN sub = I /\ \A i \in I : IsResult(sub[i])
  BY ListFacts DEF RegularList, AllResults
<1>2. check_subtrees(n, sub, excluded) = "Ok" <=> passes
  BY <1>1, SubtreesPass
<1>3. ASSUME NEW i \in I, sub[i].result # "Ok"
      PROVE  ~passes
  <2>1. o(i) = sub[i].result
    BY <1>3 DEF subtree_outcome
  <2>2. o(i) \notin {"Ok", "skip", "mismatch", "match"}
    BY <1>1, <1>3, <2>1 DEF IsResult, Results, Error, rank
  <2> HIDE DEF o
  <2> QED
    BY <1>3, <2>2
<1>4. ASSUME \A i \in I : sub[i].result = "Ok"
      PROVE  passes <=> Allows(n, A, excluded)
  <2> DEFINE b(i) == sub[i].value
             applies(i) == Reference!Applies(n, b(i))
  <2>1. \A x : x \in A <=> \E i \in I : x = b(i) /\ applies(i)
    BY <1>1, ReferenceTerms DEF ApplyTo, BasesOf
  <2>2. ASSUME NEW i \in I
        PROVE  /\ ~applies(i) => o(i) = "skip"
               /\ n.type \notin Compared \cup Refused => o(i) = "skip"
               /\ applies(i) /\ n.type = "DirectoryName" =>
                      o(i) = IF excluded THEN "match" ELSE "mismatch"
               /\ applies(i) /\ n.type = "Unsupported" => o(i) = "NameConstraintViolation"
               /\ applies(i) /\ n.type \in Compared =>
                      IF Fits(n, b(i))
                      THEN o(i) = IF Reference!Satisfies(n, b(i)) THEN "match" ELSE "mismatch"
                      ELSE o(i) \notin {"Ok", "skip", "match", "mismatch"}
    <3>1. sub[i].result = "Ok" /\ Reference!RegularName(sub[i].value)
      BY <1>1, <1>4 DEF RegularList
    <3> QED
      BY <3>1, OutcomeMeans
  <2> HIDE DEF o, applies, b, A, I
  <2>3. CASE n.type \notin Compared \cup Refused
    BY <2>2, <2>3 DEF Allows
  <2>4. CASE n.type = "DirectoryName"
    <3>1. passes <=> \A i \in I : ~applies(i)
      <4>1. \A i \in I : o(i) = IF ~applies(i) THEN "skip"
                                ELSE IF excluded THEN "match" ELSE "mismatch"
        BY <2>2, <2>4
      <4> QED
        BY <4>1
    <3>2. Allows(n, A, excluded) <=> A = {}
      BY <2>4 DEF Allows, Refused, Compared
    <3> QED
      BY <2>1, <3>1, <3>2
  <2>5. CASE n.type = "Unsupported"
    <3>1. passes <=> \A i \in I : ~applies(i)
      <4>1. \A i \in I : o(i) = IF ~applies(i) THEN "skip" ELSE "NameConstraintViolation"
        BY <2>2, <2>5
      <4> QED
        BY <4>1
    <3>2. Allows(n, A, excluded) <=> A = {}
      BY <2>5 DEF Allows, Refused, Compared
    <3> QED
      BY <2>1, <3>1, <3>2
  <2>6. CASE n.type \in Compared
    <3> DEFINE fits(i) == Fits(n, b(i))
               sat(i) == Reference!Satisfies(n, b(i))
    <3>1. \A i \in I : /\ ~applies(i) => o(i) = "skip"
                       /\ applies(i) /\ fits(i) => o(i) = IF sat(i) THEN "match" ELSE "mismatch"
                       /\ applies(i) /\ ~fits(i) => o(i) \notin {"Ok", "skip", "match", "mismatch"}
      BY <2>2, <2>6
    <3>2. Allows(n, A, excluded) <=>
              /\ \A x \in A : Fits(n, x)
              /\ IF excluded THEN \A x \in A : ~Reference!Satisfies(n, x)
                 ELSE A # {} => \E x \in A : Reference!Satisfies(n, x)
      BY <2>6 DEF Allows, Refused, Compared
    <3>3. (\A x \in A : Fits(n, x)) <=> \A i \in I : applies(i) => fits(i)
      BY <2>1
    <3>4. (\A x \in A : ~Reference!Satisfies(n, x)) <=> \A i \in I : applies(i) => ~sat(i)
      BY <2>1
    <3>5. (A # {}) <=> \E i \in I : applies(i)
      BY <2>1
    <3>6. (\E x \in A : Reference!Satisfies(n, x)) <=> \E i \in I : applies(i) /\ sat(i)
      BY <2>1
    <3> HIDE DEF fits, sat
    <3>7. CASE excluded = TRUE
      <4>1. passes <=> \A i \in I : o(i) \in {"Ok", "skip", "mismatch"}
        BY <3>7
      <4>2. (\A i \in I : o(i) \in {"Ok", "skip", "mismatch"}) <=>
                \A i \in I : applies(i) => fits(i) /\ ~sat(i)
        BY <3>1
      <4> QED
        BY <3>2, <3>3, <3>4, <3>7, <4>1, <4>2
    <3>8. CASE excluded = FALSE
      <4>1. passes <=> /\ \A i \in I : o(i) \in {"Ok", "skip", "mismatch", "match"}
                       /\ (\E i \in I : o(i) = "mismatch") => \E i \in I : o(i) = "match"
        BY <3>8
      <4>2. (\A i \in I : o(i) \in {"Ok", "skip", "mismatch", "match"}) <=>
                \A i \in I : applies(i) => fits(i)
        BY <3>1
      <4>3. ASSUME \A i \in I : applies(i) => fits(i)
            PROVE  ((\E i \in I : o(i) = "mismatch") => \E i \in I : o(i) = "match") <=>
                       ((\E i \in I : applies(i)) => \E i \in I : applies(i) /\ sat(i))
        <5>1. \A i \in I : /\ o(i) = "match" <=> applies(i) /\ sat(i)
                           /\ o(i) = "mismatch" <=> applies(i) /\ ~sat(i)
          BY <3>1, <4>3
        <5> QED
          BY <5>1
      <4> HIDE DEF passes
      <4> QED
        BY <3>2, <3>3, <3>5, <3>6, <3>8, <4>1, <4>2, <4>3
    <3> QED
      BY <3>7, <3>8
  <2> QED
    BY <2>3, <2>4, <2>5, <2>6 DEF Refused
<1> HIDE DEF passes
<1> QED
  BY <1>1, <1>2, <1>3, <1>4

LEMMA AllowedMeans ==
    ASSUME NEW n, NEW P, NEW X
    PROVE  Reference!NameAllowed(n, P, X) <=>
               Allows(n, ApplyTo(n, P), FALSE) /\ Allows(n, ApplyTo(n, X), TRUE)
<1> DEFINE p == ApplyTo(n, P)
           x == ApplyTo(n, X)
<1>1. Reference!NameAllowed(n, P, X) =
          CASE n.type \in {"DirectoryName", "Unsupported"} -> p \cup x = {}
            [] n.type \in {"DnsName", "IpAddress"} ->
                   /\ n.type = "DnsName" /\ p \cup x # {} =>
                          n.value.valid /\ \A b \in p \cup x : b.value.valid
                   /\ n.type = "IpAddress" /\ p \cup x # {} =>
                          /\ Len(n.value) \in {4, 16}
                          /\ \A b \in p \cup x : /\ Len(b.value) \in {8, 32}
                                                 /\ Reference!MaskUsable(n.value, b.value)
                   /\ p # {} => \E b \in p : Reference!Satisfies(n, b)
                   /\ \A b \in x : ~Reference!Satisfies(n, b)
            [] OTHER -> TRUE
  BY DEF Reference!NameAllowed, ApplyTo
<1> HIDE DEF p, x
<1>2. CASE n.type \in Refused
  BY <1>1, <1>2 DEF Refused, Compared, Allows, p, x
<1>3. CASE n.type \in Compared
  <2>1. Reference!NameAllowed(n, P, X) <=>
            /\ \A b \in p \cup x : Fits(n, b)
            /\ p # {} => \E b \in p : Reference!Satisfies(n, b)
            /\ \A b \in x : ~Reference!Satisfies(n, b)
    <3>1. CASE n.type = "DnsName"
      BY <1>1, <3>1 DEF Fits
    <3>2. CASE n.type = "IpAddress"
      BY <1>1, <3>2 DEF Fits
    <3> QED
      BY <1>3, <3>1, <3>2 DEF Compared
  <2>2. /\ Allows(n, p, FALSE) <=> /\ \A b \in p : Fits(n, b)
                                   /\ p # {} => \E b \in p : Reference!Satisfies(n, b)
        /\ Allows(n, x, TRUE) <=> /\ \A b \in x : Fits(n, b)
                                  /\ \A b \in x : ~Reference!Satisfies(n, b)
    BY <1>3 DEF Allows, Compared, Refused
  <2> QED
    BY <2>1, <2>2 DEF p, x
<1>4. CASE n.type \notin Refused \cup Compared
  BY <1>1, <1>4 DEF Refused, Compared, Allows
<1> QED
  BY <1>2, <1>3, <1>4

-----------------------------------------------------------------------------
(* Names of a certificate.                                                 *)

RegularOption(o) == IsSome(o) => RegularList(The(o))

AllDecoded(permitted, excluded) ==
    \A s \in Reference!Elements(permitted) \cup Reference!Elements(excluded) : s.result = "Ok"

\* The name n is allowed by the decoded subtrees.
AllowedBy(n, permitted, excluded) ==
    Reference!NameAllowed(n, {b.value : b \in Reference!Elements(permitted)},
                             {b.value : b \in Reference!Elements(excluded)})

LEMMA OptionMeans ==
    ASSUME NEW n, Reference!RegularName(n), NEW o, RegularOption(o), NEW excluded \in BOOLEAN
    PROVE  (IF IsSome(o) THEN check_subtrees(n, The(o), excluded) ELSE "Ok") = "Ok" <=>
               /\ \A s \in Reference!Elements(o) : s.result = "Ok"
               /\ Allows(n, ApplyTo(n, {b.value : b \in Reference!Elements(o)}), excluded)
<1>1. CASE IsSome(o)
  <2>1. Reference!Elements(o) = Reference!Range(The(o))
    BY <1>1, ReferenceTerms DEF Reference!Elements
  <2>2. (\A s \in Reference!Range(The(o)) : s.result = "Ok") <=>
            \A i \in DOMAIN The(o) : The(o)[i].result = "Ok"
    BY ReferenceTerms
  <2>3. BasesOf(The(o)) = {b.value : b \in Reference!Elements(o)}
    BY <2>1 DEF BasesOf
  <2>4. check_subtrees(n, The(o), excluded) = "Ok" <=>
            /\ \A i \in DOMAIN The(o) : The(o)[i].result = "Ok"
            /\ Allows(n, ApplyTo(n, BasesOf(The(o))), excluded)
    BY <1>1, SubtreesMean DEF RegularOption
  <2> QED
    BY <1>1, <2>1, <2>2, <2>3, <2>4
<1>2. CASE ~IsSome(o)
  <2>1. Reference!Elements(o) = {}
    BY <1>2, ReferenceTerms DEF Reference!Elements
  <2>2. ApplyTo(n, {b.value : b \in Reference!Elements(o)}) = {}
    BY <2>1 DEF ApplyTo
  <2>3. Allows(n, {}, excluded)
    BY DEF Allows
  <2> QED
    BY <1>2, <2>1, <2>2, <2>3
<1> QED
  BY <1>1, <1>2

LEMMA ConformsMeans ==
    ASSUME NEW n, Reference!RegularName(n), NEW permitted, RegularOption(permitted),
           NEW excluded, RegularOption(excluded)
    PROVE  check_presented_id_conforms_to_constraints(n, permitted, excluded) = "Ok" <=>
               AllDecoded(permitted, excluded) /\ AllowedBy(n, permitted, excluded)
<1> DEFINE p == IF IsSome(permitted) THEN check_subtrees(n, The(permitted), FALSE) ELSE "Ok"
           x == IF IsSome(excluded) THEN check_subtrees(n, The(excluded), TRUE) ELSE "Ok"
           P == {b.value : b \in Reference!Elements(permitted)}
           X == {b.value : b \in Reference!Elements(excluded)}
<1>1. p = "Ok" <=> /\ \A s \in Reference!Elements(permitted) : s.result = "Ok"
                   /\ Allows(n, ApplyTo(n, P), FALSE)
  BY OptionMeans
<1>2. x = "Ok" <=> /\ \A s \in Reference!Elements(excluded) : s.result = "Ok"
                   /\ Allows(n, ApplyTo(n, X), TRUE)
  BY OptionMeans
<1>3. check_presented_id_conforms_to_constraints(n, permitted, excluded) = p ?? x
  BY DEF check_presented_id_conforms_to_constraints
<1>4. AllowedBy(n, permitted, excluded) <=>
          Allows(n, ApplyTo(n, P), FALSE) /\ Allows(n, ApplyTo(n, X), TRUE)
  BY AllowedMeans DEF AllowedBy
<1> HIDE DEF p, x, P, X
<1>5. p ?? x = "Ok" <=> p = "Ok" /\ x = "Ok"
  BY DEF ??
<1> QED
  BY <1>1, <1>2, <1>3, <1>4, <1>5 DEF AllDecoded

\* Only the form and the value of a name matter.
LEMMA SameName ==
    ASSUME NEW m, NEW n, m.type = n.type, m.value = n.value, NEW permitted, NEW excluded
    PROVE  /\ AllowedBy(m, permitted, excluded) <=> AllowedBy(n, permitted, excluded)
           /\ Reference!RegularName(m) <=> Reference!RegularName(n)
<1>1. \A b : Reference!Applies(m, b) <=> Reference!Applies(n, b)
  BY DEF Reference!Applies
<1>2. \A b : Reference!Satisfies(m, b) = Reference!Satisfies(n, b)
  BY DEF Reference!Satisfies
<1>3. \A b : Fits(m, b) <=> Fits(n, b)
  BY DEF Fits
<1>4. \A B : ApplyTo(m, B) = ApplyTo(n, B)
  BY <1>1 DEF ApplyTo
<1>5. \A A : \A e \in BOOLEAN : Allows(m, A, e) <=> Allows(n, A, e)
  BY <1>2, <1>3 DEF Allows
<1>6. \A P, X : Reference!NameAllowed(m, P, X) <=> Reference!NameAllowed(n, P, X)
  BY <1>4, <1>5, AllowedMeans
<1>7. AllowedBy(m, permitted, excluded) <=> AllowedBy(n, permitted, excluded)
  BY <1>6 DEF AllowedBy
<1> QED
  BY <1>7 DEF Reference!RegularName

LEMMA NamesMean ==
    ASSUME NEW c, CertWellFormed(c), Reference!RegularCert(c), NEW dns_cn \in BOOLEAN,
           NEW permitted, RegularOption(permitted), NEW excluded, RegularOption(excluded)
    PROVE  check_names(c, permitted, excluded, dns_cn) = "Ok" <=>
               /\ AllDecoded(permitted, excluded)
               /\ \A n \in Reference!NamesOf(c, dns_cn) :
                      n.result = "Ok" /\ AllowedBy(n.value, permitted, excluded)
<1> DEFINE decoded == AllDecoded(permitted, excluded)
           allowed(n) == AllowedBy(n, permitted, excluded)
           conforms(type, value) ==
               check_presented_id_conforms_to_constraints(
                   [type |-> type, value |-> value], permitted, excluded)
           san == IF IsSome(c.subject_alt_name) THEN The(c.subject_alt_name) ELSE << >>
           cn == c.common_name
           verdict == [i \in 1..Len(san) |->
               san[i].result ?? conforms(san[i].value.type, san[i].value.value)]
           last == IF ~dns_cn THEN "Ok"
                   ELSE cn.result ?? (IF IsSome(cn.value)
                                      THEN conforms("DnsName", The(cn.value)) ELSE "Ok")
           subject == [type |-> "DirectoryName", value |-> c.subject]
           common == IF ~dns_cn THEN {}
                     ELSE IF cn.result # "Ok" THEN {cn}
                     ELSE {Ok([type |-> "DnsName", value |-> n]) : n \in Reference!Range(cn.value)}
           fine(n) == n.result = "Ok" /\ allowed(n.value)
<1>1. check_names(c, permitted, excluded, dns_cn) =
        FirstErr(verdict) ?? conforms("DirectoryName", c.subject) ?? last
  BY DEF check_names
<1>2. Reference!NamesOf(c, dns_cn) =
          Reference!Elements(c.subject_alt_name) \cup {Ok(subject)} \cup common
  BY ReferenceTerms DEF Reference!NamesOf
<1>3. \A v : Ok(v).result = "Ok" /\ Ok(v).value = v
  BY DEF Ok
<1>4. ASSUME NEW n, Reference!RegularName(n)
      PROVE  conforms(n.type, n.value) = "Ok" <=> decoded /\ allowed(n)
  <2> DEFINE m == [type |-> n.type, value |-> n.value]
  <2>1. m.type = n.type /\ m.value = n.value
    OBVIOUS
  <2> HIDE DEF m
  <2>2. Reference!RegularName(m) /\ (allowed(m) <=> allowed(n))
    BY <1>4, <2>1, SameName
  <2>3. check_presented_id_conforms_to_constraints(m, permitted, excluded) = "Ok" <=>
            decoded /\ allowed(m)
    BY <2>2, ConformsMeans
  <2> QED
    BY <2>2, <2>3 DEF m
<1>5. subject.type = "DirectoryName" /\ subject.value = c.subject
  OBVIOUS
<1>6. conforms("DirectoryName", c.subject) = "Ok" <=> decoded /\ allowed(subject)
  <2>1. Reference!RegularName(subject)
    BY <1>5 DEF Reference!RegularName
  <2>2. conforms(subject.type, subject.value) = "Ok" <=> decoded /\ allowed(subject)
    BY <1>4, <2>1
  <2> QED
    BY <1>5, <2>2
<1>7. /\ Len(san) \in Nat /\ DOMAIN san = 1..Len(san)
      /\ \A i \in DOMAIN san : san[i].result = "Ok" => Reference!RegularName(san[i].value)
      /\ Reference!Elements(c.subject_alt_name) = {san[i] : i \in DOMAIN san}
  <2>1. CASE IsSome(c.subject_alt_name)
    <3>1. san = The(c.subject_alt_name)
      BY <2>1
    <3>2. /\ IsSeq(san)
          /\ \A i \in DOMAIN san : san[i].result = "Ok" => Reference!RegularName(san[i].value)
      BY <2>1, <3>1, ReferenceTerms DEF Reference!RegularCert
    <3>3. Reference!Elements(c.subject_alt_name) = {san[i] : i \in DOMAIN san}
      BY <2>1, <3>1, ReferenceTerms DEF Reference!Elements
    <3> QED
      BY <3>2, <3>3, ListFacts
  <2>2. CASE ~IsSome(c.subject_alt_name)
    <3>1. san = << >> /\ Reference!Elements(c.subject_alt_name) = {}
      BY <2>2, ReferenceTerms DEF Reference!Elements
    <3> HIDE DEF san
    <3> QED
      BY <3>1
  <2> QED
    BY <2>1, <2>2
<1> HIDE DEF san, conforms, allowed, decoded, subject, cn
<1>8. FirstErr(verdict) = "Ok" <=>
          \A i \in 1..Len(san) : san[i].result = "Ok" /\ decoded /\ allowed(san[i].value)
  <2>1. \A i \in 1..Len(san) : verdict[i] = "Ok" <=>
            san[i].result = "Ok" /\ decoded /\ allowed(san[i].value)
    <3> TAKE i \in 1..Len(san)
    <3>1. verdict[i] = san[i].result ?? conforms(san[i].value.type, san[i].value.value)
      OBVIOUS
    <3>2. san[i].result = "Ok" =>
              (conforms(san[i].value.type, san[i].value.value) = "Ok" <=>
                   decoded /\ allowed(san[i].value))
      BY <1>4, <1>7
    <3> HIDE DEF verdict
    <3> QED
      BY <3>1, <3>2 DEF ??
  <2>2. DOMAIN verdict = 1..Len(san)
    OBVIOUS
  <2>3. Len(san) \in Nat
    BY <1>7
  <2> HIDE DEF verdict
  <2>4. FirstErr(verdict) = "Ok" <=> \A i \in 1..Len(san) : verdict[i] = "Ok"
    BY <2>2, <2>3, FirstErrPasses
  <2> QED
    BY <2>1, <2>4
<1>9. decoded => (last = "Ok" <=> \A n \in common : fine(n))
  <2>1. CASE ~dns_cn
    BY <2>1
  <2>2. CASE dns_cn /\ cn.result # "Ok"
    BY <2>2 DEF ??
  <2>3. CASE dns_cn /\ cn.result = "Ok" /\ ~IsSome(cn.value)
    <3>1. cn.value = << >>
      BY <2>3 DEF IsSome
    <3>2. Reference!Range(cn.value) = {}
      BY <3>1, ReferenceTerms
    <3>3. common = {}
      BY <2>3, <3>2
    <3>4. last = "Ok"
      BY <2>3 DEF ??
    <3> QED
      BY <3>3, <3>4
  <2>4. CASE dns_cn /\ cn.result = "Ok" /\ IsSome(cn.value)
    <3> DEFINE n == [type |-> "DnsName", value |-> The(cn.value)]
    <3>1. DOMAIN cn.value = {1} /\ IsSeq(The(cn.value).labels)
      BY <2>4, ReferenceTerms DEF Reference!RegularCert, cn
    <3>2. Reference!Range(cn.value) = {The(cn.value)}
      BY <3>1, ReferenceTerms DEF The
    <3>3. common = {Ok(n)}
      BY <2>4, <3>2
    <3>4. n.type = "DnsName" /\ n.value = The(cn.value)
      OBVIOUS
    <3>5. last = conforms("DnsName", The(cn.value))
      BY <2>4 DEF ??
    <3> HIDE DEF n, last, common
    <3>6. Reference!RegularName(n)
      BY <3>1, <3>4, ReferenceTerms DEF Reference!RegularName
    <3>7. conforms(n.type, n.value) = "Ok" <=> decoded /\ allowed(n)
      BY <1>4, <3>6
    <3>8. (\A x \in common : fine(x)) <=> allowed(n)
      BY <1>3, <3>3
    <3> QED
      BY <3>4, <3>5, <3>7, <3>8
  <2> QED
    BY <2>1, <2>2, <2>3, <2>4
<1> HIDE DEF verdict, last, common
<1>10. (\A n \in Reference!NamesOf(c, dns_cn) : fine(n)) <=>
           /\ \A i \in 1..Len(san) : san[i].result = "Ok" /\ allowed(san[i].value)
           /\ allowed(subject)
           /\ \A n \in common : fine(n)
  BY <1>2, <1>3, <1>7
<1>11. check_names(c, permitted, excluded, dns_cn) = "Ok" <=>
           /\ FirstErr(verdict) = "Ok"
           /\ conforms("DirectoryName", c.subject) = "Ok" /\ last = "Ok"
  BY <1>1 DEF ??
<1> QED
  BY <1>6, <1>8, <1>9, <1>10, <1>11 DEF decoded, allowed

LEMMA SubtreesRegular ==
    ASSUME NEW r, r.result = "Ok", SubtreesWellFormed(r), Reference!RegularSubtrees(r)
    PROVE  RegularOption(r.value)
<1>1. ASSUME IsSome(r.value) PROVE RegularList(The(r.value))
  <2>1. AllResults(The(r.value))
    BY <1>1 DEF SubtreesWellFormed, OptionalSubtrees
  <2>2. /\ IsSeq(The(r.value))
        /\ \A i \in DOMAIN The(r.value) : The(r.value)[i].result = "Ok" =>
               Reference!RegularName(The(r.value)[i].value)
    BY <1>1, ReferenceTerms DEF Reference!RegularSubtrees
  <2> QED
    BY <2>1, <2>2 DEF RegularList
<1> QED
  BY <1>1 DEF RegularOption

\* The constraints of an issuer, over all the certificates below it.
LEMMA ConstraintsMean ==
    ASSUME NEW o, ConstraintsWellFormed(o), Reference!RegularConstraints(o),
           NEW chain, Len(chain) \in Nat \ {0}, NEW dns_cn \in BOOLEAN,
           \A i \in 1..Len(chain) : CertWellFormed(chain[i]) /\ Reference!RegularCert(chain[i])
    PROVE  check_name_constraints(o, chain, dns_cn) = "Ok" <=>
               \A j \in 1..Len(chain) : Reference!Constrains(o, chain[j], dns_cn)
<1> DEFINE nc == The(o)
           p == nc.permitted
           x == nc.excluded
           names(c) == check_names(c, p.value, x.value, dns_cn)
           verdict == [i \in 1..Len(chain) |-> names(chain[Len(chain) + 1 - i])]
           allowed(c) == /\ AllDecoded(p.value, x.value)
                         /\ \A n \in Reference!NamesOf(c, dns_cn) :
                                n.result = "Ok" /\ AllowedBy(n.value, p.value, x.value)
<1>1. CASE ~IsSome(o)
  BY <1>1, ReferenceTerms DEF check_name_constraints, Reference!Constrains
<1>2. CASE IsSome(o)
  <2>1. \A c : Reference!Constrains(o, c, dns_cn) <=>
                   p.result = "Ok" /\ x.result = "Ok" /\ ~nc.trailing /\ allowed(c)
    BY <1>2, ReferenceTerms DEF Reference!Constrains, AllDecoded, AllowedBy
  <2>2. check_name_constraints(o, chain, dns_cn) =
            read_all(nc.trailing, p.result ?? x.result ?? FirstErr(verdict))
    BY <1>2 DEF check_name_constraints
  <2>3. DOMAIN verdict = 1..Len(chain)
    OBVIOUS
  <2>4. \A i \in 1..Len(chain) : Len(chain) + 1 - i \in 1..Len(chain)
    OBVIOUS
  <2>5. \A i \in 1..Len(chain) : Len(chain) + 1 - (Len(chain) + 1 - i) = i
    OBVIOUS
  <2>6. (\A i \in 1..Len(chain) : verdict[i] = "Ok") <=>
            \A j \in 1..Len(chain) : names(chain[j]) = "Ok"
    <3>1. \A i \in 1..Len(chain) : verdict[i] = names(chain[Len(chain) + 1 - i])
      OBVIOUS
    <3> HIDE DEF verdict, names
    <3> QED
      BY <2>4, <2>5, <3>1
  <2>7. ASSUME p.result = "Ok", x.result = "Ok", NEW j \in 1..Len(chain)
        PROVE  names(chain[j]) = "Ok" <=> allowed(chain[j])
    <3>1. RegularOption(p.value) /\ RegularOption(x.value)
      BY <1>2, <2>7, SubtreesRegular, ReferenceTerms
         DEF ConstraintsWellFormed, Reference!RegularConstraints
    <3> QED
      BY <3>1, NamesMean
  <2> HIDE DEF verdict, names, allowed
  <2>8. FirstErr(verdict) = "Ok" <=> \A i \in 1..Len(chain) : verdict[i] = "Ok"
    BY <2>3, FirstErrPasses
  <2>9. check_name_constraints(o, chain, dns_cn) = "Ok" <=>
            p.result = "Ok" /\ x.result = "Ok" /\ FirstErr(verdict) = "Ok" /\ ~nc.trailing
    BY <2>2 DEF read_all, Require, ??
  <2>10. 1 \in 1..Len(chain)
    OBVIOUS
  <2> QED
    BY <2>1, <2>6, <2>7, <2>8, <2>9, <2>10
<1> QED
  BY <1>1, <1>2

-----------------------------------------------------------------------------
(* Paths.                                                                  *)

\* What is used of the issuer of position i.
issuer_subject(path, anchor, i) ==
    IF i = Len(path) THEN anchor.subject ELSE path[i + 1].subject

issuer_constraints(path, anchor, i) ==
    IF i = Len(path) THEN anchor.name_constraints ELSE path[i + 1].name_constraints

is_server_end_entity(in, i) == i = 1 /\ in.eku.oid = "id-kp-serverAuth"

LEMMA AtMeans ==
    ASSUME NEW in, NEW path, NEW anchor, NEW i
    PROVE  Reference!TrustedAt(in, path, anchor, i) <=>
               /\ /\ Reference!Current(path[i], in.time)
                  /\ Reference!RoleAllowed(path[i], i)
                  /\ Reference!PurposeAllowed(path[i], in.eku)
               /\ path[i].issuer = issuer_subject(path, anchor, i)
               /\ /\ Reference!Verifies(in.supported_sig_algs, issuer_spki(path, anchor, i),
                                        path[i].signed_data)
                  /\ Reference!NotRevoked(in, path[i], i > 1, issuer_spki(path, anchor, i),
                                          issuer_key_usage(path, i))
               /\ \A j \in 1..i : Reference!Constrains(issuer_constraints(path, anchor, i),
                                                       path[j], is_server_end_entity(in, i))
<1> DEFINE issuer == IF i = Len(path)
                     THEN [subject |-> anchor.subject, spki |-> anchor.spki, key_usage |-> None,
                           name_constraints |-> anchor.name_constraints]
                     ELSE path[i + 1]
<1>1. /\ issuer.subject = issuer_subject(path, anchor, i)
      /\ issuer.spki = issuer_spki(path, anchor, i)
      /\ issuer.key_usage = issuer_key_usage(path, i)
      /\ issuer.name_constraints = issuer_constraints(path, anchor, i)
  BY DEF issuer_subject, issuer_spki, issuer_key_usage, issuer_constraints
<1>2. Reference!TrustedAt(in, path, anchor, i) <=>
          /\ Reference!Current(path[i], in.time) /\ Reference!RoleAllowed(path[i], i)
          /\ Reference!PurposeAllowed(path[i], in.eku)
          /\ path[i].issuer = issuer.subject
          /\ Reference!Verifies(in.supported_sig_algs, issuer.spki, path[i].signed_data)
          /\ Reference!NotRevoked(in, path[i], i > 1, issuer.spki, issuer.key_usage)
          /\ \A j \in 1..i : Reference!Constrains(issuer.name_constraints, path[j],
                                                  is_server_end_entity(in, i))
  BY ReferenceTerms DEF Reference!TrustedAt, is_server_end_entity
<1> HIDE DEF issuer
<1> QED
  BY <1>1, <1>2

LEMMA CertsRegular ==
    ASSUME NEW in, InputWellFormed(in), Reference!Regular(in), NEW c \in CertsOf(in)
    PROVE  CertWellFormed(c) /\ Reference!RegularCert(c)
<1>1. /\ DOMAIN in.intermediate_certs = 1..Len(in.intermediate_certs)
      /\ \A i \in DOMAIN in.intermediate_certs : in.intermediate_certs[i].result = "Ok" =>
             Reference!RegularCert(in.intermediate_certs[i].value)
      /\ Reference!RegularCert(in.cert)
  BY ListFacts, ReferenceTerms DEF Reference!Regular
<1>2. Reference!RegularCert(c)
  BY <1>1 DEF CertsOf
<1> QED
  BY <1>2 DEF InputWellFormed

ConstraintsRegular(o) == ConstraintsWellFormed(o) /\ Reference!RegularConstraints(o)

RegularPath(in, path) ==
    /\ Len(path) \in Nat \ {0}
    /\ \A i \in 1..Len(path) : CertWellFormed(path[i]) /\ Reference!RegularCert(path[i])

ConstrainsAt(in, path, anchor, i) ==
    \A j \in 1..i : Reference!Constrains(issuer_constraints(path, anchor, i),
                                         path[j], is_server_end_entity(in, i))

LEMMA BelowMeans ==
    ASSUME NEW in, NEW path, RegularPath(in, path), NEW i \in 1..Len(path), NEW o,
           ConstraintsRegular(o), NEW chain, Len(chain) = i, \A j \in 1..i : chain[j] = path[j]
    PROVE  check_name_constraints(o, chain, subject_common_name_is_dns_name(in, i)) = "Ok" <=>
               \A j \in 1..i : Reference!Constrains(o, path[j], is_server_end_entity(in, i))
<1> DEFINE cn == is_server_end_entity(in, i)
<1>1. i \in Nat \ {0} /\ \A j \in 1..i : j \in 1..Len(path)
  BY DEF RegularPath
<1>2. subject_common_name_is_dns_name(in, i) = cn
  BY <1>1 DEF subject_common_name_is_dns_name, key_purpose_id_equals, EKU_SERVER_AUTH,
     used_as_ca, is_server_end_entity
<1>3. cn \in BOOLEAN
  BY DEF is_server_end_entity
<1>4. \A j \in 1..i : CertWellFormed(chain[j]) /\ Reference!RegularCert(chain[j])
  BY <1>1 DEF RegularPath
<1> HIDE DEF cn
<1>5. check_name_constraints(o, chain, cn) = "Ok" <=>
          \A j \in 1..i : Reference!Constrains(o, chain[j], cn)
  BY <1>1, <1>3, <1>4, ConstraintsMean DEF ConstraintsRegular
<1> QED
  BY <1>2, <1>5 DEF cn

LEMMA NamesAllowedMeans ==
    ASSUME NEW in, NEW path, RegularPath(in, path), NEW anchor,
           ConstraintsRegular(anchor.name_constraints)
    PROVE  NamesAllowed(in, path, anchor) <=>
               \A i \in 1..Len(path) : ConstrainsAt(in, path, anchor, i)
<1> DEFINE n == Len(path)
<1>1. n \in Nat \ {0} /\ n \in 1..n
  BY DEF RegularPath
<1>2. check_name_constraints(anchor.name_constraints, path,
          subject_common_name_is_dns_name(in, n)) = "Ok" <=> ConstrainsAt(in, path, anchor, n)
  <2>1. issuer_constraints(path, anchor, n) = anchor.name_constraints
    BY DEF issuer_constraints
  <2> QED
    BY <1>1, <2>1, BelowMeans DEF ConstrainsAt
<1>3. ASSUME NEW i \in 2..n
      PROVE  check_name_constraints(path[i].name_constraints, Below(path, i),
                 subject_common_name_is_dns_name(in, i - 1)) = "Ok" <=>
                 ConstrainsAt(in, path, anchor, i - 1)
  <2>1. i - 1 \in 1..n /\ i - 1 # n /\ (i - 1) + 1 = i /\ i \in 1..n
    BY <1>1
  <2>2. issuer_constraints(path, anchor, i - 1) = path[i].name_constraints
    BY <2>1 DEF issuer_constraints
  <2>3. Len(Below(path, i)) = i - 1 /\ \A j \in 1..(i - 1) : Below(path, i)[j] = path[j]
    BY <2>1 DEF Below
  <2>4. ConstraintsRegular(path[i].name_constraints)
    BY <2>1 DEF RegularPath, ConstraintsRegular, CertWellFormed, Reference!RegularCert
  <2> DEFINE h == i - 1
             o == path[i].name_constraints
             chain == Below(path, i)
  <2>5. check_name_constraints(o, chain, subject_common_name_is_dns_name(in, h)) = "Ok" <=>
            \A j \in 1..h : Reference!Constrains(o, path[j], is_server_end_entity(in, h))
    <3>1. h \in 1..n /\ Len(chain) = h /\ \A j \in 1..h : chain[j] = path[j]
      BY <2>1, <2>3
    <3>2. ConstraintsRegular(o)
      BY <2>4
    <3> HIDE DEF h, o, chain
    <3> QED
      BY <3>1, <3>2, BelowMeans
  <2> QED
    BY <2>2, <2>5 DEF ConstrainsAt
<1>4. \A i \in 1..n : i = n \/ (i + 1 \in 2..n /\ (i + 1) - 1 = i)
  BY <1>1
<1>5. \A i \in 2..n : i - 1 \in 1..n
  BY <1>1
<1>6. NamesAllowed(in, path, anchor) <=>
          /\ \A i \in 2..n : ConstrainsAt(in, path, anchor, i - 1)
          /\ ConstrainsAt(in, path, anchor, n)
  BY <1>2, <1>3 DEF NamesAllowed
<1> HIDE DEF n
<1> QED
  <2>1. (\A i \in 2..n : ConstrainsAt(in, path, anchor, i - 1)) /\ ConstrainsAt(in, path, anchor, n)
            <=> \A i \in 1..n : ConstrainsAt(in, path, anchor, i)
    BY <1>1, <1>4, <1>5
  <2> QED
    BY <1>6, <2>1 DEF n

LEMMA LinkedMeans ==
    ASSUME NEW path, Len(path) \in Nat \ {0}, NEW anchor
    PROVE  Linked(path, anchor) <=>
               \A i \in 1..Len(path) : path[i].issuer = issuer_subject(path, anchor, i)
<1> DEFINE n == Len(path)
           at(i) == path[i].issuer = issuer_subject(path, anchor, i)
<1>1. n \in 1..n
  OBVIOUS
<1>2. at(n) <=> anchor.subject = path[n].issuer
  BY DEF issuer_subject
<1>3. \A i \in 2..n : at(i - 1) <=> path[i].subject = path[i - 1].issuer
  <2> TAKE i \in 2..n
  <2>1. i - 1 # n /\ (i - 1) + 1 = i
    OBVIOUS
  <2> QED
    BY <2>1 DEF issuer_subject
<1>4. \A i \in 1..n : i = n \/ (i + 1 \in 2..n /\ (i + 1) - 1 = i)
  OBVIOUS
<1>5. \A i \in 2..n : i - 1 \in 1..n
  OBVIOUS
<1> HIDE DEF at
<1>6. (\A i \in 1..n : at(i)) <=> (\A i \in 2..n : at(i - 1)) /\ at(n)
  BY <1>1, <1>4, <1>5
<1>7. Linked(path, anchor) <=> (\A i \in 2..n : at(i - 1)) /\ at(n)
  BY <1>2, <1>3 DEF Linked
<1> QED
  BY <1>6, <1>7 DEF at

LEMMA LengthMeans ==
    ASSUME NEW n \in Nat \ {0}
    PROVE  n <= MAX_SUB_CA_COUNT + 1 <=> \A i \in 1..n : i > 1 => SubCas(i) < MAX_SUB_CA_COUNT
<1>1. MAX_SUB_CA_COUNT \in Nat
  BY BoundsAssumption
<1>2. \A i \in 1..n : n <= MAX_SUB_CA_COUNT + 1 /\ i > 1 => SubCas(i) < MAX_SUB_CA_COUNT
  BY <1>1 DEF SubCas
<1>3. n \in 1..n
  OBVIOUS
<1>4. (n > 1 => SubCas(n) < MAX_SUB_CA_COUNT) => n <= MAX_SUB_CA_COUNT + 1
  BY <1>1 DEF SubCas
<1> QED
  BY <1>2, <1>3, <1>4

\* A trusted path is one on which all the checks of the code pass.
LEMMA TrustedPathMeans ==
    ASSUME NEW in, InputWellFormed(in), Reference!Regular(in),
           NEW path \in Seq(CertsOf(in)), path # << >>, path[1] = in.cert,
           NEW anchor, ConstraintsRegular(anchor.name_constraints)
    PROVE  Reference!TrustedPath(in, path, anchor) <=> ValidPath(in, path, anchor)
<1> DEFINE n == Len(path)
           place(i) == /\ Reference!Current(path[i], in.time)
                       /\ Reference!RoleAllowed(path[i], i)
                       /\ Reference!PurposeAllowed(path[i], in.eku)
           link(i) == path[i].issuer = issuer_subject(path, anchor, i)
           sig(i) == /\ Reference!Verifies(in.supported_sig_algs,
                            issuer_spki(path, anchor, i), path[i].signed_data)
                     /\ Reference!NotRevoked(in, path[i], i > 1,
                            issuer_spki(path, anchor, i), issuer_key_usage(path, i))
           names(i) == ConstrainsAt(in, path, anchor, i)
           ids == [i \in DOMAIN path |-> << path[i].subject, path[i].spki >>]
<1>1. n \in Nat \ {0} /\ DOMAIN path = 1..n /\ \A i \in 1..n : path[i] \in CertsOf(in)
  OBVIOUS
<1>2. \A i \in 1..n : CertWellFormed(path[i]) /\ Reference!RegularCert(path[i])
  BY <1>1, CertsRegular
<1>3. RegularPath(in, path)
  BY <1>1, <1>2 DEF RegularPath
<1>4. \A i : Reference!TrustedAt(in, path, anchor, i) <=> place(i) /\ link(i) /\ sig(i) /\ names(i)
  BY AtMeans DEF ConstrainsAt
<1>5. Reference!TrustedPath(in, path, anchor) <=>
          /\ n <= MAX_SUB_CA_COUNT + 1
          /\ \A i \in 1..n : place(i) /\ link(i) /\ sig(i) /\ names(i)
          /\ Reference!IsInjective(ids)
  <2> HIDE DEF place, link, sig, names
  <2> QED
    BY <1>1, <1>4 DEF Reference!TrustedPath
<1>6. PlacesValid(in, path) <=> n <= MAX_SUB_CA_COUNT + 1 /\ \A i \in 1..n : place(i)
  <2>1. in.time \in Int /\ \A i \in 1..n : i \in Nat \ {0}
    BY <1>1 DEF Reference!Regular
  <2>2. \A i \in 1..n :
            check_issuer_independent_properties(path[i], in.time, i > 1, SubCas(i), in.eku) = "Ok"
            <=> place(i)
    BY <1>2, <2>1, PlaceMeans
  <2> HIDE DEF place
  <2> QED
    BY <1>1, <2>2, LengthMeans DEF PlacesValid
<1>7. Linked(path, anchor) <=> \A i \in 1..n : link(i)
  BY <1>1, LinkedMeans
<1>8. SignaturesValid(in, path, anchor) <=> \A i \in 1..n : sig(i)
  <2>1. \A i \in 1..n : signature_verdict(in, path, anchor, i) = "Ok" <=> sig(i)
    <3> TAKE i \in 1..n
    <3>1. i \in Nat \ {0} /\ Reference!RegularCert(path[i])
      BY <1>1, <1>2
    <3> QED
      BY <3>1, SignatureMeans
  <2> HIDE DEF sig
  <2> QED
    BY <2>1 DEF SignaturesValid
<1>9. NamesAllowed(in, path, anchor) <=> \A i \in 1..n : names(i)
  BY <1>3, NamesAllowedMeans
<1>10. NoRepeats(path) <=> Reference!IsInjective(ids)
  <2>1. DOMAIN ids = 1..n
    BY <1>1
  <2>2. \A i, j \in 1..n : ids[i] = ids[j] <=>
            path[i].subject = path[j].subject /\ path[i].spki = path[j].spki
    BY <1>1
  <2> HIDE DEF ids
  <2> QED
    BY <2>1, <2>2 DEF NoRepeats, Reference!IsInjective
<1> HIDE DEF place, link, sig, names, ids, n
<1> QED
  BY <1>5, <1>6, <1>7, <1>8, <1>9, <1>10 DEF ValidPath

LEMMA SmallerOfTwo ==
    ASSUME NEW a \in Nat, NEW b \in Nat, NEW n \in Nat
    PROVE  n \in 0..Min({a, b}) <=> n <= a /\ n <= b
<1>1. {a, b} \in SUBSET Nat /\ {a, b} # {}
  OBVIOUS
<1>2. Min({a, b}) \in {a, b} /\ \A y \in {a, b} : Min({a, b}) <= y
  BY <1>1, MinOfIndices
<1> DEFINE m == Min({a, b})
<1>3. m \in {a, b} /\ m <= a /\ m <= b
  BY <1>2
<1> HIDE DEF m
<1>4. n \in 0..m <=> n <= a /\ n <= b
  BY <1>3
<1> QED
  BY <1>4 DEF m

\* The intermediates that decode, and the path that f picks from them.
Usable(in) ==
    {i \in 1..Len(in.intermediate_certs) : in.intermediate_certs[i].result = "Ok"}

Picked(in, n, f) == << in.cert >> \o [k \in 1..n |-> in.intermediate_certs[f[k]].value]

IsPicked(in, path) ==
    \E n \in 0..Min({MAX_SUB_CA_COUNT, Cardinality(Usable(in))}) :
        \E f \in [1..n -> Usable(in)] : path = Picked(in, n, f)

\* The paths of the reference: any choice of intermediates.
LEMMA PathsMean ==
    ASSUME NEW in, IsSeq(in.intermediate_certs), NEW path
    PROVE  /\ Cardinality(Usable(in)) \in Nat
           /\ path \in Reference!Paths(in) <=> IsPicked(in, path)
<1> DEFINE certs == {i \in DOMAIN in.intermediate_certs :
                         Reference!Decoded(in.intermediate_certs[i])}
<1>1. /\ Len(in.intermediate_certs) \in Nat
      /\ DOMAIN in.intermediate_certs = 1..Len(in.intermediate_certs)
  BY ListFacts
<1>2. certs = Usable(in)
  BY <1>1, ReferenceTerms DEF Usable
<1>3. Cardinality(Usable(in)) \in Nat
  <2> DEFINE n == Len(in.intermediate_certs)
  <2>1. IsFiniteSet(1..n)
    <3>1. 1 \in Int /\ n \in Int
      BY <1>1
    <3> QED
      BY <3>1, FS_Interval, Zenon
  <2>2. IsFiniteSet(Usable(in))
    BY <2>1, FS_Subset DEF Usable
  <2> QED
    BY <2>2, FS_CardinalityType
<1>4. Reference!Paths(in) =
          UNION {{Picked(in, n, f) : f \in [1..n -> certs]} :
                 n \in 0..Min({MAX_SUB_CA_COUNT, Cardinality(certs)})}
  BY ReferenceTerms, ReferenceCardinality DEF Reference!Paths, Picked
<1> DEFINE N == 0..Min({MAX_SUB_CA_COUNT, Cardinality(certs)})
           S(n) == {Picked(in, n, f) : f \in [1..n -> certs]}
<1>5. IsPicked(in, path) <=> \E n \in N : path \in S(n)
  BY <1>2 DEF IsPicked
<1>6. path \in UNION {S(n) : n \in N} <=> \E n \in N : path \in S(n)
  <2> HIDE DEF N, S
  <2> QED
    OBVIOUS
<1> QED
  BY <1>3, <1>4, <1>5, <1>6, Zenon

LEMMA PickedIsSequence ==
    ASSUME NEW in, NEW n \in Nat, NEW f \in [1..n -> Usable(in)]
    PROVE  LET path == Picked(in, n, f)
           IN  /\ path \in Seq(CertsOf(in)) /\ path # << >> /\ path[1] = in.cert
               /\ Len(path) = n + 1
<1> DEFINE s == [k \in 1..n |-> in.intermediate_certs[f[k]].value]
           path == Picked(in, n, f)
<1>1. \A i \in Usable(in) : in.intermediate_certs[i].value \in CertsOf(in)
  BY DEF CertsOf, Usable
<1>2. \A k \in 1..n : s[k] \in CertsOf(in)
  BY <1>1
<1>3. s \in Seq(CertsOf(in)) /\ Len(s) = n
  BY <1>2, SeqOfFunction
<1>4. in.cert \in CertsOf(in)
  BY DEF CertsOf
<1>5. path = << in.cert >> \o s
  BY DEF Picked
<1> HIDE DEF s, path
<1>6. path \in Seq(CertsOf(in)) /\ Len(path) = n + 1 /\ path[1] = in.cert
  BY <1>3, <1>4, <1>5
<1> QED
  BY <1>6 DEF path

\* A trusted path exists exactly if a path exists on which all the checks pass.
LEMMA TrustedMeans ==
    ASSUME NEW in, InputWellFormed(in), Reference!Regular(in)
    PROVE  Reference!Trusted(in) <=> HasValidPath(in)
<1> DEFINE usable == Usable(in)
           anchors == in.trust_anchors
<1>1. /\ IsSeq(in.intermediate_certs) /\ Len(in.intermediate_certs) \in Nat
      /\ IsSeq(anchors) /\ DOMAIN anchors = 1..Len(anchors)
  BY ListFacts, ReferenceTerms DEF Reference!Regular
<1>2. \A k \in 1..Len(anchors) : ConstraintsRegular(anchors[k].name_constraints)
  BY <1>1 DEF InputWellFormed, Reference!Regular, ConstraintsRegular
<1>3. Reference!Trusted(in) <=>
          \E path \in Reference!Paths(in) : \E k \in 1..Len(anchors) :
              Reference!TrustedPath(in, path, anchors[k])
  BY <1>1, ReferenceTerms DEF Reference!Trusted
<1>4. Cardinality(usable) \in Nat /\ MAX_SUB_CA_COUNT \in Nat
  BY <1>1, PathsMean, BoundsAssumption
<1>5. ASSUME NEW path \in Reference!Paths(in), NEW k \in 1..Len(anchors),
             Reference!TrustedPath(in, path, anchors[k])
      PROVE  HasValidPath(in)
  <2>1. PICK n \in 0..Min({MAX_SUB_CA_COUNT, Cardinality(usable)}) :
            \E f \in [1..n -> usable] : path = Picked(in, n, f)
    BY <1>1, PathsMean DEF IsPicked
  <2>2. PICK f \in [1..n -> usable] : path = Picked(in, n, f)
    BY <2>1
  <2>3. n \in Nat
    OBVIOUS
  <2>4. path \in Seq(CertsOf(in)) /\ path # << >> /\ path[1] = in.cert
    BY <2>2, <2>3, PickedIsSequence
  <2>5. ValidPath(in, path, anchors[k])
    BY <1>2, <1>5, <2>4, TrustedPathMeans
  <2>6. path \in CandidatePaths(in)
    BY <1>1, <2>4, <2>5, ValidPathIsCandidate DEF ValidPaths
  <2> QED
    BY <2>5, <2>6 DEF HasValidPath
<1>6. ASSUME NEW path \in CandidatePaths(in), NEW k \in 1..Len(anchors),
             ValidPath(in, path, anchors[k])
      PROVE  path \in Reference!Paths(in) /\ Reference!TrustedPath(in, path, anchors[k])
  <2>1. path \in Seq(CertsOf(in)) /\ path # << >> /\ path[1] = in.cert
    BY <1>1, <1>6, CandidatesAreSequences DEF ValidPath
  <2>2. Reference!TrustedPath(in, path, anchors[k])
    BY <1>2, <1>6, <2>1, TrustedPathMeans
  <2>3. Len(path) <= MAX_SUB_CA_COUNT + 1
    BY <2>2 DEF Reference!TrustedPath
  <2>4. PICK f : /\ \E n \in 0..Cardinality(usable) : f \in [1..n -> usable]
                 /\ path = << in.cert >> \o
                           [j \in DOMAIN f |-> in.intermediate_certs[f[j]].value]
    BY DEF CandidatePaths, Usable
  <2>5. PICK n \in 0..Cardinality(usable) : f \in [1..n -> usable]
    BY <2>4
  <2>6. n \in Nat /\ n <= Cardinality(usable)
    BY <1>4
  <2>7. path = Picked(in, n, f)
    BY <2>4, <2>5 DEF Picked
  <2>8. Len(path) = n + 1
    BY <2>5, <2>6, <2>7, PickedIsSequence
  <2>9. n \in 0..Min({MAX_SUB_CA_COUNT, Cardinality(usable)})
    <3>1. n <= MAX_SUB_CA_COUNT
      BY <1>4, <2>3, <2>6, <2>8
    <3> QED
      BY <1>4, <2>6, <3>1, SmallerOfTwo
  <2>10. path \in Reference!Paths(in)
    BY <1>1, <2>5, <2>7, <2>9, PathsMean DEF IsPicked
  <2> QED
    BY <2>2, <2>10
<1> QED
  BY <1>3, <1>5, <1>6 DEF HasValidPath

\* build_chain decides whether there is a trusted path in the sense of RFC 5280,
\* for any number of anchors, intermediates and CRLs: the verdict stays pending
\* until the outermost call returns, and is then the one that the rules give.
THEOREM RefinementTheorem ==
    (\A in \in Inputs : Reference!Regular(in)) => (Spec => ImplementsPathSpec)
<1> SUFFICES ASSUME \A in \in Inputs : Reference!Regular(in)
             PROVE  Spec => ImplementsPathSpec
  OBVIOUS
<1>1. ASSUME Typed PROVE Reference!Trusted(input) <=> HasValidPath(input)
  <2>1. InputWellFormed(input) /\ Reference!Regular(input)
    BY <1>1, InputsAssumption DEF Typed
  <2> QED
    BY <2>1, TrustedMeans
<1>2. Search!Init => Abstract!Init
  BY DEF Search!Init, Abstract!Init
<1>3. ASSUME Typed, [Search!Decide]_(Search!vars) PROVE [Abstract!Decide]_(Abstract!vars)
  <2>1. Abstract!Results = Search!Results
    BY DEF Abstract!Results, Abstract!Error, Abstract!rank,
           Search!Results, Search!Error, Search!rank
  <2>2. CASE Search!Decide
    BY <1>1, <1>3, <2>1, <2>2 DEF Search!Decide, Abstract!Decide
  <2>3. CASE UNCHANGED Search!vars
    BY <2>3 DEF Search!vars, Abstract!vars
  <2> QED
    BY <1>3, <2>2, <2>3
<1> QED
  BY <1>2, <1>3, AlwaysTyped, DecisionTheorem, PTL
     DEF ImplementsPathSpec, DecidesValidPaths, Abstract!Spec, Search!Spec

=============================================================================
