-------------------------- MODULE AlgorithmProofs --------------------------
(***************************************************************************)
(* What the scan for a signature algorithm returns, for every slice of the *)
(* provided algorithms, every key and every signature.                     *)
(***************************************************************************)
EXTENDS Algorithms, CheckProofs

Matching(i) == signature_alg_matches(supported_algorithms[i])
Verdict(i)  == verify_signature_with(supported_algorithms[i])

\* What ended the scan.
DecidedAt ==
    /\ at <= Len(supported_algorithms)
    /\ Matching(at) /\ ~continues(Verdict(at))
    /\ result = Some(Verdict(at))

ExhaustedScan ==
    /\ at = Len(supported_algorithms) + 1
    /\ result = Some(no_algorithm_error(found_signature_alg_match))

\* The inductive invariant: no algorithm before `at' decided, and whether one of them
\* is an algorithm of the signature is what the flag remembers.
ScanInv ==
    /\ supported_algorithms \in AlgorithmLists
    /\ at \in 1..(Len(supported_algorithms) + 1)
    /\ found_signature_alg_match = (\E j \in 1..(at - 1) : Matching(j))
    /\ \A j \in 1..(at - 1) : Matching(j) => continues(Verdict(j))
    /\ result = None \/ DecidedAt \/ ExhaustedScan

-----------------------------------------------------------------------------
LEMMA SpkiUnchanged == ASSUME spki_value' = spki_value PROVE spki' = spki
  BY DEF spki, read_to_end

LEMMA VerdictsUnchanged ==
    ASSUME spki_value' = spki_value, signed_data' = signed_data,
           supported_algorithms' = supported_algorithms
    PROVE  \A i : Matching(i)' = Matching(i) /\ Verdict(i)' = Verdict(i)
  <1>1. \A i : Matching(i)' = Matching(i)
    BY DEF Matching, signature_alg_matches
  <1>2. \A i : Verdict(i)' = Verdict(i)
    BY SpkiUnchanged DEF Verdict, verify_signature_with
  <1> QED
    BY <1>1, <1>2

LEMMA ScanInitially == Init => ScanInv
<1> SUFFICES ASSUME Init PROVE ScanInv
  OBVIOUS
<1>1. supported_algorithms \in Seq(Provided) /\ Len(supported_algorithms) \in Nat
  BY ListsAssumption DEF Init
<1>2. at \in 1..(Len(supported_algorithms) + 1) /\ 1..(at - 1) = {}
  BY <1>1 DEF Init
<1> QED
  BY <1>2, Zenon DEF Init, ScanInv

LEMMA ScanStep == ScanInv /\ [Next]_vars => ScanInv'
<1> SUFFICES ASSUME ScanInv, [Next]_vars PROVE ScanInv'
  OBVIOUS
<1> DEFINE n == Len(supported_algorithms)
<1>1. n \in Nat /\ at \in 1..(n + 1)
  <2>1. supported_algorithms \in Seq(Provided)
    BY ListsAssumption DEF ScanInv
  <2> QED
    BY <2>1 DEF ScanInv
<1>2. /\ supported_algorithms' = supported_algorithms
      /\ spki_value' = spki_value /\ signed_data' = signed_data
  BY DEF Next, vars, FilteredOut, OtherPublicKey, Decided, Exhausted
<1>3. \A i : Matching(i)' = Matching(i) /\ Verdict(i)' = Verdict(i)
  BY <1>2, VerdictsUnchanged
<1> DEFINE M(i) == Matching(i)
           V(i) == Verdict(i)
<1>4. ASSUME NEW k \in 1..(n + 1), at' = k,
             found_signature_alg_match' = (\E j \in 1..(k - 1) : M(j)),
             \A j \in 1..(k - 1) : M(j) => continues(V(j)),
             \/ result' = None
             \/ k <= n /\ M(k) /\ ~continues(V(k)) /\ result' = Some(V(k))
             \/ k = n + 1 /\ result' = Some(no_algorithm_error(found_signature_alg_match'))
      PROVE  ScanInv'
  BY <1>2, <1>3, <1>4
     DEF ScanInv, DecidedAt, ExhaustedScan, continues, no_algorithm_error, None, Some
<1>5. /\ found_signature_alg_match = (\E j \in 1..(at - 1) : M(j))
      /\ \A j \in 1..(at - 1) : M(j) => continues(V(j))
      /\ result = None \/ DecidedAt \/ ExhaustedScan
  BY DEF ScanInv
<1>6. \A j \in 1..((at + 1) - 1) : j \in 1..(at - 1) \/ j = at
  BY <1>1
<1>7. CASE FilteredOut
  <2>1. at <= n /\ ~M(at) /\ at' = at + 1 /\ result' = None
        /\ found_signature_alg_match' = found_signature_alg_match
    BY <1>7 DEF FilteredOut, Scanning, Matching
  <2>2. at + 1 \in 1..(n + 1) /\ \A j \in 1..(at - 1) : j \in 1..((at + 1) - 1)
    BY <1>1, <2>1
  <2>3. /\ (\E j \in 1..((at + 1) - 1) : M(j)) = (\E j \in 1..(at - 1) : M(j))
        /\ \A j \in 1..((at + 1) - 1) : M(j) => continues(V(j))
    BY <1>5, <1>6, <2>1, <2>2, Zenon
  <2> QED
    BY <1>4, <1>5, <2>1, <2>2, <2>3
<1>8. CASE OtherPublicKey
  <2>1. at <= n /\ M(at) /\ continues(V(at)) /\ at' = at + 1 /\ result' = None
        /\ found_signature_alg_match' = TRUE
    BY <1>8 DEF OtherPublicKey, Scanning, Matching, Verdict
  <2>2. at + 1 \in 1..(n + 1) /\ at \in 1..((at + 1) - 1)
    BY <1>1, <2>1
  <2>3. /\ \E j \in 1..((at + 1) - 1) : M(j)
        /\ \A j \in 1..((at + 1) - 1) : M(j) => continues(V(j))
    BY <1>5, <1>6, <2>1, <2>2, Zenon
  <2> QED
    BY <1>4, <2>1, <2>2, <2>3
<1>9. CASE Decided
  <2>1. at <= n /\ M(at) /\ ~continues(V(at)) /\ at' = at /\ result' = Some(V(at))
        /\ found_signature_alg_match' = found_signature_alg_match
    BY <1>9 DEF Decided, Scanning, Matching, Verdict
  <2> QED
    BY <1>1, <1>4, <1>5, <2>1
<1>10. CASE Exhausted
  <2>1. at > n /\ at' = at /\ result' = Some(no_algorithm_error(found_signature_alg_match))
        /\ found_signature_alg_match' = found_signature_alg_match
    BY <1>10 DEF Exhausted
  <2>2. at = n + 1
    BY <1>1, <2>1
  <2> QED
    BY <1>1, <1>4, <1>5, <2>1, <2>2
<1>11. CASE UNCHANGED vars
  <2>1. at' = at /\ result' = result
        /\ found_signature_alg_match' = found_signature_alg_match
    BY <1>11 DEF vars
  <2> QED
    BY <1>1, <1>4, <1>5, <2>1 DEF DecidedAt, ExhaustedScan
<1> QED
  BY <1>7, <1>8, <1>9, <1>10, <1>11 DEF Next

LEMMA ScanInvariant == Spec => []ScanInv
  BY ScanInitially, ScanStep, PTL DEF Spec

-----------------------------------------------------------------------------
\* An algorithm is known by its identifiers.
LEMMA IdsDecide ==
    ASSUME NEW a, NEW b, NEW encoded,
           matches_algorithm_id_value(a, encoded), matches_algorithm_id_value(b, encoded)
    PROVE  a = b
  BY DEF matches_algorithm_id_value, alg_id, Element

LEMMA OrderFollows == ScanInv => OrderFreeIfUnambiguous
<1> SUFFICES ASSUME ScanInv, IsSome(result), Unambiguous(Range(supported_algorithms))
             PROVE  The(result) = OutcomeOfSet(Range(supported_algorithms))
  BY DEF OrderFreeIfUnambiguous
<1> DEFINE algorithms == Range(supported_algorithms)
           candidates == {a \in algorithms : signature_alg_matches(a)}
           fits(a)    == matches_algorithm_id_value(
                             a.public_key_alg_id, spki.value.algorithm_id_value)
           fitting    == {a \in candidates : fits(a)}
           good(a)    == ring_verify(a, spki.value.key_value, signed_data.signature)
           n          == Len(supported_algorithms)
<1>1. n \in Nat /\ DOMAIN supported_algorithms = 1..n /\ at \in 1..(n + 1)
  <2>1. supported_algorithms \in Seq(Provided)
    BY ListsAssumption DEF ScanInv
  <2> QED
    BY <2>1 DEF ScanInv
<1>2. algorithms = {supported_algorithms[i] : i \in 1..n}
  BY <1>1 DEF Range
<1>3. OutcomeOfSet(algorithms) =
        IF candidates = {} THEN "UnsupportedSignatureAlgorithm"
        ELSE IF spki.result # "Ok" THEN spki.result
        ELSE IF fitting = {} THEN "UnsupportedSignatureAlgorithmForPublicKey"
        ELSE IF \E a \in fitting : good(a) THEN "Ok" ELSE "InvalidSignatureForPublicKey"
  BY DEF OutcomeOfSet
<1>4. \A a : verify_signature_with(a) =
        IF spki.result # "Ok" THEN spki.result
        ELSE IF ~fits(a) THEN "UnsupportedSignatureAlgorithmForPublicKey"
        ELSE IF good(a) THEN "Ok" ELSE "InvalidSignatureForPublicKey"
  BY DEF verify_signature_with, Require, ??
<1>5. CASE DecidedAt
  <2> DEFINE a == supported_algorithms[at]
  <2>1. /\ a \in candidates
        /\ verify_signature_with(a) # "UnsupportedSignatureAlgorithmForPublicKey"
        /\ The(result) = verify_signature_with(a)
    <3>1. at \in 1..n
      BY <1>1, <1>5 DEF DecidedAt
    <3> QED
      BY <1>2, <1>5, <3>1 DEF DecidedAt, Matching, Verdict, continues, The, Some
  <2> HIDE DEF a
  <2>2. CASE spki.result # "Ok"
    BY <1>3, <1>4, <2>1, <2>2
  <2>3. CASE spki.result = "Ok"
    <3>1. fits(a) /\ a \in fitting
      BY <1>4, <2>1, <2>3
    <3>2. \A b \in fitting : b = a
      <4> SUFFICES ASSUME NEW b \in fitting PROVE b = a
        OBVIOUS
      <4>1. a.signature_alg_id = b.signature_alg_id
        BY <2>1, IdsDecide DEF signature_alg_matches
      <4>2. a.public_key_alg_id = b.public_key_alg_id
        BY <3>1, IdsDecide
      <4> QED
        BY <2>1, <4>1, <4>2 DEF Unambiguous
    <3>3. (\E b \in fitting : good(b)) <=> good(a)
      BY <3>1, <3>2
    <3> QED
      BY <1>3, <1>4, <2>1, <2>3, <3>1, <3>3
  <2> QED
    BY <2>2, <2>3
<1>6. CASE ExhaustedScan
  <2>1. /\ 1..(at - 1) = 1..n
        /\ The(result) = no_algorithm_error(\E j \in 1..n : Matching(j))
        /\ \A j \in 1..n : Matching(j) => continues(Verdict(j))
    <3>1. 1..(at - 1) = 1..n
      BY <1>1, <1>6 DEF ExhaustedScan
    <3> QED
      BY <1>6, <3>1 DEF ExhaustedScan, ScanInv, The, Some
  <2>2. (candidates # {}) = (\E j \in 1..n : Matching(j))
    BY <1>2 DEF Matching
  <2>3. \A a \in candidates :
            verify_signature_with(a) = "UnsupportedSignatureAlgorithmForPublicKey"
    BY <1>2, <2>1 DEF Matching, Verdict, continues
  <2>4. CASE candidates = {}
    BY <1>3, <2>1, <2>2, <2>4 DEF no_algorithm_error
  <2>5. CASE candidates # {}
    <3>1. The(result) = "UnsupportedSignatureAlgorithmForPublicKey"
      BY <2>1, <2>2, <2>5 DEF no_algorithm_error
    <3>2. CASE spki.result # "Ok"
      BY <1>3, <1>4, <2>3, <2>5, <3>1, <3>2
    <3>3. CASE spki.result = "Ok"
      <4>1. fitting = {}
        BY <1>4, <2>3, <3>3
      <4> QED
        BY <1>3, <2>5, <3>1, <3>3, <4>1
    <3> QED
      BY <3>2, <3>3
  <2> QED
    BY <2>4, <2>5
<1> QED
  BY <1>5, <1>6 DEF ScanInv, IsSome, None

\* OrderFreeIfUnambiguous, for every slice of the provided algorithms: the order of
\* supported_algorithms does not matter to verify_signed_data as long as no two of them
\* have both identifiers in common.
THEOREM OrderTheorem == Spec => []OrderFreeIfUnambiguous
  BY ScanInvariant, OrderFollows, PTL

-----------------------------------------------------------------------------
\* Every provided algorithm takes keys of 3072 to 8192 bits.
LEMMA SizeFits ==
    ASSUME NEW a \in Provided, NEW key, NEW signature, key[1] \in CommonSizes
    PROVE  ring_verify(a, key, signature) <=> genuine(a, key, signature)
  <1> DEFINE Least == {0, 2048, 3072}
             From(m) == m..8192
  <1>1. a.min_bits \in Least
    BY DEF Provided, RingAlgorithm, ECDSA_P256_SHA256, ECDSA_P256_SHA384,
           ECDSA_P384_SHA256, ECDSA_P384_SHA384, RSA_PKCS1_2048_8192_SHA256,
           RSA_PKCS1_2048_8192_SHA384, RSA_PKCS1_2048_8192_SHA512,
           RSA_PKCS1_3072_8192_SHA384, RSA_PSS_2048_8192_SHA256_LEGACY_KEY,
           RSA_PSS_2048_8192_SHA384_LEGACY_KEY, RSA_PSS_2048_8192_SHA512_LEGACY_KEY, ED25519
  <1>2. \A m \in Least, bits \in CommonSizes : bits \in From(m)
    BY DEF CommonSizes
  <1>3. ring_verify(a, key, signature)
          <=> key[1] \in From(a.min_bits) /\ genuine(a, key, signature)
    BY DEF ring_verify
  <1> HIDE DEF Least, From
  <1> QED
    BY <1>1, <1>2, <1>3, Zenon

LEMMA VerifySignedDataFollows == ScanInv => ComputesVerifySignedData
<1> SUFFICES ASSUME ScanInv, IsSome(result), KeyOfCommonSize
             PROVE  The(result) = verify_signed_data(SupportedView, SpkiView, SignedView)
  BY DEF ComputesVerifySignedData
<1> DEFINE key    == KeyView
           view   == SignedView
           algs   == SupportedView
           sp     == SpkiView
           made   == \E a \in Provided : /\ signature_alg_matches(a)
                                         /\ genuine(a, key, signed_data.signature)
           alg(i) == [ signature_alg  |-> alg_id(supported_algorithms[i].signature_alg_id),
                       public_key_alg |-> alg_id(supported_algorithms[i].public_key_alg_id) ]
           n      == Len(supported_algorithms)
           no_fit == "UnsupportedSignatureAlgorithmForPublicKey"
<1>0. /\ view.algorithm = signed_data.algorithm
      /\ view.signer = IF made THEN key ELSE << >>
  BY DEF SignedView
<1>1. /\ n \in Nat /\ DOMAIN supported_algorithms = 1..n /\ at \in 1..(n + 1)
      /\ \A i \in 1..n : supported_algorithms[i] \in Provided
  <2>1. supported_algorithms \in Seq(Provided)
    BY ListsAssumption DEF ScanInv
  <2> QED
    BY <2>1 DEF ScanInv
<1>2. Len(algs) = n /\ DOMAIN algs = 1..n /\ \A i \in 1..n : algs[i] = alg(i)
  BY <1>1 DEF SupportedView
<1>3. \A i \in 1..n : algs[i].signature_alg = view.algorithm <=> Matching(i)
  BY <1>0, <1>2 DEF Matching, signature_alg_matches, matches_algorithm_id_value
<1>4. ASSUME NEW i \in 1..n, Matching(i)
      PROVE  verify_signature(algs[i], sp, view) = Verdict(i)
  <2> DEFINE a == supported_algorithms[i]
  <2>1. CASE spki.result # "Ok"
    BY <2>1 DEF Verdict, verify_signature, verify_signature_with, SpkiView, ??
  <2>2. CASE spki.result = "Ok"
    <3>1. /\ sp.result = "Ok" /\ sp.value.key = key
          /\ sp.value.algorithm = spki.value.algorithm_id_value
          /\ key = spki.value.key_value
      BY <2>2 DEF Ok, SpkiView, KeyView
    <3>2. algs[i].public_key_alg = sp.value.algorithm
            <=> matches_algorithm_id_value(a.public_key_alg_id, spki.value.algorithm_id_value)
      BY <1>2, <3>1 DEF matches_algorithm_id_value
    <3>3. made <=> genuine(a, key, signed_data.signature)
      <4>1. a \in Provided /\ signature_alg_matches(a)
        BY <1>1, <1>4 DEF Matching
      <4>2. \A b \in Provided :
              signature_alg_matches(b) => b.signature_alg_id = a.signature_alg_id
        BY <4>1, IdsDecide DEF signature_alg_matches
      <4> QED
        BY <4>1, <4>2 DEF genuine
    <3>4. ring_verify(a, key, signed_data.signature)
            <=> genuine(a, key, signed_data.signature)
      BY <1>1, <1>4, <2>2, SizeFits DEF KeyOfCommonSize
    <3>5. crypto_verify(sp.value.key, view)
            <=> ring_verify(a, spki.value.key_value, signed_data.signature)
      <4>1. view.signer = key <=> made
        <5>1. key # << >>
          BY <2>2 DEF KeyOfCommonSize
        <5> QED
          BY <1>0, <5>1
      <4>2. crypto_verify(key, view) <=> made
        BY <4>1 DEF crypto_verify
      <4> QED
        BY <3>1, <3>3, <3>4, <4>2
    <3> QED
      BY <2>2, <3>1, <3>2, <3>5
         DEF Verdict, verify_signature, verify_signature_with, Require, ??
  <2> QED
    BY <2>1, <2>2
<1> DEFINE decides(x) == /\ x.signature_alg = view.algorithm
                         /\ verify_signature(x, sp, view) # no_fit
           I == {i \in 1..Len(algs) : decides(algs[i])}
           found == \E i \in DOMAIN algs : algs[i].signature_alg = view.algorithm
           k == IF I # {} THEN Min(I) ELSE 0
<1>5. verify_signed_data(algs, sp, view) =
        IF k # 0 THEN verify_signature(algs[k], sp, view)
        ELSE IF found THEN no_fit ELSE "UnsupportedSignatureAlgorithm"
  BY DEF verify_signed_data, SelectInSeq
<1>6. I = {i \in 1..n : Matching(i) /\ ~continues(Verdict(i))}
  BY <1>2, <1>3, <1>4 DEF continues
<1>7. CASE DecidedAt
  <2>1. at \in 1..n /\ at \in I
    BY <1>1, <1>6, <1>7 DEF DecidedAt
  <2>2. \A i \in I : at <= i
    <3>1. \A i \in I : i \in 1..n /\ ~(i \in 1..(at - 1))
      BY <1>6 DEF ScanInv
    <3> QED
      BY <1>1, <3>1
  <2>3. k = at /\ at # 0
    <3>1. I \in SUBSET (1..n)
      BY <1>6
    <3>2. Min(I) = at
      BY <1>1, <2>1, <2>2, <3>1, FirstIsMin
    <3> QED
      BY <2>1, <3>2
  <2> HIDE DEF k
  <2>4. The(result) = Verdict(at) /\ Matching(at)
    BY <1>7 DEF DecidedAt, The, Some
  <2> QED
    BY <1>4, <1>5, <2>1, <2>3, <2>4
<1>8. CASE ExhaustedScan
  <2>1. 1..(at - 1) = 1..n
    BY <1>1, <1>8 DEF ExhaustedScan
  <2>2. I = {}
    BY <1>6, <2>1 DEF ScanInv
  <2>3. found <=> \E j \in 1..n : Matching(j)
    BY <1>2, <1>3
  <2>4. The(result) = no_algorithm_error(\E j \in 1..n : Matching(j))
    BY <1>8, <2>1 DEF ExhaustedScan, ScanInv, The, Some
  <2> QED
    BY <1>5, <2>2, <2>3, <2>4 DEF no_algorithm_error
<1> QED
  BY <1>7, <1>8 DEF ScanInv, IsSome, None

\* ComputesVerifySignedData, for every slice of the provided algorithms: what the proofs
\* about path building assume of verify_signed_data is what its loop computes.
THEOREM VerifySignedDataTheorem == Spec => []ComputesVerifySignedData
  BY ScanInvariant, VerifySignedDataFollows, PTL

=============================================================================
