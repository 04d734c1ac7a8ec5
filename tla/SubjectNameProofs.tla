------------------------- MODULE SubjectNameProofs -------------------------
(***************************************************************************)
(* Neither address parser writes past the end of its arrays, whatever the  *)
(* text and however many groups an address has; the scan of a DNS name     *)
(* accepts the names whose labels are proper, whatever the name; and the   *)
(* comparison of two names, character by character, decides as Names does  *)
(* on their labels.                                                        *)
(***************************************************************************)
EXTENDS SubjectNameText, SequenceTheorems, WellFoundedInduction, NaturalsInduction, TLAPS

\* A sequence, of whatever.
IsSeq(s) == Len(s) \in Nat /\ s = [i \in 1..Len(s) |-> s[i]]

\* The arrays grow by appending.
LEMMA EmptyIsSeq == IsSeq(<< >>) /\ Len(<< >>) = 0
  BY DEF IsSeq

LEMMA AppendIsSeq ==
    ASSUME NEW s, IsSeq(s), NEW e
    PROVE  IsSeq(Append(s, e)) /\ Len(Append(s, e)) = Len(s) + 1
  <1> DEFINE S == {s[i] : i \in 1..Len(s)} \cup {e}
  <1>1. s \in Seq(S)
    BY DEF IsSeq
  <1>2. Append(s, e) \in Seq(S) /\ Len(Append(s, e)) = Len(s) + 1
    BY <1>1
  <1> HIDE DEF S
  <1>3. Append(s, e) = [i \in 1..Len(Append(s, e)) |-> Append(s, e)[i]]
    BY <1>2, LenProperties
  <1> QED
    BY <1>2, <1>3 DEF IsSeq

\* The inductive invariant.  The indices of the code are the numbers of octets and of
\* digits; the number of separators and the digits of the current group determine the
\* former, and the checks at a separator and at a digit bound both.
Counted ==
    /\ IsSeq(octets) /\ IsSeq(current) /\ separators \in Nat
    /\ parser = "V4" => /\ separators < OCTETS /\ Len(current) <= 3
                        /\ Len(octets) = separators
    /\ parser = "V6" => /\ separators < BLOCKS /\ Len(current) <= 4
                        /\ Len(octets) = 2 * separators + Len(current) \div 2

\* Init, and every kind of step.
LEMMA CountedInit == Init => Counted
  BY EmptyIsSeq, ShapeAssumption DEF Init, Counted

LEMMA StartCounts ==
    ASSUME NEW next \in {"V4", "V6"}, Start(next)
    PROVE  Counted'
  BY EmptyIsSeq, ShapeAssumption DEF Start, Counted, IsSeq

LEMMA FinishCounts ==
    ASSUME Counted, NEW outcome, Finish(outcome)
    PROVE  Counted'
  BY DEF Finish, Counted, IsSeq

\* A step of parse_ipv4_address.
LEMMA Ipv4Counts ==
    ASSUME Counted, Dot \/ Number \/ Ipv4 \/ NotIpv4
    PROVE  Counted'
  <1>1. CASE Dot
    BY <1>1, EmptyIsSeq, AppendIsSeq, ShapeAssumption DEF Dot, dot_allowed_v4, Counted
  <1>2. CASE Number
    BY <1>2, AppendIsSeq DEF Number, AtNumber, number_allowed, Counted
  <1>3. CASE Ipv4
    BY <1>3, FinishCounts DEF Ipv4
  <1>4. CASE NotIpv4
    BY <1>4, StartCounts DEF NotIpv4
  <1> QED
    BY <1>1, <1>2, <1>3, <1>4

\* A step of parse_ipv6_address.
LEMMA Ipv6Counts ==
    ASSUME Counted, Colon \/ Hex \/ Ipv6 \/ NotIpv6
    PROVE  Counted'
  <1>1. CASE Colon
    BY <1>1, EmptyIsSeq, ShapeAssumption DEF Colon, colon_allowed, Counted
  <1>2. CASE Hex
    <2>1. parser = "V6" /\ parser' = "V6" /\ separators' = separators
      BY <1>2 DEF Hex
    <2>2. Len(current) \in 0..3 /\ IsSeq(current)
      BY <1>2, SMTT(30) DEF Hex, AtHex, Counted, IsSeq
    <2>3. IsSeq(current') /\ Len(current') = Len(current) + 1
      BY <1>2, <2>2, AppendIsSeq DEF Hex
    <2>4. /\ IsSeq(octets')
          /\ Len(octets') = Len(octets) + (IF Len(current) % 2 = 1 THEN 1 ELSE 0)
      <3>1. IsSeq(octets) /\ octets' = with_hex(text[at])
        BY <1>2 DEF Hex, Counted
      <3>2. CASE Len(current) % 2 = 1
        BY <3>1, <3>2, AppendIsSeq DEF with_hex
      <3>3. CASE Len(current) % 2 # 1
        BY <3>1, <3>3 DEF with_hex, IsSeq
      <3> QED
        BY <3>2, <3>3
    <2>5. (Len(current) + 1) \div 2 =
              Len(current) \div 2 + (IF Len(current) % 2 = 1 THEN 1 ELSE 0)
      BY <2>2
    <2>6. separators \in Nat /\ separators < BLOCKS /\ Len(octets) \in Nat
      BY <2>1 DEF Counted, IsSeq
    <2>7. Len(octets') = 2 * separators' + Len(current') \div 2
      BY <2>1, <2>2, <2>3, <2>4, <2>5, <2>6 DEF Counted
    <2>8. separators' \in Nat /\ separators' < BLOCKS
      BY <2>1, <2>6
    <2>9. Len(current') <= 4
      <3>1. \A n \in 0..3 : n + 1 <= 4
        OBVIOUS
      <3> QED
        BY <3>1, <2>2, <2>3, Zenon
    <2>10. parser' # "V4"
      BY <2>1
    <2> QED
      BY <2>3, <2>4, <2>7, <2>8, <2>9, <2>10, Zenon DEF Counted
  <1>3. CASE Ipv6
    BY <1>3, FinishCounts DEF Ipv6
  <1>4. CASE NotIpv6
    BY <1>4, FinishCounts DEF NotIpv6
  <1> QED
    BY <1>1, <1>2, <1>3, <1>4

LEMMA CountedNext == Counted /\ [Next]_vars => Counted'
  <1> SUFFICES ASSUME Counted, [Next]_vars PROVE Counted'
    OBVIOUS
  <1>1. CASE ReadNext
    BY <1>1, Ipv4Counts, Ipv6Counts DEF ReadNext
  <1>2. CASE UNCHANGED text_vars
    BY <1>2 DEF text_vars, Counted, IsSeq
  <1> QED
    BY <1>1, <1>2 DEF Next, vars

\* Neither address parser (ip_address.rs) writes past the end of its arrays, for every
\* text and all numbers of octets and blocks.
THEOREM WithinArraysTheorem == Spec => []WithinArrays
  <1>1. Counted => WithinArrays
    BY ShapeAssumption DEF Counted, WithinArrays, IsSeq
  <1> QED
    BY <1>1, CountedInit, CountedNext, PTL DEF Spec

-----------------------------------------------------------------------------
(* Induction on indices, and recursive functions on them.                  *)

\* A nonempty set of indices has a least element.
LEMMA LeastIndex ==
    ASSUME NEW S \in SUBSET Nat, S # {}
    PROVE  \E x \in S : \A y \in S : x <= y
<1>1. IsWellFoundedOn(OpToRel(<, Nat), Nat)
  BY NatLessThanWellFounded
<1>2. \E x \in S : \A y \in S : ~(<<y, x>> \in OpToRel(<, Nat))
  BY <1>1, WFMin
<1>3. OpToRel(<, Nat) = {q \in Nat \X Nat : q[1] < q[2]}
  BY Zenon DEF OpToRel
<1>4. PICK x \in S : \A y \in S : ~(<<y, x>> \in {q \in Nat \X Nat : q[1] < q[2]})
  BY <1>2, <1>3, Zenon
<1>5. ASSUME NEW y \in S PROVE x <= y
  <2>1. <<y, x>> \in Nat \X Nat
    OBVIOUS
  <2>2. ~(<<y, x>>[1] < <<y, x>>[2])
    BY <1>4, <2>1, Zenon
  <2>3. <<y, x>>[1] = y /\ <<y, x>>[2] = x
    OBVIOUS
  <2> QED
    BY <2>2, <2>3
<1> QED
  BY <1>5

\* Induction over a range: a set that holds its first index and is closed under the next
\* one holds all of them.
LEMMA IndexInduction ==
    ASSUME NEW m \in Nat, NEW n \in Nat, NEW G, m \in G,
           \A i \in (m + 1)..n : i - 1 \in G => i \in G
    PROVE  \A i \in m..n : i \in G
<1> DEFINE S == {i \in m..n : i \notin G}
<1> SUFFICES ASSUME S # {} PROVE FALSE
  OBVIOUS
<1>1. S \in SUBSET Nat
  OBVIOUS
<1>2. PICK k \in S : \A y \in S : k <= y
  <2> HIDE DEF S
  <2> QED
    BY <1>1, LeastIndex
<1>3. k \in m..n /\ k \notin G
  OBVIOUS
<1>4. k \in (m + 1)..n /\ k - 1 \in m..n
  BY <1>3
<1>5. k - 1 \notin S
  BY <1>2, <1>4
<1>6. k - 1 \in G
  BY <1>4, <1>5
<1> QED
  BY <1>3, <1>4, <1>6

-----------------------------------------------------------------------------
(* The labels of a name, a character at a time.                            *)

NoLabel == << << >> >>

LabelStep(ls, c) ==
    IF c = "." THEN Append(ls, << >>) ELSE [ls EXCEPT ![Len(ls)] = Append(@, c)]

\* The fold over the characters with an index in S.
FoldedOver(name, S, f) ==
    f = [s \in SUBSET S |->
            IF s = {} THEN NoLabel ELSE LabelStep(f[s \ {Max(s)}], name[Max(s)])]

\* The last index of a set of them.
LEMMA MaxUpTo ==
    ASSUME NEW m \in Nat, m > 0, NEW s \in SUBSET (1..m), m \in s
    PROVE  Max(s) = m
<1>1. \A x \in s : (\A y \in s : x >= y) => x = m
  OBVIOUS
<1>2. m \in s /\ \A y \in s : m >= y
  OBVIOUS
<1> QED
  BY <1>1, <1>2 DEF Max

\* There is a function that folds the characters, so the fold of Labels is it.
LEMMA FoldExists ==
    ASSUME NEW name, NEW n \in Nat
    PROVE  \E f : FoldedOver(name, 1..n, f)
<1> DEFINE G == {m \in Nat : \E f : FoldedOver(name, 1..m, f)}
<1>1. 0 \in G
  <2> DEFINE f == [s \in SUBSET (1..0) |-> NoLabel]
  <2>1. \A s \in SUBSET (1..0) : s = {}
    OBVIOUS
  <2>2. FoldedOver(name, 1..0, f)
    BY <2>1 DEF FoldedOver
  <2> QED
    BY <2>2
<1>2. ASSUME NEW m \in 1..n, m - 1 \in G PROVE m \in G
  <2>1. PICK f : FoldedOver(name, 1..(m - 1), f)
    BY <1>2
  <2> DEFINE T == SUBSET (1..(m - 1))
             h == [s \in SUBSET (1..m) |->
                      IF m \in s THEN LabelStep(f[s \ {m}], name[m]) ELSE f[s]]
             value(g, s) == IF s = {} THEN NoLabel
                            ELSE LabelStep(g[s \ {Max(s)}], name[Max(s)])
  <2>2. \A s \in T : f[s] = value(f, s)
    BY <2>1 DEF FoldedOver
  <2>3. \A s \in T : s \in SUBSET (1..m) /\ m \notin s
    OBVIOUS
  <2>4. \A s \in T : h[s] = f[s]
    BY <2>3
  <2>5. \A s \in SUBSET (1..m) : h[s] = value(h, s)
    <3> TAKE s \in SUBSET (1..m)
    <3>1. CASE m \in s
      <4>1. Max(s) = m
        BY <3>1, MaxUpTo
      <4>2. s \ {m} \in T
        OBVIOUS
      <4>3. h[s] = LabelStep(f[s \ {m}], name[m])
        BY <3>1
      <4>4. h[s \ {m}] = f[s \ {m}]
        BY <2>4, <4>2
      <4> HIDE DEF h, T
      <4> QED
        BY <3>1, <4>1, <4>3, <4>4
    <3>2. CASE m \notin s
      <4>1. s \in T
        BY <3>2
      <4>2. CASE s = {}
        <5> HIDE DEF h, T
        <5> QED
          BY <2>2, <2>4, <4>1, <4>2
      <4>3. CASE s # {}
        <5>1. s \ {Max(s)} \in T
          BY <4>1
        <5> HIDE DEF h, T
        <5> QED
          BY <2>2, <2>4, <4>1, <4>3, <5>1
      <4> QED
        BY <4>2, <4>3
    <3> QED
      BY <3>1, <3>2
  <2>6. h = [s \in SUBSET (1..m) |-> h[s]]
    OBVIOUS
  <2> HIDE DEF h
  <2>7. FoldedOver(name, 1..m, h)
    BY <2>5, <2>6 DEF FoldedOver
  <2> QED
    BY <2>7
<1> HIDE DEF G
<1>3. \A i \in 0..n : i \in G
  BY <1>1, <1>2, IndexInduction
<1>4. n \in G
  BY <1>3
<1> QED
  BY <1>4 DEF G

\* The labels up to every position.
LabelsUpTo(name, g) ==
    /\ g[0] = NoLabel
    /\ \A k \in 1..Len(name) : g[k] = LabelStep(g[k - 1], name[k])
    /\ g[Len(name)] = Labels(name)

\* Labels folds the characters one after the other.
LEMMA LabelsByStep ==
    ASSUME NEW name, Len(name) \in Nat, DOMAIN name = 1..Len(name)
    PROVE  \E g : LabelsUpTo(name, g)
<1> DEFINE n == Len(name)
           f == CHOOSE f : FoldedOver(name, 1..n, f)
           g == [k \in 0..n |-> f[1..k]]
<1>1. FoldedOver(name, 1..n, f)
  BY FoldExists
<1>2. Labels(name) = f[1..n]
  BY DEF Labels, FoldLeft, MapThenFoldSet, FoldedOver, NoLabel, LabelStep
<1>3. \A s \in SUBSET (1..n) :
          f[s] = IF s = {} THEN NoLabel ELSE LabelStep(f[s \ {Max(s)}], name[Max(s)])
  BY <1>1 DEF FoldedOver
<1> HIDE DEF f
<1>4. g[0] = NoLabel
  <2>1. {} \in SUBSET (1..n) /\ 1..0 = {}
    OBVIOUS
  <2>2. f[{}] = NoLabel
    BY <1>3, <2>1
  <2>3. g[0] = f[1..0]
    OBVIOUS
  <2> HIDE DEF g
  <2> QED
    BY <2>1, <2>2, <2>3
<1>5. ASSUME NEW k \in 1..n PROVE g[k] = LabelStep(g[k - 1], name[k])
  <2>1. 1..k \in SUBSET (1..n) /\ 1..k # {} /\ (1..k) \ {k} = 1..(k - 1)
    <3>1. \A x : x \in (1..k) \ {k} <=> x \in 1..(k - 1)
      OBVIOUS
    <3>2. (1..k) \ {k} = 1..(k - 1)
      BY <3>1
    <3>3. k \in 1..k /\ \A x \in 1..k : x \in 1..n
      OBVIOUS
    <3> QED
      BY <3>2, <3>3
  <2>2. Max(1..k) = k
    <3>1. k \in 1..k /\ 1..k \in SUBSET (1..k)
      OBVIOUS
    <3> QED
      BY <3>1, MaxUpTo
  <2>3. f[1..k] = LabelStep(f[1..(k - 1)], name[k])
    BY <1>3, <2>1, <2>2
  <2> QED
    BY <2>3
<1>6. g[n] = Labels(name)
  BY <1>2
<1> QED
  BY <1>4, <1>5, <1>6 DEF LabelsUpTo

-----------------------------------------------------------------------------
(* The rounds of the loop of is_valid_dns_id.                              *)

Rounds(name, id_role, first, start, n, g) ==
    g = [k \in (first - 1)..n |-> IF k < first THEN start ELSE scan(g[k - 1], name[k], id_role)]

\* There is a function of the rounds, so the loop is it.
LEMMA RoundsExist ==
    ASSUME NEW name, NEW id_role, NEW first \in Nat \ {0}, NEW start, NEW n \in Nat,
           n >= first - 1
    PROVE  \E g : Rounds(name, id_role, first, start, n, g)
<1> DEFINE b == first - 1
           G == {m \in Nat : \E g : Rounds(name, id_role, first, start, m, g)}
<1>1. b \in G
  <2> DEFINE g == [k \in b..b |-> start]
  <2>1. \A k \in b..b : k < first
    OBVIOUS
  <2>2. Rounds(name, id_role, first, start, b, g)
    BY <2>1 DEF Rounds
  <2> QED
    BY <2>2
<1>2. ASSUME NEW m \in (b + 1)..n, m - 1 \in G PROVE m \in G
  <2>1. PICK g : Rounds(name, id_role, first, start, m - 1, g)
    BY <1>2
  <2> DEFINE value(f, k) == IF k < first THEN start ELSE scan(f[k - 1], name[k], id_role)
             h == [k \in b..m |-> IF k = m THEN scan(g[m - 1], name[m], id_role) ELSE g[k]]
  <2>2. \A k \in b..(m - 1) : g[k] = value(g, k)
    BY <2>1 DEF Rounds
  <2>3. \A k \in b..(m - 1) : h[k] = g[k]
    OBVIOUS
  <2>4. h[m] = scan(g[m - 1], name[m], id_role)
    OBVIOUS
  <2>5. \A k \in b..m : h[k] = value(h, k)
    <3> TAKE k \in b..m
    <3>1. CASE k = m
      <4>1. h[m - 1] = g[m - 1] /\ ~(m < first)
        BY <2>3
      <4> HIDE DEF h
      <4> QED
        BY <2>4, <3>1, <4>1
    <3>2. CASE k # m
      <4>1. k \in b..(m - 1) /\ (~(k < first) => k - 1 \in b..(m - 1))
        BY <3>2
      <4> HIDE DEF h
      <4> QED
        BY <2>2, <2>3, <4>1
    <3> QED
      BY <3>1, <3>2
  <2>6. h = [k \in b..m |-> h[k]]
    OBVIOUS
  <2> HIDE DEF h
  <2>7. Rounds(name, id_role, first, start, m, h)
    BY <2>5, <2>6 DEF Rounds
  <2> QED
    BY <2>7
<1> HIDE DEF G
<1>3. \A i \in b..n : i \in G
  BY <1>1, <1>2, IndexInduction
<1>4. n \in G
  BY <1>3
<1> QED
  BY <1>4 DEF G

-----------------------------------------------------------------------------
(* What may become a label.                                                *)

Characters == Digits \cup Letters \cup {"-"}

LabelBegins(l) ==
    /\ Len(l) <= MAX_LABEL_LENGTH
    /\ Range(l) \subseteq Characters
    /\ l # << >> => l[1] # "-"

AllDigits(l) == Range(l) \subseteq Digits

\* A label is one that begins as such and does not end with a hyphen.
LEMMA LabelEnds ==
    ASSUME NEW l \in Seq(Alphabet)
    PROVE  Label(l) <=> l # << >> /\ LabelBegins(l) /\ l[Len(l)] # "-"
<1>1. l # << >> <=> Len(l) # 0
  BY EmptySeq
<1>2. Len(l) \in Nat
  OBVIOUS
<1>3. Len(l) \in 1..MAX_LABEL_LENGTH <=> Len(l) # 0 /\ Len(l) <= MAX_LABEL_LENGTH
  BY <1>2, LengthAssumption
<1> QED
  BY <1>1, <1>3 DEF Label, LabelBegins, Characters

\* A character more at the end of a label.
LEMMA AppendRange ==
    ASSUME NEW l \in Seq(Alphabet), NEW c \in Alphabet
    PROVE  /\ Append(l, c) \in Seq(Alphabet) /\ Append(l, c) # << >>
           /\ Len(Append(l, c)) = Len(l) + 1 /\ Append(l, c)[Len(l) + 1] = c
           /\ \A i \in 1..Len(l) : Append(l, c)[i] = l[i]
           /\ Range(Append(l, c)) = Range(l) \cup {c}
<1> DEFINE a == Append(l, c)
           n == Len(l)
<1>1. /\ a \in Seq(Alphabet) /\ Len(a) = n + 1 /\ a[n + 1] = c
      /\ \A i \in 1..n : a[i] = l[i]
  OBVIOUS
<1>2. n \in Nat /\ DOMAIN l = 1..n /\ DOMAIN a = 1..(n + 1)
  BY <1>1, LenProperties
<1> HIDE DEF a, n
<1>3. a # << >>
  <2>1. Len(<< >>) = 0 /\ n + 1 # 0
    BY <1>2
  <2> QED
    BY <1>1, <2>1
<1>4. \A i : i \in 1..(n + 1) <=> i \in 1..n \/ i = n + 1
  BY <1>2
<1>5. Range(a) = Range(l) \cup {c}
  BY <1>1, <1>2, <1>4 DEF Range
<1> QED
  BY <1>1, <1>3, <1>5 DEF a, n

\* What the character must be.
LEMMA LabelGrows ==
    ASSUME NEW l \in Seq(Alphabet), NEW c \in Alphabet
    PROVE  /\ LabelBegins(Append(l, c)) <=>
                  /\ LabelBegins(l) /\ c \in Characters
                  /\ c = "-" => Len(l) > 0
                  /\ Len(l) < MAX_LABEL_LENGTH
           /\ AllDigits(Append(l, c)) <=> AllDigits(l) /\ c \in Digits
<1> DEFINE a == Append(l, c)
           n == Len(l)
<1>1. /\ a # << >> /\ Len(a) = n + 1 /\ a[n + 1] = c
      /\ \A i \in 1..n : a[i] = l[i]
      /\ Range(a) = Range(l) \cup {c}
  BY AppendRange
<1>2. n \in Nat /\ (l # << >> <=> n # 0)
  BY EmptySeq
<1> HIDE DEF a, n
<1>3. AllDigits(a) <=> AllDigits(l) /\ c \in Digits
  BY <1>1 DEF AllDigits
<1>4. Len(a) <= MAX_LABEL_LENGTH <=> n < MAX_LABEL_LENGTH
  BY <1>1, <1>2, LengthAssumption
<1>5. n < MAX_LABEL_LENGTH => n <= MAX_LABEL_LENGTH
  BY <1>2, LengthAssumption
<1>6. Range(a) \subseteq Characters <=> Range(l) \subseteq Characters /\ c \in Characters
  BY <1>1
<1>7. CASE n = 0
  <2>1. a[1] = c /\ l = << >>
    BY <1>1, <1>2, <1>7
  <2> QED
    BY <1>1, <1>3, <1>4, <1>5, <1>6, <1>7, <2>1 DEF LabelBegins, a, n
<1>8. CASE n # 0
  <2>1. 1 \in 1..n /\ n > 0
    BY <1>2, <1>8
  <2>2. a[1] = l[1] /\ l # << >>
    BY <1>1, <1>2, <1>8, <2>1
  <2> QED
    BY <1>1, <1>3, <1>4, <1>5, <1>6, <2>1, <2>2 DEF LabelBegins, a, n
<1> QED
  BY <1>7, <1>8

-----------------------------------------------------------------------------
(* A character more.                                                       *)

LabelLists == Seq(Seq(Alphabet))

\* A dot begins a label, any other character is added to the last one.
LEMMA LabelStepFacts ==
    ASSUME NEW ls \in LabelLists, Len(ls) > 0, NEW c \in Alphabet
    PROVE  LET n == Len(ls)
               t == LabelStep(ls, c)
           IN  /\ t \in LabelLists
               /\ c = "." => /\ Len(t) = n + 1 /\ t[n + 1] = << >>
                             /\ \A j \in 1..n : t[j] = ls[j]
               /\ c # "." => /\ Len(t) = n /\ t[n] = Append(ls[n], c)
                             /\ \A j \in 1..(n - 1) : t[j] = ls[j]
<1> DEFINE n == Len(ls)
           t == LabelStep(ls, c)
<1>1. n \in Nat /\ n \in 1..n
  BY DEF LabelLists
<1>2. CASE c = "."
  <2>1. << >> \in Seq(Alphabet)
    OBVIOUS
  <2>2. t = Append(ls, << >>)
    BY <1>2 DEF LabelStep
  <2>3. /\ t \in LabelLists
        /\ Len(t) = n + 1 /\ t[n + 1] = << >>
        /\ \A j \in 1..n : t[j] = ls[j]
    BY <2>1, <2>2 DEF LabelLists
  <2> QED
    BY <1>2, <2>3
<1>3. CASE c # "."
  <2> DEFINE e == Append(ls[n], c)
  <2>1. ls[n] \in Seq(Alphabet)
    BY <1>1, ElementOfSeq DEF LabelLists
  <2>2. e \in Seq(Alphabet)
    BY <2>1
  <2>3. t = [ls EXCEPT ![n] = e]
    BY <1>3 DEF LabelStep
  <2> HIDE DEF e, n
  <2>4. /\ t \in LabelLists /\ Len(t) = n
        /\ \A j \in 1..n : t[j] = IF j = n THEN e ELSE ls[j]
    BY <1>1, <2>2, <2>3, ExceptSeq DEF LabelLists, n
  <2>5. \A j \in 1..(n - 1) : j \in 1..n /\ j # n
    BY <1>1
  <2>6. t[n] = e /\ \A j \in 1..(n - 1) : t[j] = ls[j]
    BY <1>1, <2>4, <2>5
  <2> QED
    BY <1>3, <2>4, <2>6 DEF e, n
<1> QED
  BY <1>2, <1>3

-----------------------------------------------------------------------------
(* The running variables of is_valid_dns_id.                               *)

\* What need not be a label: the first one, of a wildcard, and an empty one at the
\* beginning of a constraint.
Tolerated(ls, j, id_role, wild) ==
    j = 1 /\ (wild \/ (id_role = "NameConstraint" /\ ls[1] = << >>))

\* What the flags tell of the labels so far.
FlagsFit(ok, numeric, hyphen, is_first, ls, id_role, wild) ==
    LET n == Len(ls)
        l == ls[n]
    IN  /\ is_first <=> ~wild /\ n = 1 /\ ls[1] = << >>
        /\ ok <=> /\ LabelBegins(l)
                  /\ \A j \in 1..(n - 1) : Label(ls[j]) \/ Tolerated(ls, j, id_role, wild)
        /\ ok => (hyphen <=> l # << >> /\ l[Len(l)] = "-")
        /\ ok /\ l # << >> => (numeric <=> AllDigits(l))
        /\ ok /\ l = << >> => (numeric <=> n > 1 /\ ls[n - 1] # << >> /\ AllDigits(ls[n - 1]))
        /\ wild => n > 1 /\ ls[1] = << "*" >>

ScanOf(ok, numeric, hyphen, is_first, dots, length) ==
    [ ok |-> ok, dot_count |-> dots, label_length |-> length,
      label_is_all_numeric |-> numeric, label_ends_with_hyphen |-> hyphen,
      is_first_byte |-> is_first ]

ScanFits(s, ls, id_role, wild) ==
    \E ok, numeric, hyphen, is_first \in BOOLEAN :
        /\ s = ScanOf(ok, numeric, hyphen, is_first, Len(ls) - 1, Len(ls[Len(ls)]))
        /\ FlagsFit(ok, numeric, hyphen, is_first, ls, id_role, wild)

\* At the start of a label.
LEMMA EmptyBegins == LabelBegins(<< >>) /\ AllDigits(<< >>) /\ Len(<< >>) = 0
<1>1. Range(<< >>) = {}
  BY DEF Range
<1> QED
  BY <1>1, LengthAssumption DEF LabelBegins, AllDigits

\* A dot.
LEMMA DotFits ==
    ASSUME NEW ls \in LabelLists, Len(ls) > 0, NEW id_role, NEW wild \in BOOLEAN,
           NEW s, ScanFits(s, ls, id_role, wild)
    PROVE  ScanFits(scan(s, ".", id_role), LabelStep(ls, "."), id_role, wild)
<1> DEFINE n == Len(ls)
           l == ls[n]
           t == LabelStep(ls, ".")
           fine(k, j) == Label(k[j]) \/ Tolerated(k, j, id_role, wild)
<1>1. PICK ok, numeric, hyphen, is_first \in BOOLEAN :
          /\ s = ScanOf(ok, numeric, hyphen, is_first, n - 1, Len(l))
          /\ FlagsFit(ok, numeric, hyphen, is_first, ls, id_role, wild)
  BY DEF ScanFits
<1> DEFINE can == (Len(l) = 0 => id_role = "NameConstraint" /\ is_first) /\ ~hyphen
           ok2 == ok /\ can
<1>2. "." \in Alphabet
  BY DEF Alphabet
<1>3. /\ t \in LabelLists /\ Len(t) = n + 1 /\ t[n + 1] = << >>
      /\ \A j \in 1..n : t[j] = ls[j]
  BY <1>2, LabelStepFacts
<1>4. n \in Nat /\ n \in 1..n /\ 1 \in 1..n
  BY DEF LabelLists
<1>5. l \in Seq(Alphabet)
  BY <1>4, ElementOfSeq DEF LabelLists
<1>6. l = << >> <=> Len(l) = 0
  BY <1>5, EmptySeq
<1>7. scan(s, ".", id_role) = ScanOf(ok2, numeric, hyphen, FALSE, n, 0)
  <2>1. dot_allowed(s, id_role) = can
    BY <1>1 DEF dot_allowed, ScanOf
  <2>2. (n - 1) + 1 = n
    BY <1>4
  <2> HIDE DEF can, n, l
  <2> QED
    BY <1>1, <2>1, <2>2 DEF scan, ScanOf
<1>8. Label(l) <=> l # << >> /\ LabelBegins(l) /\ l[Len(l)] # "-"
  BY <1>5, LabelEnds
<1>9. /\ is_first <=> ~wild /\ n = 1 /\ ls[1] = << >>
      /\ ok <=> LabelBegins(l) /\ \A j \in 1..(n - 1) : fine(ls, j)
      /\ ok => (hyphen <=> l # << >> /\ l[Len(l)] = "-")
      /\ ok /\ l # << >> => (numeric <=> AllDigits(l))
      /\ ok /\ l = << >> => (numeric <=> n > 1 /\ ls[n - 1] # << >> /\ AllDigits(ls[n - 1]))
      /\ wild => n > 1 /\ ls[1] = << "*" >>
  BY <1>1 DEF FlagsFit
<1>10. n = 1 => l = ls[1]
  OBVIOUS
<1> HIDE DEF t, n, l
<1>11. \A j \in 1..n : fine(t, j) <=> fine(ls, j)
  BY <1>3, <1>4 DEF Tolerated
<1>12. fine(ls, n) <=> Label(l) \/ (n = 1 /\ ~wild /\ id_role = "NameConstraint" /\ l = << >>)
  BY <1>4, <1>9, <1>10 DEF Tolerated, l
<1>13. ok => (can <=> fine(ls, n))
  <2>1. CASE l = << >>
    BY <1>6, <1>8, <1>9, <1>10, <1>12, <2>1
  <2>2. CASE l # << >>
    BY <1>6, <1>8, <1>9, <1>12, <2>2
  <2> QED
    BY <2>1, <2>2
<1>14. (\A j \in 1..n : fine(t, j)) <=> (\A j \in 1..(n - 1) : fine(ls, j)) /\ fine(ls, n)
  <2>1. \A j : j \in 1..n <=> j \in 1..(n - 1) \/ j = n
    BY <1>4
  <2> HIDE DEF fine
  <2> QED
    BY <1>11, <2>1
<1>15. ok2 <=> \A j \in 1..n : fine(t, j)
  <2>1. LabelBegins(l) \/ ~fine(ls, n) \/ ~ok
    BY <1>9
  <2>2. fine(ls, n) => LabelBegins(l)
    BY <1>8, <1>12, EmptyBegins
  <2> HIDE DEF fine, can
  <2> QED
    BY <1>9, <1>13, <1>14, <2>2
<1>16. n + 1 > 1 /\ n + 1 # 1 /\ (n + 1) - 1 = n
  BY <1>4
<1>17. ok2 => (numeric <=> t[n] # << >> /\ AllDigits(t[n]))
  <2>1. t[n] = l
    BY <1>3, <1>4 DEF l
  <2>2. CASE l # << >>
    BY <1>9, <2>1, <2>2
  <2>3. CASE l = << >>
    BY <1>4, <1>6, <1>9, <2>1, <2>3
  <2> QED
    BY <2>2, <2>3
<1>18. FlagsFit(ok2, numeric, hyphen, FALSE, t, id_role, wild)
  <2>1. wild => t[1] = << "*" >>
    BY <1>3, <1>4, <1>9
  <2>2. ok2 => ~hyphen
    OBVIOUS
  <2> HIDE DEF ok2
  <2> QED
    BY <1>3, <1>15, <1>16, <1>17, <2>1, <2>2, EmptyBegins DEF FlagsFit
<1>19. scan(s, ".", id_role) = ScanOf(ok2, numeric, hyphen, FALSE, Len(t) - 1, Len(t[Len(t)]))
  BY <1>3, <1>7, <1>16, EmptyBegins
<1>20. ok2 \in BOOLEAN
  OBVIOUS
<1> HIDE DEF ok2
<1> QED
  BY <1>18, <1>19, <1>20 DEF ScanFits, t

\* Another character.
LEMMA CharacterFits ==
    ASSUME NEW ls \in LabelLists, Len(ls) > 0, NEW id_role, NEW wild \in BOOLEAN,
           NEW s, ScanFits(s, ls, id_role, wild), NEW c \in Alphabet, c # "."
    PROVE  ScanFits(scan(s, c, id_role), LabelStep(ls, c), id_role, wild)
<1> DEFINE n == Len(ls)
           l == ls[n]
           t == LabelStep(ls, c)
           a == Append(l, c)
           fine(k, j) == Label(k[j]) \/ Tolerated(k, j, id_role, wild)
<1>1. PICK ok, numeric, hyphen, is_first \in BOOLEAN :
          /\ s = ScanOf(ok, numeric, hyphen, is_first, n - 1, Len(l))
          /\ FlagsFit(ok, numeric, hyphen, is_first, ls, id_role, wild)
  BY DEF ScanFits
<1> DEFINE ok2 == /\ ok /\ c \in Characters /\ (c = "-" => Len(l) > 0)
                  /\ Len(l) < MAX_LABEL_LENGTH
           numeric2 == c \in Digits /\ (Len(l) = 0 \/ numeric)
           hyphen2 == c = "-"
<1>2. /\ t \in LabelLists /\ Len(t) = n /\ t[n] = a
      /\ \A j \in 1..(n - 1) : t[j] = ls[j]
  BY LabelStepFacts
<1>3. n \in Nat /\ n \in 1..n
  BY DEF LabelLists
<1>4. l \in Seq(Alphabet)
  BY <1>3, ElementOfSeq DEF LabelLists
<1>5. l = << >> <=> Len(l) = 0
  BY <1>4, EmptySeq
<1>6. /\ a # << >> /\ Len(a) = Len(l) + 1 /\ a[Len(a)] = c
      /\ LabelBegins(a) <=> /\ LabelBegins(l) /\ c \in Characters
                            /\ c = "-" => Len(l) > 0
                            /\ Len(l) < MAX_LABEL_LENGTH
      /\ AllDigits(a) <=> AllDigits(l) /\ c \in Digits
  BY <1>4, AppendRange, LabelGrows
<1>7. scan(s, c, id_role) = ScanOf(ok2, numeric2, hyphen2, FALSE, n - 1, Len(l) + 1)
  <2> HIDE DEF n, l
  <2> QED
    BY <1>1 DEF scan, ScanOf, Characters
<1>8. /\ ok <=> LabelBegins(l) /\ \A j \in 1..(n - 1) : fine(ls, j)
      /\ ok /\ l # << >> => (numeric <=> AllDigits(l))
      /\ wild => n > 1 /\ ls[1] = << "*" >>
  BY <1>1 DEF FlagsFit
<1> HIDE DEF t, n, l, a
<1>9. \A j \in 1..(n - 1) : fine(t, j) <=> fine(ls, j)
  BY <1>2, <1>3 DEF Tolerated
<1>10. ok2 <=> LabelBegins(a) /\ \A j \in 1..(n - 1) : fine(t, j)
  <2> HIDE DEF fine
  <2> QED
    BY <1>6, <1>8, <1>9
<1>11. ok2 => (numeric2 <=> AllDigits(a))
  <2>1. CASE l = << >>
    <3>1. AllDigits(l) /\ Len(l) = 0
      BY <1>5, <2>1, EmptyBegins
    <3> QED
      BY <1>6, <3>1
  <2>2. CASE l # << >>
    BY <1>5, <1>6, <1>8, <2>2
  <2> QED
    BY <2>1, <2>2
<1>12. n = 1 => t[1] # << >>
  BY <1>2, <1>6
<1>13. wild => n > 1 /\ t[1] = << "*" >>
  <2>1. n > 1 => 1 \in 1..(n - 1)
    BY <1>3
  <2> QED
    BY <1>2, <1>8, <2>1
<1>14. FlagsFit(ok2, numeric2, hyphen2, FALSE, t, id_role, wild)
  <2> HIDE DEF ok2, numeric2
  <2> QED
    BY <1>2, <1>6, <1>10, <1>11, <1>12, <1>13 DEF FlagsFit
<1>15. scan(s, c, id_role) = ScanOf(ok2, numeric2, hyphen2, FALSE, Len(t) - 1, Len(t[Len(t)]))
  BY <1>2, <1>6, <1>7
<1>16. ok2 \in BOOLEAN /\ numeric2 \in BOOLEAN /\ hyphen2 \in BOOLEAN
  OBVIOUS
<1> HIDE DEF ok2, numeric2, hyphen2
<1> QED
  BY <1>14, <1>15, <1>16 DEF ScanFits, t

\* The labels of a name from the first to the last that must be one.
LastOf(ls, id_role) ==
    IF id_role = "Reference" /\ Len(ls) > 1 /\ ls[Len(ls)] = << >> THEN Len(ls) - 1 ELSE Len(ls)

FromOf(ls, id_role, wild) ==
    IF wild \/ (id_role = "NameConstraint" /\ Len(ls) > 1 /\ ls[1] = << >>) THEN 2 ELSE 1

ValidList(ls, id_role, wild) ==
    LET from == FromOf(ls, id_role, wild)
        last == LastOf(ls, id_role)
    IN  /\ from <= last
        /\ \A j \in from..last : Label(ls[j])
        /\ ~AllDigits(ls[last])
        /\ wild => last - 1 >= 2

\* The checks after the loop.
LEMMA EndFits ==
    ASSUME NEW ls \in LabelLists, Len(ls) > 0, NEW id_role, NEW wild \in BOOLEAN,
           NEW s, ScanFits(s, ls, id_role, wild), Len(ls) > 1 \/ ls[Len(ls)] # << >>
    PROVE  scan_end(s, id_role, wild) <=> ValidList(ls, id_role, wild)
<1> DEFINE n == Len(ls)
           l == ls[n]
           from == FromOf(ls, id_role, wild)
           last == LastOf(ls, id_role)
           fine(j) == Label(ls[j]) \/ Tolerated(ls, j, id_role, wild)
           dot == id_role = "NameConstraint" /\ ls[1] = << >>
           enough == wild => (n - 1) + (IF Len(l) = 0 THEN 0 ELSE 1) >= 3
<1>1. PICK ok, numeric, hyphen, is_first \in BOOLEAN :
          /\ s = ScanOf(ok, numeric, hyphen, is_first, n - 1, Len(l))
          /\ FlagsFit(ok, numeric, hyphen, is_first, ls, id_role, wild)
  BY DEF ScanFits
<1>2. scan_end(s, id_role, wild) <=>
          /\ ok /\ (Len(l) = 0 => id_role = "Reference")
          /\ ~hyphen /\ ~numeric /\ enough
  <2> HIDE DEF n, l
  <2> QED
    BY <1>1 DEF scan_end, ScanOf
<1>3. n \in Nat /\ n \in 1..n
  BY DEF LabelLists
<1>4. l \in Seq(Alphabet)
  BY <1>3, ElementOfSeq DEF LabelLists
<1>5. l = << >> <=> Len(l) = 0
  BY <1>4, EmptySeq
<1>6. Label(l) <=> l # << >> /\ LabelBegins(l) /\ l[Len(l)] # "-"
  BY <1>4, LabelEnds
<1>7. /\ ok <=> LabelBegins(l) /\ \A j \in 1..(n - 1) : fine(j)
      /\ ok => (hyphen <=> l # << >> /\ l[Len(l)] = "-")
      /\ ok /\ l # << >> => (numeric <=> AllDigits(l))
      /\ ok /\ l = << >> => (numeric <=> n > 1 /\ ls[n - 1] # << >> /\ AllDigits(ls[n - 1]))
      /\ wild => n > 1 /\ ls[1] = << "*" >>
  BY <1>1 DEF FlagsFit
<1>8. n > 1 \/ l # << >>
  OBVIOUS
<1>9. /\ from \in {1, 2} /\ (from = 2 => n > 1)
      /\ from = 2 <=> wild \/ (n > 1 /\ dot)
      /\ dot => id_role # "Reference"
  BY <1>7 DEF FromOf
<1>10. /\ id_role = "Reference" /\ l = << >> => last = n - 1
       /\ id_role # "Reference" \/ l # << >> => last = n
  BY <1>8 DEF LastOf
<1>11. ValidList(ls, id_role, wild) <=>
           /\ from <= last
           /\ \A j \in from..last : Label(ls[j])
           /\ ~AllDigits(ls[last])
           /\ wild => last - 1 >= 2
  BY DEF ValidList
<1>12. (\A j \in 1..(n - 1) : fine(j)) <=> \A j \in from..(n - 1) : Label(ls[j])
  <2>1. \A j \in 1..(n - 1) : Tolerated(ls, j, id_role, wild) <=> from = 2 /\ j = 1
    <3> TAKE j \in 1..(n - 1)
    <3>1. j = 1 => n > 1
      BY <1>3
    <3>2. Tolerated(ls, j, id_role, wild) <=> j = 1 /\ (wild \/ dot)
      BY DEF Tolerated
    <3> HIDE DEF n, from, dot
    <3> QED
      BY <1>9, <3>1, <3>2
  <2> HIDE DEF n, from
  <2>2. CASE from = 1
    BY <2>1, <2>2
  <2>3. CASE from = 2
    <3>1. \A j : j \in 1..(n - 1) => j = 1 \/ j \in 2..(n - 1)
      BY <1>3
    <3>2. \A j \in 2..(n - 1) : j \in 1..(n - 1) /\ j # 1
      BY <1>3
    <3> QED
      BY <2>1, <2>3, <3>1, <3>2
  <2> QED
    BY <1>9, <2>2, <2>3
<1> HIDE DEF n, l, from, last, fine, dot
<1>13. CASE l # << >>
  <2>1. last = n /\ Len(l) # 0 /\ from <= n
    BY <1>3, <1>5, <1>9, <1>10, <1>13
  <2>2. enough <=> (wild => last - 1 >= 2)
    BY <1>3, <2>1
  <2>3. (\A j \in from..last : Label(ls[j])) <=> (\A j \in from..(n - 1) : Label(ls[j])) /\ Label(l)
    <3>1. \A j : j \in from..n <=> j \in from..(n - 1) \/ j = n
      BY <1>3, <1>9, <2>1
    <3> QED
      BY <2>1, <3>1 DEF l
  <2>4. ls[last] = l
    BY <2>1 DEF l
  <2> HIDE DEF enough
  <2> QED
    BY <1>2, <1>6, <1>7, <1>11, <1>12, <1>13, <2>1, <2>2, <2>3, <2>4
<1>14. CASE l = << >> /\ id_role # "Reference"
  <2>1. last = n /\ Len(l) = 0 /\ n \in from..n
    BY <1>3, <1>5, <1>9, <1>10, <1>14
  <2>2. ls[n] = l /\ ~Label(l)
    BY <1>6, <1>14 DEF l
  <2> QED
    BY <1>2, <1>11, <1>14, <2>1, <2>2
<1>15. CASE l = << >> /\ id_role = "Reference"
  <2>1. last = n - 1 /\ Len(l) = 0 /\ n > 1
    BY <1>5, <1>8, <1>10, <1>15
  <2>2. from = 2 <=> wild
    BY <1>9, <1>15
  <2>3. enough <=> (wild => last - 1 >= 2)
    BY <1>3, <2>1
  <2>4. from <= last \/ (wild /\ ~(last - 1 >= 2))
    BY <1>3, <1>9, <2>1, <2>2
  <2>5. from <= last => last \in from..last
    BY <1>3, <1>9, <2>1
  <2>6. ls[last] \in Seq(Alphabet)
    <3>1. last \in 1..Len(ls)
      BY <1>3, <2>1 DEF n
    <3> QED
      BY <3>1, ElementOfSeq DEF LabelLists
  <2>7. Label(ls[last]) => ls[last] # << >>
    BY <2>6, LabelEnds
  <2>8. LabelBegins(l)
    BY <1>15, EmptyBegins
  <2>9. ok <=> \A j \in from..last : Label(ls[j])
    BY <1>7, <1>12, <2>1, <2>8
  <2>10. ok => (numeric <=> ls[last] # << >> /\ AllDigits(ls[last])) /\ ~hyphen
    BY <1>7, <1>15, <2>1
  <2> HIDE DEF enough
  <2> QED
    BY <1>2, <1>11, <1>15, <2>1, <2>3, <2>4, <2>5, <2>7, <2>9, <2>10
<1> QED
  BY <1>13, <1>14, <1>15

\* The labels that must be one, as a list of their own.
LEMMA ListIsProper ==
    ASSUME NEW ls \in LabelLists, Len(ls) > 0, NEW from \in {1, 2}, NEW last \in Nat, last <= Len(ls)
    PROVE  LET proper == SubSeq(ls, from, last)
           IN  /\ proper # << >> <=> from <= last
               /\ from <= last =>
                      /\ (\A k \in DOMAIN proper : Label(proper[k])) <=>
                             (\A j \in from..last : Label(ls[j]))
                      /\ Range(proper[Len(proper)]) \subseteq Digits <=> AllDigits(ls[last])
                      /\ Len(proper) = last - from + 1
<1> DEFINE proper == SubSeq(ls, from, last)
           m == last - from + 1
<1>1. \A i \in from..last : ls[i] \in Seq(Alphabet)
  <2>1. \A i \in from..last : i \in 1..Len(ls)
    BY DEF LabelLists
  <2> QED
    BY <2>1, ElementOfSeq DEF LabelLists
<1>2. from \in Int /\ last \in Int
  OBVIOUS
<1>3. /\ proper \in Seq(Seq(Alphabet))
      /\ Len(proper) = IF from <= last THEN m ELSE 0
      /\ \A i \in 1..m : proper[i] = ls[from + i - 1]
  BY <1>1, <1>2, SubSeqProperties
<1>4. DOMAIN proper = 1..Len(proper) /\ (proper # << >> <=> Len(proper) # 0)
  BY <1>3, LenProperties, EmptySeq
<1> HIDE DEF proper
<1>5. from <= last => m \in Nat \ {0} /\ m \in 1..m /\ from + m - 1 = last
  OBVIOUS
<1>6. from <= last => /\ \A k \in 1..m : from + k - 1 \in from..last
                      /\ \A j \in from..last : j - from + 1 \in 1..m /\ from + (j - from + 1) - 1 = j
  OBVIOUS
<1> HIDE DEF m
<1>7. proper # << >> <=> from <= last
  BY <1>3, <1>4, <1>5
<1>8. from <= last => proper[Len(proper)] = ls[last] /\ Len(proper) = m
  BY <1>3, <1>5
<1>9. ASSUME from <= last
      PROVE  (\A k \in DOMAIN proper : Label(proper[k])) <=> (\A j \in from..last : Label(ls[j]))
  <2>1. DOMAIN proper = 1..m
    BY <1>3, <1>4, <1>9
  <2>2. ASSUME \A k \in 1..m : Label(proper[k]), NEW j \in from..last PROVE Label(ls[j])
    <3> DEFINE k == j - from + 1
    <3>1. k \in 1..m /\ from + k - 1 = j
      BY <1>6, <1>9
    <3> HIDE DEF k
    <3> QED
      BY <1>3, <2>2, <3>1
  <2>3. ASSUME \A j \in from..last : Label(ls[j]), NEW k \in 1..m PROVE Label(proper[k])
    BY <1>3, <1>6, <1>9, <2>3
  <2> QED
    BY <2>1, <2>2, <2>3
<1> QED
  BY <1>7, <1>8, <1>9 DEF AllDigits, proper, m

\* The first label of a name begins as the name does, and is the part before the first
\* dot.
FirstLabelFits(name, k, ls) ==
    /\ ls \in LabelLists /\ Len(ls) > 0
    /\ k = 0 => ls = NoLabel
    /\ k > 0 /\ name[1] = "." => Len(ls) > 1 /\ ls[1] = << >>
    /\ k > 0 /\ name[1] # "." => ls[1] # << >> /\ ls[1][1] = name[1]
    /\ k = 1 /\ name[1] # "." => ls = << << name[1] >> >>
    /\ k > 1 /\ name[1] # "." =>
           /\ name[2] = "." => Len(ls) > 1 /\ ls[1] = << name[1] >>
           /\ name[2] # "." => Len(ls[1]) > 1
    /\ k = 2 /\ name[1] # "." /\ name[2] = "." => Len(ls) = 2 /\ ls[2] = << >>

\* It holds for the labels of every prefix.
LEMMA FirstLabel ==
    ASSUME NEW name \in Seq(Alphabet), NEW g, LabelsUpTo(name, g), NEW n \in 0..Len(name)
    PROVE  FirstLabelFits(name, n, g[n])
<1> DEFINE G == {k \in Nat : FirstLabelFits(name, k, g[k])}
<1>1. 0 \in G
  <2>1. NoLabel \in LabelLists /\ Len(NoLabel) > 0
    BY DEF NoLabel, LabelLists
  <2>2. g[0] = NoLabel
    BY DEF LabelsUpTo
  <2> QED
    BY <2>1, <2>2 DEF FirstLabelFits
<1>2. ASSUME NEW k \in 1..n, k - 1 \in G PROVE k \in G
  <2> DEFINE ls == g[k - 1]
             c == name[k]
             t == LabelStep(ls, c)
             m == Len(ls)
             first == name[1]
             second == name[2]
  <2>1. k \in 1..Len(name) /\ FirstLabelFits(name, k - 1, ls)
    BY <1>2
  <2>2. g[k] = t /\ c \in Alphabet /\ ls \in LabelLists /\ m > 0
    BY <2>1 DEF LabelsUpTo, FirstLabelFits
  <2>3. /\ t \in LabelLists
        /\ c = "." => /\ Len(t) = m + 1 /\ t[m + 1] = << >>
                      /\ \A j \in 1..m : t[j] = ls[j]
        /\ c # "." => /\ Len(t) = m /\ t[m] = Append(ls[m], c)
                      /\ \A j \in 1..(m - 1) : t[j] = ls[j]
    BY <2>2, LabelStepFacts
  <2>4. m \in Nat /\ 1 \in 1..m /\ ls[1] \in Seq(Alphabet)
    <3>1. m \in Nat /\ 1 \in 1..m
      BY <2>2 DEF LabelLists
    <3> QED
      BY <2>2, <3>1, ElementOfSeq DEF LabelLists
  <2>5. /\ k - 1 = 0 => ls = NoLabel
        /\ k - 1 > 0 /\ first = "." => m > 1 /\ ls[1] = << >>
        /\ k - 1 > 0 /\ first # "." => ls[1] # << >> /\ ls[1][1] = first
        /\ k - 1 = 1 /\ first # "." => ls = << << first >> >>
        /\ k - 1 > 1 /\ first # "." =>
               /\ second = "." => m > 1 /\ ls[1] = << first >>
               /\ second # "." => Len(ls[1]) > 1
    BY <2>1 DEF FirstLabelFits
  <2> SUFFICES FirstLabelFits(name, k, t)
    BY <2>2
  <2>6. k = 1 => first = c
    OBVIOUS
  <2>7. k = 2 => second = c
    OBVIOUS
  <2> HIDE DEF ls, t, m, c, first, second
  \* The first label is kept, or a character longer.
  <2>8. \/ t[1] = ls[1] /\ (m > 1 \/ c = ".")
        \/ m = 1 /\ c # "." /\ t[1] = Append(ls[1], c) /\ Len(t) = 1
    <3>1. CASE c = "."
      BY <2>3, <2>4, <3>1
    <3>2. CASE c # "." /\ m > 1
      <4>1. 1 \in 1..(m - 1)
        BY <2>4, <3>2
      <4> QED
        BY <2>3, <3>2, <4>1
    <3>3. CASE c # "." /\ m = 1
      BY <2>3, <3>3
    <3> QED
      BY <2>2, <2>4, <3>1, <3>2, <3>3
  <2>9. Len(t) >= m /\ (c = "." => Len(t) > 1) /\ Len(t) > 0
    BY <2>2, <2>3, <2>4
  <2>10. /\ Append(ls[1], c) # << >> /\ Len(Append(ls[1], c)) = Len(ls[1]) + 1
         /\ ls[1] # << >> => Append(ls[1], c)[1] = ls[1][1]
    <3>1. Len(ls[1]) \in Nat /\ (ls[1] # << >> => 1 \in 1..Len(ls[1]))
      BY <2>4, EmptySeq
    <3> QED
      BY <2>2, <2>4, <3>1, AppendRange
  <2>11. t \in LabelLists /\ Len(t) > 0
    BY <2>3, <2>9
  <2>12. CASE k = 1
    <3>1. ls = << << >> >> /\ m = 1
      BY <2>5, <2>12 DEF NoLabel, m
    <3>2. CASE c = "."
      <4>1. t[1] = << >>
        BY <2>3, <2>4, <3>1, <3>2
      <4> QED
        BY <2>6, <2>9, <2>11, <2>12, <3>2, <4>1 DEF FirstLabelFits, first
    <3>3. CASE c # "."
      <4>1. t = << << c >> >>
        BY <3>1, <3>3 DEF t, LabelStep
      <4> QED
        BY <2>6, <2>11, <2>12, <3>3, <4>1 DEF FirstLabelFits, first
    <3> QED
      BY <3>2, <3>3
  <2>13. CASE k = 2
    <3>1. CASE first = "."
      <4>1. Len(t) > 1 /\ t[1] = << >>
        BY <2>4, <2>5, <2>8, <2>9, <2>13, <3>1
      <4> QED
        BY <2>11, <2>13, <3>1, <4>1 DEF FirstLabelFits, first
    <3>2. CASE first # "."
      <4>1. ls = << << first >> >> /\ m = 1
        BY <2>5, <2>13, <3>2 DEF m
      <4>2. CASE c = "."
        <5>1. Len(t) = 2 /\ t[2] = << >> /\ t[1] = ls[1]
          BY <2>3, <2>4, <4>1, <4>2
        <5>2. ls[1] = << first >> /\ << first >> # << >> /\ << first >>[1] = first
          BY <4>1
        <5> QED
          BY <2>7, <2>11, <2>13, <3>2, <4>2, <5>1, <5>2 DEF FirstLabelFits, first, second
      <4>3. CASE c # "."
        <5>1. t = << << first, c >> >>
          BY <4>1, <4>3 DEF t, LabelStep
        <5>2. Len(t[1]) > 1 /\ t[1] # << >> /\ t[1][1] = first
          BY <5>1
        <5> QED
          BY <2>7, <2>11, <2>13, <3>2, <4>3, <5>2 DEF FirstLabelFits, first, second
      <4> QED
        BY <4>2, <4>3
    <3> QED
      BY <3>1, <3>2
  <2>14. CASE k > 2
    <3>1. k - 1 > 1 /\ k - 1 > 0 /\ k > 0 /\ k > 1 /\ k # 0 /\ k # 1 /\ k # 2
      BY <2>14
    <3>2. CASE first = "."
      <4>1. Len(t) > 1 /\ t[1] = << >>
        BY <2>4, <2>5, <2>8, <2>9, <3>1, <3>2, <2>3
      <4> QED
        BY <2>11, <3>1, <3>2, <4>1 DEF FirstLabelFits, first
    <3>3. CASE first # "."
      <4>1. t[1] # << >> /\ t[1][1] = first
        BY <2>5, <2>8, <2>10, <3>1, <3>3
      <4>2. second = "." => Len(t) > 1 /\ t[1] = << first >>
        BY <2>3, <2>4, <2>5, <2>8, <2>9, <3>1, <3>3
      <4>3. second # "." => Len(t[1]) > 1
        <5>1. Len(ls[1]) \in Nat
          BY <2>4
        <5> QED
          BY <2>5, <2>8, <2>10, <3>1, <3>3, <5>1
      <4> QED
        BY <2>11, <3>1, <3>3, <4>1, <4>2, <4>3 DEF FirstLabelFits, first, second
    <3> QED
      BY <3>2, <3>3
  <2>15. k = 1 \/ k = 2 \/ k > 2
    OBVIOUS
  <2> QED
    BY <2>12, <2>13, <2>14, <2>15
<1> HIDE DEF G
<1>3. n \in Nat
  OBVIOUS
<1>4. \A k \in 0..n : k \in G
  <2>1. 0 \in Nat /\ (0 + 1)..n = 1..n
    OBVIOUS
  <2>2. \A k \in (0 + 1)..n : k - 1 \in G => k \in G
    BY <1>2, <2>1
  <2> QED
    BY <1>1, <1>3, <2>1, <2>2, IndexInduction
<1>5. n \in G
  BY <1>3, <1>4
<1> QED
  BY <1>5 DEF G

\* The loop, from its start after a wildcard or at the first character.
LEMMA ScanOfName ==
    ASSUME NEW name \in Seq(Alphabet), NEW id_role, NEW wild \in BOOLEAN,
           NEW g, LabelsUpTo(name, g), NEW first, first = (IF wild THEN 3 ELSE 1),
           Len(name) >= first, wild => name[1] = "*" /\ name[2] = ".",
           NEW h, Rounds(name, id_role, first,
                         ScanOf(TRUE, FALSE, FALSE, ~wild, IF wild THEN 1 ELSE 0, 0),
                         Len(name), h)
    PROVE  ScanFits(h[Len(name)], Labels(name), id_role, wild)
<1> DEFINE b == first - 1
           n == Len(name)
           start == ScanOf(TRUE, FALSE, FALSE, ~wild, IF wild THEN 1 ELSE 0, 0)
           G == {k \in Nat : ScanFits(h[k], g[k], id_role, wild)}
<1>1. n \in Nat /\ b \in Nat /\ first = b + 1 /\ first \in Nat
  OBVIOUS
<1>2. \A k \in b..n : h[k] = IF k < first THEN start ELSE scan(h[k - 1], name[k], id_role)
  BY DEF Rounds
<1>3. h[b] = start
  <2>1. b \in b..n /\ b < first
    BY <1>1
  <2> HIDE DEF b, n, start
  <2> QED
    BY <1>2, <2>1
<1>4. \A k \in first..n : h[k] = scan(h[k - 1], name[k], id_role)
  <2>1. \A k \in first..n : k \in b..n /\ ~(k < first)
    BY <1>1
  <2> HIDE DEF b, n, start
  <2> QED
    BY <1>2, <2>1
<1>5. \A k \in 0..n : FirstLabelFits(name, k, g[k])
  BY FirstLabel
<1>6. b \in G
  <2> DEFINE ls == g[b]
  <2>1. CASE ~wild
    <3>1. b = 0 /\ ls = NoLabel
      BY <2>1 DEF LabelsUpTo
    <3>2. /\ Len(ls) = 1 /\ Len(ls) - 1 = 0 /\ ls[Len(ls)] = << >> /\ ls[1] = << >>
      BY <3>1 DEF NoLabel
    <3>3. start = ScanOf(TRUE, FALSE, FALSE, TRUE, 0, 0)
      BY <2>1
    <3> HIDE DEF ls, start
    <3>4. FlagsFit(TRUE, FALSE, FALSE, TRUE, ls, id_role, wild)
      BY <2>1, <3>2, EmptyBegins DEF FlagsFit
    <3>5. start = ScanOf(TRUE, FALSE, FALSE, TRUE, Len(ls) - 1, Len(ls[Len(ls)]))
      BY <3>2, <3>3, EmptyBegins
    <3>6. ScanFits(start, ls, id_role, wild)
      BY <3>4, <3>5 DEF ScanFits
    <3> QED
      BY <1>1, <1>3, <3>6 DEF ls
  <2>2. CASE wild
    <3>1. b = 2 /\ 2 \in 0..n /\ name[1] # "." /\ name[1] = "*"
      BY <2>2
    <3>2. Len(ls) = 2 /\ ls[1] = << "*" >> /\ ls[2] = << >>
      BY <1>5, <2>2, <3>1 DEF FirstLabelFits
    <3>3. start = ScanOf(TRUE, FALSE, FALSE, FALSE, 1, 0)
      BY <2>2
    <3>4. Len(ls) - 1 = 1 /\ ls[Len(ls)] = << >>
      BY <3>2
    <3>5. ~AllDigits(ls[1])
      <4>1. Range(<< "*" >>) = {"*"}
        BY DEF Range
      <4>2. "*" \notin Digits
        BY DEF Digits, HexDigits
      <4> QED
        BY <3>2, <4>1, <4>2 DEF AllDigits
    <3> HIDE DEF ls, start
    <3>6. \A j \in 1..1 : Tolerated(ls, j, id_role, wild)
      BY <2>2 DEF Tolerated
    <3>7. FlagsFit(TRUE, FALSE, FALSE, FALSE, ls, id_role, wild)
      <4> DEFINE m == Len(ls)
      <4>1. m > 1 /\ m # 1 /\ m - 1 = 1 /\ ls[m - 1] = ls[1] /\ ls[m] = << >>
        BY <3>2, <3>4
      <4>2. \A j \in 1..(m - 1) : Tolerated(ls, j, id_role, wild)
        BY <3>6, <4>1
      <4>3. FlagsFit(TRUE, FALSE, FALSE, FALSE, ls, id_role, wild) <=>
                /\ ~(~wild /\ m = 1 /\ ls[1] = << >>)
                /\ LabelBegins(ls[m])
                /\ \A j \in 1..(m - 1) : Label(ls[j]) \/ Tolerated(ls, j, id_role, wild)
                /\ ~(ls[m] # << >> /\ ls[m][Len(ls[m])] = "-")
                /\ ls[m] # << >> => ~AllDigits(ls[m])
                /\ ls[m] = << >> => ~(m > 1 /\ ls[m - 1] # << >> /\ AllDigits(ls[m - 1]))
                /\ wild => m > 1 /\ ls[1] = << "*" >>
        BY DEF FlagsFit
      <4> HIDE DEF m
      <4> QED
        BY <2>2, <3>2, <3>5, <4>1, <4>2, <4>3, EmptyBegins
    <3>8. start = ScanOf(TRUE, FALSE, FALSE, FALSE, Len(ls) - 1, Len(ls[Len(ls)]))
      BY <3>3, <3>4, EmptyBegins
    <3>9. ScanFits(start, ls, id_role, wild)
      BY <3>7, <3>8 DEF ScanFits
    <3> QED
      BY <1>1, <1>3, <3>9 DEF ls
  <2> QED
    BY <2>1, <2>2
<1>7. ASSUME NEW k \in (b + 1)..n, k - 1 \in G PROVE k \in G
  <2> DEFINE ls == g[k - 1]
             c == name[k]
             s == h[k - 1]
  <2>1. k \in first..n /\ k - 1 \in 0..n /\ k \in 1..n /\ k \in Nat
    BY <1>1, <1>7
  <2>2. ScanFits(s, ls, id_role, wild)
    BY <1>7
  <2>3. ls \in LabelLists /\ Len(ls) > 0
    BY <1>5, <2>1 DEF FirstLabelFits
  <2>4. c \in Alphabet
    BY <2>1
  <2>5. g[k] = LabelStep(ls, c)
    BY <2>1 DEF LabelsUpTo
  <2>6. h[k] = scan(s, c, id_role)
    BY <1>4, <2>1
  <2> HIDE DEF ls, c, s
  <2>7. ScanFits(scan(s, c, id_role), LabelStep(ls, c), id_role, wild)
    BY <2>2, <2>3, <2>4, DotFits, CharacterFits
  <2> QED
    BY <2>1, <2>5, <2>6, <2>7
<1> HIDE DEF G, b, n
<1>8. \A k \in b..n : k \in G
  <2>1. \A k \in (b + 1)..n : k - 1 \in G => k \in G
    BY <1>7
  <2> QED
    BY <1>1, <1>6, <2>1, IndexInduction
<1>9. n \in b..n
  <2>1. b <= n
    BY <1>1 DEF b, n
  <2> QED
    BY <1>1, <2>1
<1>10. ScanFits(h[n], g[n], id_role, wild)
  BY <1>8, <1>9 DEF G
<1> QED
  BY <1>10 DEF LabelsUpTo, n

\* is_valid_dns_id with the rounds of its loop.
LEMMA ValidByRounds ==
    ASSUME NEW name \in Seq(Alphabet), NEW id_role, NEW wildcards \in BOOLEAN
    PROVE  LET wild  == wildcards /\ peek(name, 1, "*")
               first == IF wild THEN 3 ELSE 1
               start == ScanOf(TRUE, FALSE, FALSE, ~wild, IF wild THEN 1 ELSE 0, 0)
           IN  \E h :
                   /\ Len(name) >= first => Rounds(name, id_role, first, start, Len(name), h)
                   /\ is_valid_dns_id(name, id_role, wildcards) <=>
                          /\ Len(name) <= MAX_NAME_LENGTH
                          /\ \/ id_role = "NameConstraint" /\ name = << >>
                             \/ /\ wild => peek(name, 2, ".")
                                /\ Len(name) >= first
                                /\ scan_end(h[Len(name)], id_role, wild)
<1> DEFINE wild  == wildcards /\ peek(name, 1, "*")
           first == IF wild THEN 3 ELSE 1
           start == ScanOf(TRUE, FALSE, FALSE, ~wild, IF wild THEN 1 ELSE 0, 0)
           h == CHOOSE h : Rounds(name, id_role, first, start, Len(name), h)
<1>1. ASSUME Len(name) >= first PROVE Rounds(name, id_role, first, start, Len(name), h)
  <2>1. first \in Nat \ {0} /\ Len(name) \in Nat /\ Len(name) >= first - 1
    BY <1>1
  <2> HIDE DEF first, start
  <2> QED
    BY <2>1, RoundsExist
<1>2. is_valid_dns_id(name, id_role, wildcards) <=>
          /\ Len(name) <= MAX_NAME_LENGTH
          /\ \/ id_role = "NameConstraint" /\ name = << >>
             \/ /\ wild => peek(name, 2, ".")
                /\ Len(name) >= first
                /\ scan_end(h[Len(name)], id_role, wild)
  BY DEF is_valid_dns_id, Rounds, ScanOf
<1> HIDE DEF h
<1> QED
  BY <1>1, <1>2

\* What ValidByLabels asks of the labels, with the first and the last that must be one.
LEMMA ValidByList ==
    ASSUME NEW name \in Seq(Alphabet), NEW id_role, NEW wildcards \in BOOLEAN,
           NEW ls \in LabelLists, ls = Labels(name), Len(ls) > 0
    PROVE  LET wild == wildcards /\ peek(name, 1, "*")
               last == LastOf(ls, id_role)
               from == IF \/ id_role = "NameConstraint" /\ Len(ls) > 1 /\ ls[1] = << >>
                          \/ wildcards /\ ls[1] = << "*" >>
                       THEN 2 ELSE 1
           IN  ValidByLabels(name, id_role, wildcards) <=>
                   /\ Len(name) <= MAX_NAME_LENGTH
                   /\ \/ id_role = "NameConstraint" /\ name = << >>
                      \/ /\ from <= last
                         /\ \A j \in from..last : Label(ls[j])
                         /\ ~AllDigits(ls[last])
                         /\ wild => last - from + 1 >= 2
<1> DEFINE wild == wildcards /\ peek(name, 1, "*")
           last == LastOf(ls, id_role)
           from == IF \/ id_role = "NameConstraint" /\ Len(ls) > 1 /\ ls[1] = << >>
                      \/ wildcards /\ ls[1] = << "*" >>
                   THEN 2 ELSE 1
           proper == SubSeq(ls, from, last)
<1>1. Proper(name, id_role, wildcards) = proper
  BY DEF Proper, LastOf
<1>2. last \in Nat /\ last <= Len(ls) /\ from \in {1, 2}
  <2>1. Len(ls) \in Nat
    BY DEF LabelLists
  <2> QED
    BY <2>1 DEF LastOf
<1>3. ValidByLabels(name, id_role, wildcards) <=>
          /\ Len(name) <= MAX_NAME_LENGTH
          /\ \/ id_role = "NameConstraint" /\ name = << >>
             \/ /\ proper # << >>
                /\ \A k \in DOMAIN proper : Label(proper[k])
                /\ ~(Range(proper[Len(proper)]) \subseteq Digits)
                /\ wild => Len(proper) >= 2
  BY <1>1 DEF ValidByLabels
<1> HIDE DEF from, last, wild
<1>4. /\ proper # << >> <=> from <= last
      /\ from <= last =>
             /\ (\A k \in DOMAIN proper : Label(proper[k])) <=>
                    (\A j \in from..last : Label(ls[j]))
             /\ Range(proper[Len(proper)]) \subseteq Digits <=> AllDigits(ls[last])
             /\ Len(proper) = last - from + 1
  BY <1>2, ListIsProper
<1> HIDE DEF proper
<1> QED
  BY <1>3, <1>4 DEF from, last, wild

\* A wildcard is no character of a label, and an empty label is none.
LEMMA NoLabels ==
    /\ ~Label(<< >>)
    /\ \A l \in Seq(Alphabet) : l # << >> /\ l[1] = "*" => ~Label(l)
<1>1. ~(Len(<< >>) \in 1..MAX_LABEL_LENGTH)
  BY LengthAssumption
<1>2. "*" \notin Characters
  BY DEF Characters, Digits, Letters, HexDigits, UpperHex, Range
<1>3. ASSUME NEW l \in Seq(Alphabet), l # << >>, l[1] = "*" PROVE ~Label(l)
  <2>1. 1 \in DOMAIN l
    BY <1>3, EmptySeq, LenProperties
  <2>2. "*" \in Range(l)
    BY <1>3, <2>1 DEF Range
  <2> QED
    BY <1>2, <2>2 DEF Label, Characters
<1> QED
  BY <1>1, <1>3 DEF Label

\* Validity for any name.
LEMMA ValidityOfName ==
    ASSUME NEW name \in Seq(Alphabet), NEW id_role, NEW wildcards \in BOOLEAN
    PROVE  is_valid_dns_id(name, id_role, wildcards) <=> ValidByLabels(name, id_role, wildcards)
<1> DEFINE n == Len(name)
           ls == Labels(name)
           wild  == wildcards /\ peek(name, 1, "*")
           first == IF wild THEN 3 ELSE 1
           start == ScanOf(TRUE, FALSE, FALSE, ~wild, IF wild THEN 1 ELSE 0, 0)
           last == LastOf(ls, id_role)
           from == IF \/ id_role = "NameConstraint" /\ Len(ls) > 1 /\ ls[1] = << >>
                      \/ wildcards /\ ls[1] = << "*" >>
                   THEN 2 ELSE 1
<1>1. n \in Nat /\ DOMAIN name = 1..n /\ (name = << >> <=> n = 0)
  BY LenProperties, EmptySeq
<1>2. PICK g : LabelsUpTo(name, g)
  BY <1>1, LabelsByStep
<1>3. FirstLabelFits(name, n, ls)
  <2>1. n \in 0..Len(name) /\ g[n] = ls
    BY <1>1, <1>2 DEF LabelsUpTo
  <2> QED
    BY <1>2, <2>1, FirstLabel
<1>4. ls \in LabelLists /\ Len(ls) > 0
  BY <1>3 DEF FirstLabelFits
<1>5. PICK h :
          /\ n >= first => Rounds(name, id_role, first, start, n, h)
          /\ is_valid_dns_id(name, id_role, wildcards) <=>
                 /\ n <= MAX_NAME_LENGTH
                 /\ \/ id_role = "NameConstraint" /\ name = << >>
                    \/ /\ wild => peek(name, 2, ".")
                       /\ n >= first
                       /\ scan_end(h[n], id_role, wild)
  BY ValidByRounds
<1> DEFINE Code == /\ wild => peek(name, 2, ".")
                   /\ n >= first
                   /\ scan_end(h[n], id_role, wild)
           List == /\ from <= last
                   /\ \A j \in from..last : Label(ls[j])
                   /\ ~AllDigits(ls[last])
                   /\ wild => last - from + 1 >= 2
<1>6. ValidByLabels(name, id_role, wildcards) <=>
          /\ n <= MAX_NAME_LENGTH
          /\ (id_role = "NameConstraint" /\ name = << >>) \/ List
  BY <1>4, ValidByList
<1> SUFFICES Code <=> List
  <2> HIDE DEF Code, List
  <2>1. is_valid_dns_id(name, id_role, wildcards) <=>
            /\ n <= MAX_NAME_LENGTH
            /\ (id_role = "NameConstraint" /\ name = << >>) \/ Code
    BY <1>5 DEF Code
  <2> QED
    BY <1>6, <2>1
<1>7. /\ wild \in BOOLEAN
      /\ wild <=> wildcards /\ n >= 1 /\ name[1] = "*"
      /\ peek(name, 2, ".") <=> n >= 2 /\ name[2] = "."
  BY <1>1 DEF peek
<1>8. /\ wild => first = 3
      /\ ~wild => first = 1
  OBVIOUS
<1>9. Len(ls) \in Nat /\ Len(ls) \in 1..Len(ls) /\ 1 \in 1..Len(ls) /\ ls[1] \in Seq(Alphabet)
  <2>1. Len(ls) \in Nat /\ Len(ls) \in 1..Len(ls) /\ 1 \in 1..Len(ls)
    BY <1>4 DEF LabelLists
  <2> HIDE DEF ls
  <2> QED
    BY <1>4, <2>1, ElementOfSeq DEF LabelLists
<1>10. /\ last \in {Len(ls), Len(ls) - 1}
       /\ last = Len(ls) - 1 => Len(ls) > 1
  BY <1>9 DEF LastOf
<1>11. from \in {1, 2} /\ (from = 2 <=> \/ id_role = "NameConstraint" /\ Len(ls) > 1 /\ ls[1] = << >>
                                        \/ wildcards /\ ls[1] = << "*" >>)
  OBVIOUS
<1> DEFINE m == Len(ls)
<1>12. /\ n = 0 => ls = NoLabel
       /\ n > 0 /\ name[1] = "." => m > 1 /\ ls[1] = << >>
       /\ n > 0 /\ name[1] # "." => ls[1] # << >> /\ ls[1][1] = name[1]
       /\ n = 1 /\ name[1] # "." => ls = << << name[1] >> >>
       /\ n > 1 /\ name[1] # "." =>
              /\ name[2] = "." => m > 1 /\ ls[1] = << name[1] >>
              /\ name[2] # "." => Len(ls[1]) > 1
       /\ n = 2 /\ name[1] # "." /\ name[2] = "." => m = 2 /\ ls[2] = << >>
  BY <1>3 DEF FirstLabelFits
<1>13. << "*" >> # << >> /\ << "*" >>[1] = "*" /\ Len(<< "*" >>) = 1
  OBVIOUS
<1> HIDE DEF wild, first, from, last, ls, start
<1>14. CASE n = 0
  <2>1. ~Code
    BY <1>8, <1>14, <1>7
  <2>2. m = 1 /\ ls[1] = << >>
    BY <1>12, <1>14 DEF NoLabel
  <2>3. last = 1 /\ from = 1
    BY <1>10, <1>11, <1>13, <2>2
  <2>4. ~List
    BY <2>2, <2>3, NoLabels
  <2> QED
    BY <2>1, <2>4
<1>15. CASE wild /\ ~peek(name, 2, ".")
  <2>1. ~Code
    BY <1>15
  <2>2. name[1] = "*" /\ wildcards /\ n >= 1 /\ name[1] # "."
    BY <1>7, <1>15
  <2>3. CASE n = 1
    <3>1. ls = << << "*" >> >>
      BY <1>12, <2>2, <2>3
    <3>2. m = 1 /\ ls[1] = << "*" >>
      BY <3>1
    <3>3. last = 1 /\ from = 2
      BY <1>10, <1>11, <2>2, <3>2
    <3> QED
      BY <2>1, <3>3
  <2>4. CASE n # 1
    <3>1. n > 1 /\ n >= 2 /\ n > 0
      BY <1>1, <2>2, <2>4
    <3>2. ls[1] # << >> /\ ls[1][1] = "*" /\ Len(ls[1]) > 1
      BY <1>7, <1>12, <1>15, <2>2, <3>1
    <3>3. from = 1
      <4>1. ls[1] # << "*" >>
        <5>1. ~(1 > 1)
          OBVIOUS
        <5> QED
          BY <1>13, <3>2, <5>1
      <4> QED
        BY <1>11, <3>2, <4>1
    <3>4. 1 <= last => 1 \in from..last
      BY <1>9, <1>10, <3>3
    <3>5. ~Label(ls[1])
      BY <1>9, <3>2, NoLabels
    <3>6. ~List
      BY <3>3, <3>4, <3>5
    <3> QED
      BY <2>1, <3>6
  <2> QED
    BY <2>3, <2>4
<1>16. CASE wild /\ peek(name, 2, ".")
  <2>1. name[1] = "*" /\ wildcards /\ n >= 2 /\ name[1] # "." /\ name[2] = "." /\ n > 1
    BY <1>1, <1>7, <1>16
  <2>2. m > 1 /\ ls[1] = << "*" >> /\ from = 2
    BY <1>11, <1>12, <2>1
  <2>3. CASE n = 2
    <3>1. ~Code
      BY <1>8, <1>16, <2>3
    <3>2. m = 2 /\ ls[2] = << >>
      BY <1>12, <2>1, <2>3
    <3>3. from <= last => 2 \in from..last
      BY <1>9, <1>10, <2>2
    <3>4. ~List
      BY <3>2, <3>3, NoLabels
    <3> QED
      BY <3>1, <3>4
  <2>4. CASE n # 2
    <3>1. n >= first /\ first = 3
      BY <1>1, <1>8, <1>16, <2>1, <2>4
    <3>2. Rounds(name, id_role, first, start, n, h)
      BY <1>5, <3>1
    <3>3. ScanFits(h[n], ls, id_role, wild)
      BY <1>2, <1>7, <1>16, <2>1, <3>1, <3>2, ScanOfName DEF start, ls
    <3>4. scan_end(h[n], id_role, wild) <=> ValidList(ls, id_role, wild)
      BY <1>4, <1>7, <2>2, <3>3, EndFits
    <3>5. FromOf(ls, id_role, wild) = from
      BY <1>16, <2>2 DEF FromOf
    <3>6. last - from + 1 = last - 1
      BY <1>9, <1>10, <2>2
    <3>7. ValidList(ls, id_role, wild) <=> List
      BY <3>5, <3>6 DEF ValidList, last
    <3>8. Code <=> scan_end(h[n], id_role, wild)
      BY <1>16, <3>1
    <3> HIDE DEF Code, List
    <3> QED
      BY <3>4, <3>7, <3>8
  <2> QED
    BY <2>3, <2>4
<1>17. CASE ~wild /\ n # 0
  <2>1. n >= first /\ first = 1 /\ n > 0
    BY <1>1, <1>8, <1>17
  <2>2. Rounds(name, id_role, first, start, n, h)
    BY <1>5, <2>1
  <2>3. ScanFits(h[n], ls, id_role, wild)
    BY <1>2, <1>7, <1>17, <2>1, <2>2, ScanOfName DEF start, ls
  <2>4. m > 1 \/ ls[m] # << >>
    <3>1. m = 1 => ls[m] = ls[1]
      OBVIOUS
    <3>2. m > 1 \/ m = 1
      <4>1. m \in Nat /\ m > 0
        BY <1>4, <1>9
      <4> HIDE DEF m
      <4> QED
        BY <4>1
    <3> QED
      BY <1>12, <2>1, <3>1, <3>2
  <2>5. scan_end(h[n], id_role, wild) <=> ValidList(ls, id_role, wild)
    BY <1>4, <1>7, <2>3, <2>4, EndFits
  <2>6. ~(wildcards /\ ls[1] = << "*" >>)
    BY <1>7, <1>12, <1>13, <1>17, <2>1
  <2>7. FromOf(ls, id_role, wild) = from
    BY <1>17, <2>6 DEF FromOf, from
  <2>8. ValidList(ls, id_role, wild) <=> List
    BY <1>17, <2>7 DEF ValidList, last
  <2>9. Code <=> scan_end(h[n], id_role, wild)
    BY <1>17, <2>1
  <2> HIDE DEF Code, List
  <2> QED
    BY <2>5, <2>8, <2>9
<1> QED
  BY <1>14, <1>15, <1>16, <1>17

-----------------------------------------------------------------------------
TextIsText == text \in Seq(Alphabet)

\* ValidityByLabels: is_valid_dns_id accepts exactly the names whose labels are valid, for
\* names of any length, any bounds on the lengths of names and labels, in every role.
THEOREM ValidityTheorem == Spec => []ValidityByLabels
<1>1. Init => TextIsText
  BY ShapeAssumption DEF Init, TextIsText
<1>2. TextIsText /\ [Next]_vars => TextIsText'
  <2> SUFFICES ASSUME TextIsText, [Next]_vars PROVE text' = text
    BY DEF TextIsText
  <2>1. CASE ReadNext
    BY <2>1 DEF ReadNext, Dot, Number, Ipv4, NotIpv4, Colon, Hex, Ipv6, NotIpv6
  <2>2. CASE UNCHANGED text_vars
    BY <2>2 DEF text_vars
  <2> QED
    BY <2>1, <2>2 DEF Next, vars
<1>3. TextIsText => ValidityByLabels
  BY ValidityOfName DEF TextIsText, ValidityByLabels
<1> QED
  BY <1>1, <1>2, <1>3, PTL DEF Spec

-----------------------------------------------------------------------------
(* What the loop leaves of a name that it accepts.                         *)

\* A round that ends with t: a wildcard is refused, and a dot at the start of a label,
\* unless a constraint begins with it.
RoundRefuses(ok, is_first, length, c, id_role, t) ==
    \E ok2, numeric2, hyphen2 \in BOOLEAN, dots2, length2 \in Nat :
        /\ t = ScanOf(ok2, numeric2, hyphen2, FALSE, dots2, length2)
        /\ length2 = 0 <=> c = "."
        /\ ok2 => /\ ok /\ c # "*"
                  /\ c = "." /\ length = 0 => id_role = "NameConstraint" /\ is_first = TRUE

\* One round of the scan refuses what RoundRefuses says.
LEMMA ScanRefuses ==
    ASSUME NEW ok \in BOOLEAN, NEW numeric \in BOOLEAN, NEW hyphen \in BOOLEAN,
           NEW is_first \in BOOLEAN, NEW dots \in Nat, NEW length \in Nat,
           NEW c \in Alphabet, NEW id_role
    PROVE  RoundRefuses(ok, is_first, length, c, id_role,
               scan(ScanOf(ok, numeric, hyphen, is_first, dots, length), c, id_role))
<1> DEFINE s == ScanOf(ok, numeric, hyphen, is_first, dots, length)
<1>1. CASE c = "."
  <2> DEFINE o == ok /\ dot_allowed(s, id_role)
  <2>1. scan(s, c, id_role) = ScanOf(o, numeric, hyphen, FALSE, dots + 1, 0)
    BY <1>1 DEF scan, ScanOf
  <2>2. o \in BOOLEAN
    BY DEF dot_allowed
  <2>3. o => ok /\ (length = 0 => id_role = "NameConstraint" /\ is_first = TRUE)
    BY DEF dot_allowed, ScanOf
  <2>4. c # "*" /\ dots + 1 \in Nat /\ 0 \in Nat /\ 0 = 0
    BY <1>1
  <2> HIDE DEF o
  <2> SUFFICES \E ok2, numeric2, hyphen2 \in BOOLEAN, dots2, length2 \in Nat :
                 /\ scan(s, c, id_role) = ScanOf(ok2, numeric2, hyphen2, FALSE, dots2, length2)
                 /\ length2 = 0 <=> c = "."
                 /\ ok2 => /\ ok /\ c # "*"
                           /\ c = "." /\ length = 0 =>
                                  id_role = "NameConstraint" /\ is_first = TRUE
    BY DEF RoundRefuses
  <2> WITNESS o \in BOOLEAN, numeric \in BOOLEAN, hyphen \in BOOLEAN, dots + 1 \in Nat,
              0 \in Nat
  <2> QED
    BY <1>1, <2>1, <2>3, <2>4
<1>2. CASE c # "."
  <2> DEFINE o == /\ ok /\ c \in Digits \cup Letters \cup {"-"}
                  /\ c = "-" => length > 0
                  /\ length < MAX_LABEL_LENGTH
             num == c \in Digits /\ (length = 0 \/ numeric)
             hyp == c = "-"
  <2>1. scan(s, c, id_role) = ScanOf(o, num, hyp, FALSE, dots, length + 1)
    BY <1>2 DEF scan, ScanOf
  <2>2. o \in BOOLEAN /\ num \in BOOLEAN /\ hyp \in BOOLEAN /\ length + 1 \in Nat /\ length + 1 # 0
    OBVIOUS
  <2>3. "*" \notin Digits \cup Letters \cup {"-"}
    BY DEF Digits, Letters, HexDigits, UpperHex, Range
  <2>4. o => ok /\ c # "*"
    BY <2>3
  <2> HIDE DEF o, num, hyp, s
  <2> QED
    BY <1>2, <2>1, <2>2, <2>4 DEF s, RoundRefuses
<1> QED
  BY <1>1, <1>2

\* Character i of a name that is scanned from the character first on.
Admitted(name, i, first, id_role) ==
    /\ name[i] # "*"
    /\ name[i] = "." => IF i = first THEN first = 1 /\ id_role = "NameConstraint"
                        ELSE name[i - 1] # "."

\* What the running variables after character k say.
Passed(name, k, first, id_role, s) ==
    \E ok, numeric, hyphen, is_first \in BOOLEAN, dots, length \in Nat :
        /\ s = ScanOf(ok, numeric, hyphen, is_first, dots, length)
        /\ IF k < first THEN length = 0 /\ (is_first = TRUE => first = 1)
           ELSE ~is_first /\ (length = 0 <=> name[k] = ".")
        /\ ok => \A i \in first..k : Admitted(name, i, first, id_role)

\* The whole loop: every character of an accepted name was admitted.
LEMMA LoopAdmits ==
    ASSUME NEW name \in Seq(Alphabet), NEW id_role, NEW wild \in BOOLEAN,
           NEW first, first = (IF wild THEN 3 ELSE 1), Len(name) >= first,
           NEW h, Rounds(name, id_role, first,
                         ScanOf(TRUE, FALSE, FALSE, ~wild, IF wild THEN 1 ELSE 0, 0),
                         Len(name), h)
    PROVE  Passed(name, Len(name), first, id_role, h[Len(name)])
<1> DEFINE b == first - 1
           n == Len(name)
           start == ScanOf(TRUE, FALSE, FALSE, ~wild, IF wild THEN 1 ELSE 0, 0)
           G == {k \in Nat : Passed(name, k, first, id_role, h[k])}
<1>1. n \in Nat /\ b \in Nat /\ first = b + 1 /\ first \in Nat /\ b >= 0
  OBVIOUS
<1>2. \A k \in b..n : h[k] = IF k < first THEN start ELSE scan(h[k - 1], name[k], id_role)
  BY DEF Rounds
<1>3. b \in G
  <2>1. b \in b..n /\ b < first
    BY <1>1
  <2>2. h[b] = start
    <3> HIDE DEF b, n, start
    <3> QED
      BY <1>2, <2>1
  <2>3. PICK f \in BOOLEAN, d \in Nat : start = ScanOf(TRUE, FALSE, FALSE, f, d, 0) /\ (f = TRUE => first = 1)
    OBVIOUS
  <2>4. first..b = {}
    BY <1>1
  <2> HIDE DEF b, n, start
  <2>5. Passed(name, b, first, id_role, h[b])
    BY <2>1, <2>2, <2>3, <2>4 DEF Passed
  <2> QED
    BY <1>1, <2>5
<1>4. ASSUME NEW k \in (b + 1)..n, k - 1 \in G PROVE k \in G
  <2>1. k \in first..n /\ k \in b..n /\ ~(k < first) /\ k \in 1..n /\ k \in Nat
    BY <1>1
  <2>2. h[k] = scan(h[k - 1], name[k], id_role)
    <3> HIDE DEF b, n, start
    <3> QED
      BY <1>2, <2>1
  <2>3. Passed(name, k - 1, first, id_role, h[k - 1])
    BY <1>4
  <2>4. PICK ok, numeric, hyphen, is_first \in BOOLEAN, dots, length \in Nat :
            /\ h[k - 1] = ScanOf(ok, numeric, hyphen, is_first, dots, length)
            /\ IF k - 1 < first THEN length = 0 /\ (is_first = TRUE => first = 1)
               ELSE ~is_first /\ (length = 0 <=> name[k - 1] = ".")
            /\ ok => \A i \in first..(k - 1) : Admitted(name, i, first, id_role)
    BY <2>3 DEF Passed
  <2>5. name[k] \in Alphabet
    BY <2>1
  <2>6. PICK ok2, numeric2, hyphen2 \in BOOLEAN, dots2, length2 \in Nat :
            /\ h[k] = ScanOf(ok2, numeric2, hyphen2, FALSE, dots2, length2)
            /\ length2 = 0 <=> name[k] = "."
            /\ ok2 => /\ ok /\ name[k] # "*"
                      /\ name[k] = "." /\ length = 0 =>
                             id_role = "NameConstraint" /\ is_first = TRUE
    <3> HIDE DEF b, n, start, G
    <3> DEFINE s == ScanOf(ok, numeric, hyphen, is_first, dots, length)
    <3>1. RoundRefuses(ok, is_first, length, name[k], id_role, scan(s, name[k], id_role))
      BY <2>5, ScanRefuses
    <3>2. h[k] = scan(s, name[k], id_role)
      BY <2>2, <2>4
    <3> HIDE DEF s
    <3>3. RoundRefuses(ok, is_first, length, name[k], id_role, h[k])
      BY <3>1, <3>2
    <3> QED
      BY <3>3, Zenon DEF RoundRefuses
  <2>7. k - 1 < first <=> k = first
    BY <1>1, <2>1
  <2>8. ASSUME ok2 PROVE Admitted(name, k, first, id_role)
    BY <2>4, <2>6, <2>7, <2>8 DEF Admitted
  <2>9. \A i \in first..k : i \in first..(k - 1) \/ i = k
    BY <1>1, <2>1
  <2>10. ok2 => \A i \in first..k : Admitted(name, i, first, id_role)
    BY <2>4, <2>6, <2>8, <2>9
  <2> HIDE DEF b, n, start
  <2>11. Passed(name, k, first, id_role, h[k])
    BY <2>1, <2>6, <2>10 DEF Passed
  <2> QED
    BY <2>1, <2>11
<1>5. b <= n
  BY <1>1
<1> HIDE DEF b, n, start, G
<1>6. \A k \in b..n : k \in G
  BY <1>1, <1>3, <1>4, IndexInduction
<1>7. n \in b..n
  BY <1>1, <1>5
<1>8. n \in G
  BY <1>6, <1>7
<1> QED
  BY <1>8 DEF G, n

\* A valid name: where its dots and its wildcard are.
Shape(name, id_role, wildcards) ==
    LET wild  == wildcards /\ peek(name, 1, "*")
        first == IF wild THEN 3 ELSE 1
    IN  \/ id_role = "NameConstraint" /\ name = << >>
        \/ /\ wild => peek(name, 2, ".")
           /\ Len(name) >= first
           /\ \A i \in first..Len(name) : Admitted(name, i, first, id_role)
           /\ name[Len(name)] = "." => id_role = "Reference"

\* A name that is_valid_dns_id accepts has this shape.
LEMMA ValidShape ==
    ASSUME NEW name \in Seq(Alphabet), NEW id_role, NEW wildcards \in BOOLEAN,
           is_valid_dns_id(name, id_role, wildcards)
    PROVE  Shape(name, id_role, wildcards)
<1> DEFINE wild  == wildcards /\ peek(name, 1, "*")
           first == IF wild THEN 3 ELSE 1
           start == ScanOf(TRUE, FALSE, FALSE, ~wild, IF wild THEN 1 ELSE 0, 0)
           n == Len(name)
<1>1. PICK h :
          /\ n >= first => Rounds(name, id_role, first, start, n, h)
          /\ is_valid_dns_id(name, id_role, wildcards) <=>
                 /\ n <= MAX_NAME_LENGTH
                 /\ \/ id_role = "NameConstraint" /\ name = << >>
                    \/ /\ wild => peek(name, 2, ".")
                       /\ n >= first
                       /\ scan_end(h[n], id_role, wild)
  BY ValidByRounds
<1>2. SUFFICES ASSUME ~(id_role = "NameConstraint" /\ name = << >>)
               PROVE  /\ wild => peek(name, 2, ".")
                      /\ n >= first
                      /\ \A i \in first..n : Admitted(name, i, first, id_role)
                      /\ name[n] = "." => id_role = "Reference"
  BY DEF Shape
<1>3. (wild => peek(name, 2, ".")) /\ n >= first /\ scan_end(h[n], id_role, wild)
  BY <1>1, <1>2
<1>4. wild \in BOOLEAN /\ Rounds(name, id_role, first, start, n, h)
  BY <1>1, <1>3 DEF peek
<1>5. Passed(name, n, first, id_role, h[n])
  <2> HIDE DEF wild
  <2> QED
    BY <1>3, <1>4, LoopAdmits
<1>6. PICK ok, numeric, hyphen, is_first \in BOOLEAN, dots, length \in Nat :
        /\ h[n] = ScanOf(ok, numeric, hyphen, is_first, dots, length)
        /\ IF n < first THEN length = 0 /\ (is_first = TRUE => first = 1)
           ELSE ~is_first /\ (length = 0 <=> name[n] = ".")
        /\ ok => \A i \in first..n : Admitted(name, i, first, id_role)
  BY <1>5 DEF Passed
<1>7. ok /\ (length = 0 => id_role = "Reference")
  BY <1>3, <1>6 DEF scan_end, ScanOf
<1>8. ~(n < first)
  BY <1>3
<1> HIDE DEF wild, first, n
<1> QED
  BY <1>3, <1>6, <1>7, <1>8

-----------------------------------------------------------------------------
(* What the comparison decides, character by character.                    *)

\* What is left of the presented name a, from character i on, is what is left of the
\* reference b, from character j on, save a final dot.
TailFits(a, b, id_role, i, j) ==
    /\ \/ Len(a) - i = Len(b) - j
       \/ id_role = "Reference" /\ Len(a) - i + 1 = Len(b) - j /\ b[Len(b)] = "."
    /\ \A k \in i..Len(a) : ascii_lower(a[k]) = ascii_lower(b[k + (j - i)])

\* The wildcard stands for what is before the first dot that is not the first character.
FirstDot(b, d) == b[d] = "." /\ \A i \in 2..(d - 1) : b[i] # "."

\* What the wildcard of a leads to, and the comparison from character i on.
WildFits(a, b, id_role) ==
    \E d \in 2..Len(b) : FirstDot(b, d) /\ TailFits(a, b, id_role, 2, d)

FitsFrom(a, b, id_role, i) ==
    IF a[i] = "*" THEN WildFits(a, b, id_role) ELSE TailFits(a, b, id_role, i, 1)

\* The outcome for valid names.
Fits(a, b, id_role) ==
    LET longer == Len(a) - Len(b)
    IN  IF id_role = "Reference" \/ longer <= 0 THEN FitsFrom(a, b, id_role, 1)
        ELSE IF b = << >> THEN TRUE
        ELSE IF b[1] = "." THEN TailFits(a, b, id_role, longer + 1, 1)
        ELSE a[longer] = "." /\ TailFits(a, b, id_role, longer + 1, 1)

\* What is known of a valid presented name.
PresentedFacts(a) ==
    /\ Len(a) >= 1 /\ a[1] # "." /\ a[Len(a)] # "."
    /\ \A i \in 2..Len(a) : a[i] # "*"
    /\ a[1] = "*" => Len(a) >= 3 /\ a[2] = "." /\ a[3] # "."

\* A valid presented name has them.
LEMMA PresentedShape ==
    ASSUME NEW a \in Seq(Alphabet), is_valid_dns_id(a, "Presented", TRUE)
    PROVE  PresentedFacts(a)
<1> DEFINE wild == peek(a, 1, "*")
           first == IF wild THEN 3 ELSE 1
           n == Len(a)
<1>1. Shape(a, "Presented", TRUE)
  BY ValidShape
<1>2. /\ wild => peek(a, 2, ".")
      /\ n >= first
      /\ \A i \in first..n : Admitted(a, i, first, "Presented")
      /\ a[n] # "."
  BY <1>1 DEF Shape
<1>3. n \in Nat /\ n >= 1 /\ (wild <=> a[1] = "*")
  BY <1>2 DEF peek
<1>4. CASE wild
  <2>1. a[1] = "*" /\ a[2] = "." /\ n >= 3
    BY <1>2, <1>3, <1>4 DEF peek
  <2>2. \A i \in 3..n : Admitted(a, i, 3, "Presented")
    BY <1>2, <1>4
  <2>3. a[3] # "."
    <3>1. Admitted(a, 3, 3, "Presented")
      BY <1>3, <2>1, <2>2
    <3> QED
      BY <3>1 DEF Admitted
  <2>4. ASSUME NEW i \in 2..n PROVE a[i] # "*"
    <3>1. i = 2 \/ i \in 3..n
      BY <1>3
    <3> QED
      BY <2>1, <2>2, <3>1 DEF Admitted
  <2> QED
    BY <1>2, <1>3, <2>1, <2>3, <2>4 DEF PresentedFacts
<1>5. CASE ~wild
  <2>1. \A i \in 1..n : Admitted(a, i, 1, "Presented")
    BY <1>2, <1>5
  <2>2. a[1] # "."
    <3>1. Admitted(a, 1, 1, "Presented")
      BY <1>3, <2>1
    <3> QED
      BY <3>1 DEF Admitted
  <2>3. \A i \in 2..n : a[i] # "*"
    BY <1>3, <2>1 DEF Admitted
  <2> QED
    BY <1>2, <1>3, <1>5, <2>2, <2>3 DEF PresentedFacts
<1> QED
  BY <1>4, <1>5

\* One character of either.
LEMMA CharacterDecides ==
    ASSUME NEW a \in Seq(Alphabet), NEW b \in Seq(Alphabet), NEW id_role,
           NEW i \in 1..Len(a), NEW j \in Nat \ {0}
    PROVE  /\ j > Len(b) => ~TailFits(a, b, id_role, i, j)
           /\ ascii_lower(a[i]) # ascii_lower(b[j]) => ~TailFits(a, b, id_role, i, j)
           /\ j <= Len(b) /\ ascii_lower(a[i]) = ascii_lower(b[j]) =>
                  (TailFits(a, b, id_role, i, j) <=> TailFits(a, b, id_role, i + 1, j + 1))
<1> DEFINE n == Len(a)
           m == Len(b)
           same(k) == ascii_lower(a[k]) = ascii_lower(b[k + (j - i)])
           same2(k) == ascii_lower(a[k]) = ascii_lower(b[k + ((j + 1) - (i + 1))])
           dot == id_role = "Reference" /\ b[m] = "."
<1>1. n \in Nat /\ m \in Nat /\ i \in 1..n /\ i \in Nat
  OBVIOUS
<1>2. TailFits(a, b, id_role, i, j) <=>
          /\ n - i = m - j \/ (dot /\ n - i + 1 = m - j)
          /\ \A k \in i..n : same(k)
  BY DEF TailFits
<1>3. TailFits(a, b, id_role, i + 1, j + 1) <=>
          /\ n - (i + 1) = m - (j + 1) \/ (dot /\ n - (i + 1) + 1 = m - (j + 1))
          /\ \A k \in (i + 1)..n : same2(k)
  BY DEF TailFits
<1>4. i + (j - i) = j /\ j + 1 - (i + 1) = j - i
  BY <1>1
<1>5. same(i) <=> ascii_lower(a[i]) = ascii_lower(b[j])
  BY <1>4
<1>6. \A k : same2(k) <=> same(k)
  BY <1>4
<1> HIDE DEF n, m, same, same2, dot
<1>7. /\ j > m => ~(n - i = m - j) /\ ~(n - i + 1 = m - j)
      /\ n - (i + 1) = m - (j + 1) <=> n - i = m - j
      /\ n - (i + 1) + 1 = m - (j + 1) <=> n - i + 1 = m - j
      /\ i \in i..n
      /\ \A k \in i..n : k = i \/ k \in (i + 1)..n
      /\ \A k \in (i + 1)..n : k \in i..n
  BY <1>1
<1>8. (\A k \in i..n : same(k)) <=> same(i) /\ \A k \in (i + 1)..n : same2(k)
  BY <1>6, <1>7
<1> QED
  BY <1>2, <1>3, <1>5, <1>7, <1>8 DEF m

\* At the end of the presented name.
LEMMA EndDecides ==
    ASSUME NEW a \in Seq(Alphabet), NEW b \in Seq(Alphabet), NEW id_role,
           NEW j \in 1..(Len(b) + 1)
    PROVE  LET rest == IF id_role = "Reference" /\ peek(b, j, ".") THEN j + 1 ELSE j
           IN  TailFits(a, b, id_role, Len(a) + 1, j) <=> ~(rest <= Len(b))
<1> DEFINE n == Len(a)
           m == Len(b)
           rest == IF id_role = "Reference" /\ peek(b, j, ".") THEN j + 1 ELSE j
<1>1. n \in Nat /\ m \in Nat /\ j \in 1..(m + 1)
  OBVIOUS
<1>2. TailFits(a, b, id_role, n + 1, j) <=>
          \/ n - (n + 1) = m - j
          \/ id_role = "Reference" /\ n - (n + 1) + 1 = m - j /\ b[m] = "."
  <2>1. \A k \in (n + 1)..n : FALSE
    BY <1>1
  <2> QED
    BY <2>1 DEF TailFits
<1> HIDE DEF n, m
<1>3. TailFits(a, b, id_role, n + 1, j) <=>
          j = m + 1 \/ (id_role = "Reference" /\ j = m /\ b[m] = ".")
  BY <1>1, <1>2
<1>4. ~(rest <= m) <=> j = m + 1 \/ (id_role = "Reference" /\ j = m /\ b[m] = ".")
  <2>1. peek(b, j, ".") <=> j <= m /\ b[j] = "."
    BY DEF peek, m
  <2>2. CASE id_role = "Reference" /\ peek(b, j, ".")
    <3>1. rest = j + 1
      BY <2>2
    <3> HIDE DEF rest
    <3> QED
      BY <1>1, <2>1, <2>2, <3>1
  <2>3. CASE ~(id_role = "Reference" /\ peek(b, j, "."))
    <3>1. rest = j
      BY <2>3
    <3> HIDE DEF rest
    <3> QED
      BY <1>1, <2>1, <2>3, <3>1
  <2> QED
    BY <2>2, <2>3
<1> QED
  BY <1>3, <1>4 DEF n, m

\* One character for which the wildcard stands.
NoDotUpTo(b, j) == \A i \in 2..j : i <= Len(b) => b[i] # "."

\* The round of Expand either meets the first dot, or the end, or goes on.
LEMMA WildcardDecides ==
    ASSUME NEW a \in Seq(Alphabet), NEW b \in Seq(Alphabet), NEW id_role,
           NEW j \in Nat \ {0}, NoDotUpTo(b, j)
    PROVE  /\ j > Len(b) => ~WildFits(a, b, id_role)
           /\ peek(b, j + 1, ".") =>
                  (WildFits(a, b, id_role) <=> TailFits(a, b, id_role, 2, j + 1))
           /\ ~peek(b, j + 1, ".") => NoDotUpTo(b, j + 1)
<1> DEFINE m == Len(b)
<1>1. m \in Nat
  OBVIOUS
<1>2. \A i \in 2..j : i <= m => b[i] # "."
  BY DEF NoDotUpTo
<1>3. peek(b, j + 1, ".") <=> j + 1 <= m /\ b[j + 1] = "."
  BY DEF peek
<1>4. WildFits(a, b, id_role) <=>
          \E d \in 2..m : FirstDot(b, d) /\ TailFits(a, b, id_role, 2, d)
  BY DEF WildFits
<1> HIDE DEF m
<1>5. ASSUME j > m PROVE ~WildFits(a, b, id_role)
  <2>1. \A d \in 2..m : d \in 2..j /\ d <= m
    BY <1>1, <1>5
  <2>2. \A d \in 2..m : ~FirstDot(b, d)
    BY <1>2, <2>1 DEF FirstDot
  <2> QED
    BY <1>4, <2>2
<1>6. ASSUME peek(b, j + 1, ".")
      PROVE  WildFits(a, b, id_role) <=> TailFits(a, b, id_role, 2, j + 1)
  <2>1. j + 1 \in 2..m /\ b[j + 1] = "." /\ (j + 1) - 1 = j
    BY <1>1, <1>3, <1>6
  <2>2. \A i \in 2..j : i <= m
    BY <1>1, <2>1
  <2>3. FirstDot(b, j + 1)
    BY <1>2, <2>1, <2>2 DEF FirstDot
  <2>4. ASSUME NEW d \in 2..m, FirstDot(b, d) PROVE d = j + 1
    <3>1. CASE d <= j
      <4>1. d \in 2..j /\ d <= m
        BY <1>1, <3>1
      <4> QED
        BY <1>2, <2>4, <4>1 DEF FirstDot
    <3>2. CASE d > j + 1
      <4>1. j + 1 \in 2..(d - 1)
        BY <1>1, <3>2
      <4> QED
        BY <2>1, <2>4, <4>1 DEF FirstDot
    <3> QED
      BY <1>1, <3>1, <3>2
  <2> QED
    BY <1>4, <2>1, <2>3, <2>4
<1>7. ASSUME ~peek(b, j + 1, ".") PROVE NoDotUpTo(b, j + 1)
  <2>1. \A i \in 2..(j + 1) : i \in 2..j \/ i = j + 1
    OBVIOUS
  <2>2. \A i \in 2..(j + 1) : i <= m => b[i] # "."
    BY <1>2, <1>3, <1>7, <2>1
  <2> QED
    BY <2>2 DEF NoDotUpTo, m
<1> QED
  BY <1>5, <1>6, <1>7 DEF m

-----------------------------------------------------------------------------
(* The actions of the comparison.                                          *)

ValidPair(a, b, id_role) ==
    is_valid_dns_id(a, "Presented", TRUE) /\ is_valid_dns_id(b, id_role, FALSE)

\* The result of the call.
Answered(a, b, id_role, value) ==
    /\ ~is_valid_dns_id(a, "Presented", TRUE) => value = Err("MalformedDnsIdentifier")
    /\ is_valid_dns_id(a, "Presented", TRUE) /\ ~is_valid_dns_id(b, id_role, FALSE) =>
           id_role = "NameConstraint" /\ value = Err("MalformedNameConstraint")
    /\ ValidPair(a, b, id_role) =>
           \/ Fits(a, b, id_role) /\ value = Ok(TRUE)
           \/ ~Fits(a, b, id_role) /\ value = Ok(FALSE)

\* Where the readers are, and that what is left decides.
MatchState(a, b, id_role, at_pc, i, j, value) ==
    /\ a \in Seq(Alphabet) /\ b \in Seq(Alphabet)
    /\ id_role \in {"Reference", "NameConstraint"}
    /\ at_pc \in {"idle", "validate", "skip", "wildcard", "expand", "compare", "end", "done"}
    /\ at_pc # "idle" /\ id_role = "Reference" => is_dns_name(b)
    /\ at_pc \in {"idle", "validate", "skip"} => i = 1 /\ j = 1
    /\ at_pc \in {"skip", "wildcard", "expand", "compare", "end"} => ValidPair(a, b, id_role)
    /\ at_pc = "wildcard" => /\ i \in 1..Len(a) /\ j = 1
                             /\ a[i] = "*" => i = 1
                             /\ Fits(a, b, id_role) <=> FitsFrom(a, b, id_role, i)
    /\ at_pc = "expand" => /\ i = 2 /\ j \in Nat \ {0}
                           /\ a[1] = "*" /\ NoDotUpTo(b, j)
                           /\ Fits(a, b, id_role) <=> WildFits(a, b, id_role)
    /\ at_pc = "compare" => /\ i \in 1..Len(a) /\ j \in Nat \ {0}
                            /\ Fits(a, b, id_role) <=> TailFits(a, b, id_role, i, j)
    /\ at_pc = "end" => /\ i = Len(a) + 1 /\ j \in 1..(Len(b) + 1)
                        /\ Fits(a, b, id_role) <=> TailFits(a, b, id_role, i, j)
    /\ at_pc = "done" => Answered(a, b, id_role, value)

Matching == MatchState(presented, reference, role, pc, p, r, matches)

\* A return, and going on.
LEMMA Returns ==
    ASSUME Matching, pc # "idle", NEW value, Return(value),
           Answered(presented, reference, role, value)
    PROVE  Matching'
<1>1. MatchState(presented, reference, role, "done", p, r, value)
  BY DEF Matching, MatchState
<1>2. /\ presented' = presented /\ reference' = reference /\ role' = role
      /\ pc' = "done" /\ p' = p /\ r' = r /\ matches' = value
  BY DEF Return
<1> QED
  BY <1>1, <1>2 DEF Matching

LEMMA Continues ==
    ASSUME NEW next, NEW i, NEW j, Continue(next, i, j),
           MatchState(presented, reference, role, next, i, j, matches)
    PROVE  Matching'
<1>1. /\ presented' = presented /\ reference' = reference /\ role' = role
      /\ pc' = next /\ p' = i /\ r' = j /\ matches' = matches
  BY DEF Continue
<1> QED
  BY <1>1 DEF Matching

\* The outcome of a comparison.
LEMMA Verdict ==
    ASSUME Matching, ValidPair(presented, reference, role), NEW value \in BOOLEAN,
           value <=> Fits(presented, reference, role)
    PROVE  Answered(presented, reference, role, Ok(value))
  BY DEF Answered, ValidPair

\* Each action in turn.  Both names are validated, in the order of the code.
LEMMA ValidateMatches == Matching /\ Validate => Matching'
<1> SUFFICES ASSUME Matching, Validate PROVE Matching'
  OBVIOUS
<1> DEFINE a == presented
           b == reference
           va == is_valid_dns_id(a, "Presented", TRUE)
           vb == is_valid_dns_id(b, role, FALSE)
<1>1. pc = "validate" /\ p = 1 /\ r = 1 /\ role \in {"Reference", "NameConstraint"}
      /\ (role = "Reference" => vb)
  BY DEF Validate, Matching, MatchState, is_dns_name
<1>2. CASE ~va
  <2>1. Return(Err("MalformedDnsIdentifier"))
    BY <1>2 DEF Validate
  <2>2. Answered(a, b, role, Err("MalformedDnsIdentifier"))
    BY <1>2 DEF Answered, ValidPair
  <2> QED
    BY <1>1, <2>1, <2>2, Returns
<1>3. CASE va /\ ~vb
  <2>1. role = "NameConstraint"
    BY <1>1, <1>3
  <2>2. Return(Err("MalformedNameConstraint"))
    BY <1>3, <2>1 DEF Validate
  <2>3. Answered(a, b, role, Err("MalformedNameConstraint"))
    BY <1>3, <2>1 DEF Answered, ValidPair
  <2> QED
    BY <1>1, <2>2, <2>3, Returns
<1>4. CASE va /\ vb
  <2>1. Continue("skip", p, r)
    BY <1>4 DEF Validate
  <2>2. MatchState(a, b, role, "skip", p, r, matches)
    BY <1>1, <1>4 DEF Matching, MatchState, ValidPair
  <2> QED
    BY <2>1, <2>2, Continues
<1> QED
  BY <1>2, <1>3, <1>4

\* The prefix that a constraint does not have is skipped.
LEMMA SkipMatches == Matching /\ SkipPrefix => Matching'
<1> SUFFICES ASSUME Matching, SkipPrefix PROVE Matching'
  OBVIOUS
<1> DEFINE a == presented
           b == reference
           longer == Len(a) - Len(b)
<1>1. /\ pc = "skip" /\ p = 1 /\ r = 1
      /\ a \in Seq(Alphabet) /\ b \in Seq(Alphabet)
      /\ ValidPair(a, b, role)
  BY DEF SkipPrefix, Matching, MatchState
<1>2. PresentedFacts(a)
  BY <1>1, PresentedShape DEF ValidPair
<1>3. /\ Len(a) \in Nat /\ Len(b) \in Nat /\ Len(a) >= 1
      /\ (b = << >> <=> Len(b) = 0)
  BY <1>1, <1>2, EmptySeq DEF PresentedFacts
<1>4. ASSUME NEW i \in 1..Len(a), a[i] = "*" => i = 1,
             Fits(a, b, role) <=> FitsFrom(a, b, role, i), Continue("wildcard", i, r)
      PROVE  Matching'
  <2>1. MatchState(a, b, role, "wildcard", i, r, matches)
    BY <1>1, <1>4 DEF Matching, MatchState
  <2> QED
    BY <1>4, <2>1, Continues
<1>5. CASE role = "Reference" \/ longer <= 0
  <2>1. Continue("wildcard", 1, r)
    BY <1>1, <1>5 DEF SkipPrefix
  <2>2. Fits(a, b, role) <=> FitsFrom(a, b, role, 1)
    BY <1>5 DEF Fits
  <2>3. 1 \in 1..Len(a)
    BY <1>3
  <2> QED
    BY <1>4, <2>1, <2>2, <2>3
<1>6. CASE ~(role = "Reference" \/ longer <= 0) /\ b = << >>
  <2>1. Return(Ok(TRUE))
    BY <1>6 DEF SkipPrefix
  <2>2. TRUE <=> Fits(a, b, role)
    BY <1>6 DEF Fits
  <2>3. Answered(a, b, role, Ok(TRUE))
    BY <1>1, <2>2, Verdict
  <2> QED
    BY <1>1, <2>1, <2>3, Returns
<1>7. CASE ~(role = "Reference" \/ longer <= 0) /\ b # << >>
  <2>1. longer \in Nat /\ longer >= 1 /\ 1 <= Len(b) /\ longer + 1 \in 2..Len(a) /\ 1 + longer = longer + 1
    BY <1>3, <1>7
  <2>2. longer + 1 \in 1..Len(a) /\ a[longer + 1] # "*"
    BY <1>2, <1>3, <2>1 DEF PresentedFacts
  <2>3. FitsFrom(a, b, role, longer + 1) <=> TailFits(a, b, role, longer + 1, 1)
    BY <2>2 DEF FitsFrom
  <2>4. peek(b, 1, ".") <=> b[1] = "."
    BY <2>1 DEF peek
  <2>5. CASE b[1] = "."
    <3>1. Continue("wildcard", longer + 1, r)
      BY <1>1, <1>7, <2>1, <2>4, <2>5 DEF SkipPrefix
    <3>2. Fits(a, b, role) <=> TailFits(a, b, role, longer + 1, 1)
      BY <1>7, <2>5 DEF Fits
    <3> HIDE DEF longer
    <3> QED
      BY <1>4, <2>2, <2>3, <3>1, <3>2
  <2>6. CASE b[1] # "." /\ a[longer] = "."
    <3>1. Continue("wildcard", longer + 1, r)
      BY <1>1, <1>7, <2>1, <2>4, <2>6 DEF SkipPrefix, ends_with_dot
    <3>2. Fits(a, b, role) <=> TailFits(a, b, role, longer + 1, 1)
      BY <1>7, <2>6 DEF Fits
    <3> HIDE DEF longer
    <3> QED
      BY <1>4, <2>2, <2>3, <3>1, <3>2
  <2>7. CASE b[1] # "." /\ a[longer] # "."
    <3>1. Return(Ok(FALSE))
      BY <1>1, <1>7, <2>4, <2>7 DEF SkipPrefix, ends_with_dot
    <3>2. FALSE <=> Fits(a, b, role)
      BY <1>7, <2>7 DEF Fits
    <3>3. Answered(a, b, role, Ok(FALSE))
      BY <1>1, <3>2, Verdict
    <3> QED
      BY <1>1, <3>1, <3>3, Returns
  <2> QED
    BY <2>5, <2>6, <2>7
<1> QED
  BY <1>5, <1>6, <1>7

\* The wildcard is taken off the presented name.
LEMMA WildcardMatches == Matching /\ Wildcard => Matching'
<1> SUFFICES ASSUME Matching, Wildcard PROVE Matching'
  OBVIOUS
<1> DEFINE a == presented
           b == reference
<1>1. /\ pc = "wildcard" /\ p \in 1..Len(a) /\ r = 1
      /\ a[p] = "*" => p = 1
      /\ Fits(a, b, role) <=> FitsFrom(a, b, role, p)
      /\ a \in Seq(Alphabet) /\ b \in Seq(Alphabet)
      /\ ValidPair(a, b, role)
  BY DEF Wildcard, Matching, MatchState
<1>2. peek(a, p, "*") <=> a[p] = "*"
  BY <1>1 DEF peek
<1>3. CASE a[p] = "*"
  <2>1. Continue("expand", p + 1, r) /\ p = 1 /\ p + 1 = 2
    BY <1>1, <1>2, <1>3 DEF Wildcard
  <2>2. NoDotUpTo(b, 1)
    BY DEF NoDotUpTo
  <2>3. Fits(a, b, role) <=> WildFits(a, b, role)
    BY <1>1, <1>3 DEF FitsFrom
  <2>4. MatchState(a, b, role, "expand", p + 1, r, matches)
    BY <1>1, <1>3, <2>1, <2>2, <2>3 DEF Matching, MatchState
  <2> QED
    BY <2>1, <2>4, Continues
<1>4. CASE a[p] # "*"
  <2>1. Continue("compare", p, r)
    BY <1>2, <1>4 DEF Wildcard
  <2>2. Fits(a, b, role) <=> TailFits(a, b, role, p, r)
    BY <1>1, <1>4 DEF FitsFrom
  <2>3. MatchState(a, b, role, "compare", p, r, matches)
    BY <1>1, <2>2 DEF Matching, MatchState
  <2> QED
    BY <2>1, <2>3, Continues
<1> QED
  BY <1>3, <1>4

\* The label for which it stands is passed over.
LEMMA ExpandMatches == Matching /\ Expand => Matching'
<1> SUFFICES ASSUME Matching, Expand PROVE Matching'
  OBVIOUS
<1> DEFINE a == presented
           b == reference
<1>1. /\ pc = "expand" /\ p = 2 /\ r \in Nat \ {0}
      /\ a[1] = "*" /\ NoDotUpTo(b, r)
      /\ Fits(a, b, role) <=> WildFits(a, b, role)
      /\ a \in Seq(Alphabet) /\ b \in Seq(Alphabet)
      /\ ValidPair(a, b, role)
  BY DEF Expand, Matching, MatchState
<1>2. /\ r > Len(b) => ~WildFits(a, b, role)
      /\ peek(b, r + 1, ".") => (WildFits(a, b, role) <=> TailFits(a, b, role, 2, r + 1))
      /\ ~peek(b, r + 1, ".") => NoDotUpTo(b, r + 1)
  BY <1>1, WildcardDecides
<1>3. Len(a) \in Nat /\ 2 \in 1..Len(a) /\ r + 1 \in Nat \ {0}
  <2>1. PresentedFacts(a)
    BY <1>1, PresentedShape DEF ValidPair
  <2> QED
    BY <1>1, <2>1 DEF PresentedFacts
<1>4. CASE r > Len(b)
  <2>1. Return(Ok(FALSE))
    BY <1>4 DEF Expand
  <2>2. Answered(a, b, role, Ok(FALSE))
    BY <1>1, <1>2, <1>4, Verdict
  <2> QED
    BY <1>1, <2>1, <2>2, Returns
<1>5. CASE ~(r > Len(b)) /\ peek(b, r + 1, ".")
  <2>1. Continue("compare", p, r + 1)
    BY <1>5 DEF Expand
  <2>2. MatchState(a, b, role, "compare", p, r + 1, matches)
    BY <1>1, <1>2, <1>3, <1>5 DEF Matching, MatchState
  <2> QED
    BY <2>1, <2>2, Continues
<1>6. CASE ~(r > Len(b)) /\ ~peek(b, r + 1, ".")
  <2>1. Continue("expand", p, r + 1)
    BY <1>6 DEF Expand
  <2>2. MatchState(a, b, role, "expand", p, r + 1, matches)
    BY <1>1, <1>2, <1>3, <1>6 DEF Matching, MatchState
  <2> QED
    BY <2>1, <2>2, Continues
<1> QED
  BY <1>4, <1>5, <1>6

\* A character of each is compared.
LEMMA CompareMatches == Matching /\ Compare => Matching'
<1> SUFFICES ASSUME Matching, Compare PROVE Matching'
  OBVIOUS
<1> DEFINE a == presented
           b == reference
           same == ascii_lower(a[p]) = ascii_lower(b[r])
<1>1. /\ pc = "compare" /\ p \in 1..Len(a) /\ r \in Nat \ {0}
      /\ Fits(a, b, role) <=> TailFits(a, b, role, p, r)
      /\ a \in Seq(Alphabet) /\ b \in Seq(Alphabet)
      /\ ValidPair(a, b, role)
  BY DEF Compare, Matching, MatchState
<1>2. /\ r > Len(b) => ~TailFits(a, b, role, p, r)
      /\ ~same => ~TailFits(a, b, role, p, r)
      /\ r <= Len(b) /\ same =>
             (TailFits(a, b, role, p, r) <=> TailFits(a, b, role, p + 1, r + 1))
  BY <1>1, CharacterDecides
<1>3. Len(a) \in Nat /\ Len(b) \in Nat /\ ~(p > Len(a)) /\ a[Len(a)] # "."
  <2>1. PresentedFacts(a)
    BY <1>1, PresentedShape DEF ValidPair
  <2> QED
    BY <1>1, <2>1 DEF PresentedFacts
<1>4. CASE r > Len(b) \/ ~same
  <2>1. Return(Ok(FALSE))
    BY <1>4 DEF Compare
  <2>2. Answered(a, b, role, Ok(FALSE))
    BY <1>1, <1>2, <1>4, Verdict
  <2> QED
    BY <1>1, <2>1, <2>2, Returns
<1>5. CASE ~(r > Len(b) \/ ~same)
  <2>1. r <= Len(b) /\ same
    BY <1>1, <1>3, <1>5
  <2>2. Fits(a, b, role) <=> TailFits(a, b, role, p + 1, r + 1)
    BY <1>1, <1>2, <2>1
  <2>3. CASE p < Len(a)
    <3>1. Continue("compare", p + 1, r + 1)
      BY <1>3, <1>5, <2>3 DEF Compare
    <3>2. p + 1 \in 1..Len(a) /\ r + 1 \in Nat \ {0}
      BY <1>1, <1>3, <2>3
    <3>3. MatchState(a, b, role, "compare", p + 1, r + 1, matches)
      BY <1>1, <2>2, <3>2 DEF Matching, MatchState
    <3> QED
      BY <3>1, <3>3, Continues
  <2>4. CASE ~(p < Len(a))
    <3>1. p = Len(a)
      BY <1>1, <1>3, <2>4
    <3>2. Continue("end", p + 1, r + 1)
      BY <1>3, <1>5, <2>4, <3>1 DEF Compare
    <3>3. p + 1 = Len(a) + 1 /\ r + 1 \in 1..(Len(b) + 1)
      BY <1>1, <1>3, <2>1, <3>1
    <3>4. MatchState(a, b, role, "end", p + 1, r + 1, matches)
      BY <1>1, <2>2, <3>3 DEF Matching, MatchState
    <3> QED
      BY <3>2, <3>4, Continues
  <2> QED
    BY <2>3, <2>4
<1> QED
  BY <1>4, <1>5

\* The presented name is at its end.
LEMMA EndMatches == Matching /\ End => Matching'
<1> SUFFICES ASSUME Matching, End PROVE Matching'
  OBVIOUS
<1> DEFINE a == presented
           b == reference
           rest == IF role = "Reference" /\ peek(b, r, ".") THEN r + 1 ELSE r
<1>1. /\ pc = "end" /\ p = Len(a) + 1 /\ r \in 1..(Len(b) + 1)
      /\ Fits(a, b, role) <=> TailFits(a, b, role, p, r)
      /\ a \in Seq(Alphabet) /\ b \in Seq(Alphabet)
      /\ ValidPair(a, b, role)
  BY DEF End, Matching, MatchState
<1>2. TailFits(a, b, role, p, r) <=> ~(rest <= Len(b))
  BY <1>1, EndDecides
<1>3. CASE rest <= Len(b)
  <2>1. Return(Ok(FALSE))
    BY <1>3 DEF End
  <2>2. Answered(a, b, role, Ok(FALSE))
    BY <1>1, <1>2, <1>3, Verdict
  <2> QED
    BY <1>1, <2>1, <2>2, Returns
<1>4. CASE ~(rest <= Len(b))
  <2>1. Return(Ok(TRUE))
    BY <1>1, <1>4 DEF End
  <2>2. Answered(a, b, role, Ok(TRUE))
    BY <1>1, <1>2, <1>4, Verdict
  <2> QED
    BY <1>1, <2>1, <2>2, Returns
<1> QED
  BY <1>3, <1>4

-----------------------------------------------------------------------------
(* The calls.                                                              *)

\* A text is read as a DNS name only if it is one.
Reading == TextIsText /\ (Is("DnsName") => is_dns_name(text))

\* It stays so.
LEMMA ReadingNext == Reading /\ [Next]_vars => Reading'
<1> SUFFICES ASSUME Reading, [Next]_vars PROVE Reading'
  OBVIOUS
<1>1. CASE ReadNext
  <2>1. text' = text
    BY <1>1 DEF ReadNext, Dot, Number, Ipv4, NotIpv4, Colon, Hex, Ipv6, NotIpv6
  <2>2. CASE parser' # "Done"
    BY <2>1, <2>2 DEF Reading, TextIsText, Is
  <2>3. CASE parser' = "Done"
    <3>1. \/ \E os : result' = Ok([type |-> "V4", octets |-> os])
          \/ \E os : result' = Ok([type |-> "V6", octets |-> os])
          \/ result' = Ok([type |-> "DnsName"]) /\ is_dns_name(text)
          \/ result' = Err("InvalidSubjectNameError")
      <4>1. CASE Ipv4
        BY <4>1 DEF Ipv4, Finish
      <4>2. CASE Ipv6
        BY <4>2 DEF Ipv6, Finish
      <4>3. CASE NotIpv6
        BY <4>3 DEF NotIpv6, Finish
      <4>4. CASE Dot \/ Number \/ NotIpv4 \/ Colon \/ Hex
        BY <2>3, <4>4 DEF Dot, Number, NotIpv4, Colon, Hex, Start
      <4> QED
        BY <1>1, <4>1, <4>2, <4>3, <4>4 DEF ReadNext
    <3>2. Is("DnsName")' => is_dns_name(text)
      BY <3>1 DEF Is, Ok, Err
    <3> QED
      BY <2>1, <3>2 DEF Reading, TextIsText
  <2> QED
    BY <2>2, <2>3
<1>2. CASE UNCHANGED text_vars
  BY <1>2 DEF text_vars, Reading, TextIsText, Is
<1> QED
  BY <1>1, <1>2 DEF Next, vars

\* A call begins with the names that were read.
LEMMA CallMatches ==
    Reading /\ Matching /\ (MatchReference \/ MatchConstraint) => Matching'
<1> SUFFICES ASSUME Reading, Matching, MatchReference \/ MatchConstraint PROVE Matching'
  OBVIOUS
<1>1. PICK n \in PresentedNames, id_role \in {"Reference", "NameConstraint"} :
          Match(n, text, id_role) /\ (id_role = "Reference" => is_dns_name(text))
  BY DEF MatchReference, MatchConstraint, Reading
<1>2. n \in Seq(Alphabet) /\ text \in Seq(Alphabet)
  BY ShapeAssumption DEF Reading, TextIsText
<1>3. pc = "idle" /\ p = 1 /\ r = 1
  BY <1>1 DEF Match, Matching, MatchState
<1>4. MatchState(n, text, id_role, "validate", p, r, matches)
  BY <1>1, <1>2, <1>3 DEF MatchState
<1>5. /\ presented' = n /\ reference' = text /\ role' = id_role
      /\ pc' = "validate" /\ p' = p /\ r' = r /\ matches' = matches
  BY <1>1 DEF Match
<1> QED
  BY <1>4, <1>5 DEF Matching

\* The invariant holds at the start and at every step.
LEMMA MatchingInit == Init => Reading /\ Matching
<1> SUFFICES ASSUME Init PROVE Reading /\ Matching
  OBVIOUS
<1>1. text \in Seq(Alphabet) /\ parser # "Done"
  BY ShapeAssumption DEF Init
<1>2. << >> \in Seq(Alphabet)
  OBVIOUS
<1> QED
  BY <1>1, <1>2 DEF Init, Idle, Reading, TextIsText, Is, Matching, MatchState

\* Every step keeps it.
LEMMA MatchingNext == Reading /\ Matching /\ [Next]_vars => Matching'
<1> SUFFICES ASSUME Reading, Matching, [Next]_vars PROVE Matching'
  OBVIOUS
<1>1. CASE UNCHANGED match_vars
  BY <1>1 DEF match_vars, Matching
<1>2. CASE MatchReference \/ MatchConstraint
  BY <1>2, CallMatches
<1>3. CASE MatchNext
  BY <1>3, ValidateMatches, SkipMatches, WildcardMatches, ExpandMatches, CompareMatches,
     EndMatches DEF MatchNext
<1> QED
  BY <1>1, <1>2, <1>3 DEF Next, vars

-----------------------------------------------------------------------------
(* Labels and characters.                                                  *)

\* The labels after every character.
LEMMA LabelsAfter ==
    ASSUME NEW x \in Seq(Alphabet), NEW g, LabelsUpTo(x, g)
    PROVE  /\ \A k \in 0..Len(x) : g[k] \in LabelLists /\ Len(g[k]) \in Nat \ {0}
           /\ g[0] = NoLabel /\ g[Len(x)] = Labels(x) /\ Len(x) \in Nat
           /\ \A k \in 1..Len(x) :
                  /\ x[k] \in Alphabet /\ g[k] = LabelStep(g[k - 1], x[k])
                  /\ g[k - 1] \in LabelLists /\ Len(g[k - 1]) \in Nat \ {0}
<1>1. \A k \in 0..Len(x) : FirstLabelFits(x, k, g[k])
  BY FirstLabel
<1>2. \A k \in 0..Len(x) : g[k] \in LabelLists /\ Len(g[k]) > 0
  BY <1>1 DEF FirstLabelFits
<1>3. \A ls \in LabelLists : Len(ls) \in Nat
  BY DEF LabelLists
<1>4. \A k \in 0..Len(x) : g[k] \in LabelLists /\ Len(g[k]) \in Nat \ {0}
  BY <1>2, <1>3
<1>5. Len(x) \in Nat /\ \A k \in 1..Len(x) : k - 1 \in 0..Len(x) /\ x[k] \in Alphabet
  OBVIOUS
<1> QED
  BY <1>4, <1>5 DEF LabelsUpTo

\* Names that begin alike have the same labels so far.
LEMMA PrefixLabels ==
    ASSUME NEW x \in Seq(Alphabet), NEW y \in Seq(Alphabet), NEW g, NEW h,
           LabelsUpTo(x, g), LabelsUpTo(y, h),
           Len(y) <= Len(x), \A i \in 1..Len(y) : y[i] = x[i]
    PROVE  g[Len(y)] = Labels(y)
<1> DEFINE n == Len(y)
           G == {k \in Nat : g[k] = h[k]}
<1>1. n \in Nat /\ g[0] = NoLabel /\ h[0] = NoLabel /\ h[n] = Labels(y)
  BY DEF LabelsUpTo
<1>2. 0 \in G
  BY <1>1
<1>3. ASSUME NEW k \in (0 + 1)..n, k - 1 \in G PROVE k \in G
  <2>1. k \in 1..Len(y) /\ k \in 1..Len(x) /\ k \in Nat
    BY <1>1
  <2>2. g[k] = LabelStep(g[k - 1], x[k]) /\ h[k] = LabelStep(h[k - 1], y[k]) /\ y[k] = x[k]
    BY <2>1 DEF LabelsUpTo
  <2> QED
    BY <1>3, <2>1, <2>2
<1> HIDE DEF n, G
<1>4. \A k \in 0..n : k \in G
  BY <1>1, <1>2, <1>3, IndexInduction
<1>5. n \in 0..n
  BY <1>1
<1> QED
  BY <1>1, <1>4, <1>5 DEF G, n

\* The labels of the part y of x after the dot d.
After(x, d, y) ==
    /\ d \in 1..Len(x) /\ x[d] = "."
    /\ Len(y) = Len(x) - d /\ \A i \in 1..Len(y) : y[i] = x[d + i]

\* The list ls is us with ms behind it.
Extends(ls, us, ms) ==
    /\ Len(ls) = Len(us) + Len(ms)
    /\ \A i \in 1..Len(us) : ls[i] = us[i]
    /\ \A i \in 1..Len(ms) : ls[Len(us) + i] = ms[i]

\* What is after a dot has labels of its own.
LEMMA SuffixLabels ==
    ASSUME NEW x \in Seq(Alphabet), NEW y \in Seq(Alphabet), NEW g, NEW h,
           LabelsUpTo(x, g), LabelsUpTo(y, h), NEW d, After(x, d, y)
    PROVE  Extends(Labels(x), g[d - 1], Labels(y))
<1> DEFINE n == Len(y)
           us == g[d - 1]
           c == Len(us)
           G == {k \in Nat : Extends(g[d + k], us, h[k])}
<1>1. /\ n \in Nat /\ d \in 1..Len(x) /\ x[d] = "." /\ d + n = Len(x) /\ d \in Nat
      /\ \A i \in 1..n : y[i] = x[d + i]
  BY DEF After
<1>2. us \in LabelLists /\ c \in Nat \ {0} /\ g[d] = LabelStep(us, x[d]) /\ g[d + n] = Labels(x)
  BY <1>1, LabelsAfter
<1>3. h[0] = NoLabel /\ h[n] = Labels(y)
  BY LabelsAfter
<1>4. 0 \in G
  <2> DEFINE t == g[d]
  <2>1. Len(t) = c + 1 /\ t[c + 1] = << >> /\ \A j \in 1..c : t[j] = us[j]
    BY <1>1, <1>2, LabelStepFacts
  <2>2. Len(NoLabel) = 1 /\ NoLabel[1] = << >>
    BY DEF NoLabel
  <2>3. d + 0 = d /\ 1..1 = {1}
    BY <1>1
  <2> HIDE DEF c, t, us
  <2>4. Extends(t, us, NoLabel)
    BY <2>1, <2>2, <2>3 DEF Extends, c
  <2> QED
    BY <1>3, <2>3, <2>4 DEF t
<1>5. ASSUME NEW k \in (0 + 1)..n, k - 1 \in G PROVE k \in G
  <2> DEFINE ls == g[d + (k - 1)]
             ms == h[k - 1]
             ch == y[k]
             s == LabelStep(ls, ch)
             t == LabelStep(ms, ch)
             a == Len(ls)
             b == Len(ms)
  <2>1. k \in 1..n /\ k \in Nat /\ d + k \in 1..Len(x) /\ (d + k) - 1 = d + (k - 1)
    BY <1>1
  <2>2. /\ g[d + k] = s /\ h[k] = t /\ ch \in Alphabet
        /\ ls \in LabelLists /\ a \in Nat \ {0} /\ ms \in LabelLists /\ b \in Nat \ {0}
    <3>1. /\ g[d + k] = LabelStep(g[(d + k) - 1], x[d + k])
          /\ g[(d + k) - 1] \in LabelLists /\ Len(g[(d + k) - 1]) \in Nat \ {0}
      BY <2>1, LabelsAfter
    <3>2. /\ h[k] = LabelStep(h[k - 1], y[k]) /\ y[k] \in Alphabet
          /\ h[k - 1] \in LabelLists /\ Len(h[k - 1]) \in Nat \ {0}
      BY <2>1, LabelsAfter
    <3>3. y[k] = x[d + k]
      BY <1>1, <2>1
    <3> QED
      BY <2>1, <3>1, <3>2, <3>3
  <2>3. Extends(ls, us, ms)
    BY <1>5
  <2>4. a = c + b /\ (\A i \in 1..c : ls[i] = us[i]) /\ (\A i \in 1..b : ls[c + i] = ms[i])
    BY <2>3 DEF Extends
  <2>5. /\ ch = "." => /\ Len(s) = a + 1 /\ s[a + 1] = << >>
                       /\ \A j \in 1..a : s[j] = ls[j]
        /\ ch # "." => /\ Len(s) = a /\ s[a] = Append(ls[a], ch)
                       /\ \A j \in 1..(a - 1) : s[j] = ls[j]
    <3>1. ls \in LabelLists /\ Len(ls) > 0 /\ ch \in Alphabet
      BY <2>2
    <3> HIDE DEF ls, ms, ch, us, n, G
    <3> QED
      BY <3>1, LabelStepFacts
  <2>6. /\ ch = "." => /\ Len(t) = b + 1 /\ t[b + 1] = << >>
                       /\ \A j \in 1..b : t[j] = ms[j]
        /\ ch # "." => /\ Len(t) = b /\ t[b] = Append(ms[b], ch)
                       /\ \A j \in 1..(b - 1) : t[j] = ms[j]
    <3>1. ms \in LabelLists /\ Len(ms) > 0 /\ ch \in Alphabet
      BY <2>2
    <3> HIDE DEF ls, ms, ch, us, n, G
    <3> QED
      BY <3>1, LabelStepFacts
  <2> HIDE DEF a, b, c, s, t, ls, ms, us, ch, n
  <2>7. CASE ch = "."
    <3>1. Len(s) = c + Len(t)
      <4>1. Len(s) = a + 1 /\ Len(t) = b + 1 /\ a = c + b
        BY <2>4, <2>5, <2>6, <2>7
      <4>2. c \in Nat /\ b \in Nat
        BY <1>2, <2>2
      <4> QED
        BY <4>1, <4>2
    <3>2. ASSUME NEW i \in 1..c PROVE s[i] = us[i]
      <4>1. i \in 1..a
        BY <1>2, <2>2, <2>4
      <4> QED
        BY <2>4, <2>5, <2>7, <4>1
    <3>3. ASSUME NEW i \in 1..Len(t) PROVE s[c + i] = t[i]
      <4>1. i \in 1..(b + 1)
        BY <2>6, <2>7
      <4>2. CASE i = b + 1
        <5>1. c + i = a + 1
          BY <1>2, <2>2, <2>4, <4>2
        <5> QED
          BY <2>5, <2>6, <2>7, <4>2, <5>1
      <4>3. CASE i # b + 1
        <5>1. i \in 1..b /\ c + i \in 1..a
          BY <1>2, <2>2, <2>4, <4>1, <4>3
        <5> QED
          BY <2>4, <2>5, <2>6, <2>7, <5>1
      <4> QED
        BY <4>2, <4>3
    <3>4. Extends(s, us, t)
      BY <3>1, <3>2, <3>3 DEF Extends, c
    <3> QED
      BY <2>1, <2>2, <3>4
  <2>8. CASE ch # "."
    <3>1. Len(s) = c + Len(t)
      BY <2>4, <2>5, <2>6, <2>8
    <3>2. ASSUME NEW i \in 1..c PROVE s[i] = us[i]
      <4>1. i \in 1..(a - 1)
        BY <1>2, <2>2, <2>4
      <4> QED
        BY <2>4, <2>5, <2>8, <4>1
    <3>3. ASSUME NEW i \in 1..Len(t) PROVE s[c + i] = t[i]
      <4>1. i \in 1..b
        BY <2>6, <2>8
      <4>2. CASE i = b
        <5>1. c + i = a
          BY <2>4, <4>2
        <5> QED
          BY <2>4, <2>5, <2>6, <2>8, <4>1, <4>2, <5>1
      <4>3. CASE i # b
        <5>1. i \in 1..(b - 1) /\ c + i \in 1..(a - 1)
          BY <1>2, <2>2, <2>4, <4>1, <4>3
        <5> QED
          BY <2>4, <2>5, <2>6, <2>8, <4>1, <5>1
      <4> QED
        BY <4>2, <4>3
    <3>4. Extends(s, us, t)
      BY <3>1, <3>2, <3>3 DEF Extends, c
    <3> QED
      BY <2>1, <2>2, <3>4
  <2> QED
    BY <2>7, <2>8
<1> HIDE DEF n, G
<1>6. \A k \in 0..n : k \in G
  BY <1>1, <1>4, <1>5, IndexInduction
<1>7. n \in 0..n
  BY <1>1
<1>8. Extends(g[d + n], us, h[n])
  BY <1>6, <1>7 DEF G
<1> QED
  BY <1>2, <1>3, <1>8

\* The last character can be told from the labels, and the labels without it.
LEMMA StepInverts ==
    ASSUME NEW ls \in LabelLists, Len(ls) \in Nat \ {0}, NEW c \in Alphabet,
           NEW ms \in LabelLists, Len(ms) \in Nat \ {0}, NEW d \in Alphabet,
           LabelStep(ls, c) = LabelStep(ms, d)
    PROVE  c = d /\ ls = ms
<1> DEFINE t == LabelStep(ls, c)
           a == Len(ls)
           b == Len(ms)
<1>1. /\ c = "." => /\ Len(t) = a + 1 /\ t[a + 1] = << >>
                    /\ \A j \in 1..a : t[j] = ls[j]
      /\ c # "." => /\ Len(t) = a /\ t[a] = Append(ls[a], c)
                    /\ \A j \in 1..(a - 1) : t[j] = ls[j]
  <2>1. Len(ls) > 0
    OBVIOUS
  <2> QED
    BY <2>1, LabelStepFacts
<1>2. /\ d = "." => /\ Len(t) = b + 1 /\ t[b + 1] = << >>
                    /\ \A j \in 1..b : t[j] = ms[j]
      /\ d # "." => /\ Len(t) = b /\ t[b] = Append(ms[b], d)
                    /\ \A j \in 1..(b - 1) : t[j] = ms[j]
  <2> DEFINE u == LabelStep(ms, d)
  <2>1. Len(ms) > 0 /\ t = u
    OBVIOUS
  <2>2. /\ d = "." => /\ Len(u) = b + 1 /\ u[b + 1] = << >>
                      /\ \A j \in 1..b : u[j] = ms[j]
        /\ d # "." => /\ Len(u) = b /\ u[b] = Append(ms[b], d)
                      /\ \A j \in 1..(b - 1) : u[j] = ms[j]
    BY <2>1, LabelStepFacts
  <2> HIDE DEF t, u, b
  <2> QED
    BY <2>1, <2>2
<1>3. /\ a \in Nat \ {0} /\ b \in Nat \ {0}
      /\ ls \in Seq(Seq(Alphabet)) /\ ms \in Seq(Seq(Alphabet))
  BY DEF LabelLists
<1>4. ls[a] \in Seq(Alphabet) /\ ms[b] \in Seq(Alphabet)
  <2>1. a \in 1..Len(ls) /\ b \in 1..Len(ms)
    OBVIOUS
  <2> QED
    BY <1>3, <2>1, ElementOfSeq
<1>5. Append(ls[a], c) # << >> /\ Append(ms[b], d) # << >>
  BY <1>4, AppendRange
<1>6. \A s, u \in Seq(Seq(Alphabet)) : Len(s) = Len(u) /\ (\A i \in 1..Len(s) : s[i] = u[i]) => s = u
  BY SeqEqual
<1> HIDE DEF t, a, b
<1>7. c = "." <=> d = "."
  BY <1>1, <1>2, <1>3, <1>5
<1>8. CASE c = "."
  <2>1. d = "." /\ a = b
    BY <1>1, <1>2, <1>3, <1>7, <1>8
  <2>2. \A i \in 1..a : ls[i] = ms[i]
    BY <1>1, <1>2, <1>8, <2>1
  <2> QED
    BY <1>3, <1>6, <1>8, <2>1, <2>2 DEF a, b
<1>9. CASE c # "."
  <2>1. d # "." /\ a = b
    BY <1>1, <1>2, <1>3, <1>7, <1>9
  <2> DEFINE l == ls[a]
             m == ms[a]
  <2>2. Append(l, c) = Append(m, d) /\ l \in Seq(Alphabet) /\ m \in Seq(Alphabet)
    BY <1>1, <1>2, <1>4, <1>9, <2>1
  <2>3. /\ Len(Append(l, c)) = Len(l) + 1 /\ Append(l, c)[Len(l) + 1] = c
        /\ \A i \in 1..Len(l) : Append(l, c)[i] = l[i]
    BY <2>2, AppendRange
  <2>4. /\ Len(Append(m, d)) = Len(m) + 1 /\ Append(m, d)[Len(m) + 1] = d
        /\ \A i \in 1..Len(m) : Append(m, d)[i] = m[i]
    BY <2>2, AppendRange
  <2>5. Len(l) \in Nat /\ Len(m) \in Nat
    BY <2>2
  <2> HIDE DEF l, m
  <2>6. Len(l) = Len(m)
    BY <2>2, <2>3, <2>4, <2>5
  <2>7. c = d /\ \A i \in 1..Len(l) : l[i] = m[i]
    BY <2>2, <2>3, <2>4, <2>6
  <2>8. l = m
    BY <2>2, <2>6, <2>7, SeqEqual
  <2>9. \A i \in 1..a : i \in 1..(a - 1) \/ i = a
    BY <1>3
  <2>10. \A i \in 1..a : ls[i] = ms[i]
    BY <1>1, <1>2, <1>9, <2>1, <2>8, <2>9 DEF l, m
  <2> QED
    BY <1>3, <1>6, <2>1, <2>7, <2>10 DEF a, b
<1> QED
  BY <1>8, <1>9

\* A character changes the labels.
LEMMA StepIsMore ==
    ASSUME NEW ls \in LabelLists, Len(ls) \in Nat \ {0}, NEW c \in Alphabet
    PROVE  LabelStep(ls, c) # NoLabel
<1> DEFINE t == LabelStep(ls, c)
           a == Len(ls)
<1>1. /\ c = "." => Len(t) = a + 1
      /\ c # "." => /\ Len(t) = a /\ t[a] = Append(ls[a], c)
  <2>1. Len(ls) > 0
    OBVIOUS
  <2> QED
    BY <2>1, LabelStepFacts
<1>2. Len(NoLabel) = 1 /\ NoLabel[1] = << >>
  BY DEF NoLabel
<1>3. a \in Nat \ {0} /\ ls[a] \in Seq(Alphabet)
  <2>1. ls \in Seq(Seq(Alphabet)) /\ a \in 1..Len(ls)
    BY DEF LabelLists
  <2> QED
    BY <2>1, ElementOfSeq
<1>4. Append(ls[a], c) # << >>
  BY <1>3, AppendRange
<1> HIDE DEF t, a
<1>5. t # NoLabel
  <2> SUFFICES ASSUME t = NoLabel PROVE FALSE
    OBVIOUS
  <2>1. Len(t) = 1 /\ t[1] = << >>
    BY <1>2
  <2>2. c # "." /\ a = 1
    BY <1>1, <1>3, <2>1
  <2> QED
    BY <1>1, <1>4, <2>1, <2>2
<1> QED
  BY <1>5 DEF t

\* The characters from the last to the first.
LEMMA SameFromEnd ==
    ASSUME NEW x \in Seq(Alphabet), NEW y \in Seq(Alphabet), Labels(x) = Labels(y)
    PROVE  Len(x) <= Len(y) /\ \A j \in 1..Len(x) : x[Len(x) - j + 1] = y[Len(y) - j + 1]
<1> DEFINE n == Len(x)
           m == Len(y)
<1>1. n \in Nat /\ m \in Nat /\ DOMAIN x = 1..n /\ DOMAIN y = 1..m
  BY LenProperties
<1>2. PICK g : LabelsUpTo(x, g)
  BY <1>1, LabelsByStep
<1>3. PICK h : LabelsUpTo(y, h)
  BY <1>1, LabelsByStep
<1> DEFINE G == {i \in Nat : /\ i <= m /\ g[n - i] = h[m - i]
                             /\ \A j \in 1..i : x[n - j + 1] = y[m - j + 1]}
<1>4. 0 \in G
  <2>1. g[n] = h[m] /\ n - 0 = n /\ m - 0 = m
    BY <1>1, <1>2, <1>3 DEF LabelsUpTo
  <2> QED
    BY <1>1, <2>1
<1>5. ASSUME NEW i \in (0 + 1)..n, i - 1 \in G PROVE i \in G
  <2> DEFINE k == n - i + 1
             l == m - i + 1
  <2>1. /\ i \in Nat \ {0} /\ i <= n /\ i - 1 <= m /\ n - (i - 1) = k /\ m - (i - 1) = l
        /\ g[n - (i - 1)] = h[m - (i - 1)]
        /\ \A j \in 1..(i - 1) : x[n - j + 1] = y[m - j + 1]
    BY <1>1, <1>5
  <2>2. k \in 1..n /\ k - 1 = n - i /\ l \in 0..m /\ l - 1 = m - i
    BY <1>1, <2>1
  <2>3. g[k] = h[l]
    BY <2>1
  <2>4. /\ x[k] \in Alphabet /\ g[k] = LabelStep(g[k - 1], x[k])
        /\ g[k - 1] \in LabelLists /\ Len(g[k - 1]) \in Nat \ {0}
    BY <1>2, <2>2, LabelsAfter
  <2>5. h[0] = NoLabel
    BY <1>3 DEF LabelsUpTo
  <2> HIDE DEF k, l, n, m
  <2>6. l # 0
    BY <2>3, <2>4, <2>5, StepIsMore
  <2>7. l \in 1..m /\ i <= m
    BY <1>1, <2>1, <2>2, <2>6
  <2>8. /\ y[l] \in Alphabet /\ h[l] = LabelStep(h[l - 1], y[l])
        /\ h[l - 1] \in LabelLists /\ Len(h[l - 1]) \in Nat \ {0}
    BY <1>3, <2>7, LabelsAfter DEF m
  <2>9. x[k] = y[l] /\ g[k - 1] = h[l - 1]
    <3>1. LabelStep(g[k - 1], x[k]) = LabelStep(h[l - 1], y[l])
      BY <2>3, <2>4, <2>8
    <3> QED
      BY <2>4, <2>8, <3>1, StepInverts
  <2>10. \A j \in 1..i : j \in 1..(i - 1) \/ j = i
    BY <2>1
  <2>11. \A j \in 1..i : x[n - j + 1] = y[m - j + 1]
    BY <2>1, <2>9, <2>10 DEF k, l
  <2>12. g[n - i] = h[m - i]
    BY <2>2, <2>9
  <2> QED
    BY <2>1, <2>7, <2>11, <2>12
<1> HIDE DEF n, m, G
<1>6. \A i \in 0..n : i \in G
  BY <1>1, <1>4, <1>5, IndexInduction
<1>7. n \in 0..n
  BY <1>1
<1>8. n \in G
  BY <1>6, <1>7
<1> QED
  BY <1>8 DEF G, n, m

\* A name is given by its labels.
LEMMA LabelsAreTheName ==
    ASSUME NEW x \in Seq(Alphabet), NEW y \in Seq(Alphabet), Labels(x) = Labels(y)
    PROVE  x = y
<1> DEFINE n == Len(x)
           m == Len(y)
<1>1. n \in Nat /\ m \in Nat
  OBVIOUS
<1>2. n <= m /\ \A j \in 1..n : x[n - j + 1] = y[m - j + 1]
  BY SameFromEnd
<1>3. m <= n
  BY SameFromEnd
<1> HIDE DEF n, m
<1>4. n = m
  BY <1>1, <1>2, <1>3
<1>5. ASSUME NEW i \in 1..n PROVE x[i] = y[i]
  <2> DEFINE j == n - i + 1
  <2>1. j \in 1..n /\ n - j + 1 = i
    BY <1>1
  <2> HIDE DEF j
  <2> QED
    BY <1>2, <1>4, <2>1
<1> QED
  BY <1>4, <1>5, SeqEqual DEF n, m

\* Where a label ends there is a dot.
LEMMA CutAt ==
    ASSUME NEW x \in Seq(Alphabet), NEW g, LabelsUpTo(x, g), NEW c \in 1..(Len(Labels(x)) - 1)
    PROVE  \E d \in 1..Len(x) : x[d] = "." /\ Len(g[d - 1]) = c
<1> DEFINE n == Len(x)
           S == {k \in 0..n : Len(g[k]) > c}
<1>1. /\ n \in Nat /\ g[0] = NoLabel /\ g[n] = Labels(x)
      /\ \A k \in 0..n : Len(g[k]) \in Nat \ {0}
      /\ \A k \in 1..n : /\ x[k] \in Alphabet /\ g[k] = LabelStep(g[k - 1], x[k])
                         /\ g[k - 1] \in LabelLists /\ Len(g[k - 1]) \in Nat \ {0}
  BY LabelsAfter
<1>2. n \in S
  <2>1. n \in 0..n /\ Len(g[n]) \in Nat
    BY <1>1
  <2>2. Len(Labels(x)) \in Nat
    BY <1>1, <2>1
  <2> QED
    BY <1>1, <2>1, <2>2
<1>3. S \in SUBSET Nat /\ S # {}
  BY <1>2
<1>4. PICK d \in S : \A k \in S : d <= k
  <2> HIDE DEF S
  <2> QED
    BY <1>3, LeastIndex
<1>5. d \in 0..n /\ Len(g[d]) > c /\ Len(NoLabel) = 1
  BY <1>4 DEF NoLabel
<1>6. d # 0
  <2>1. c \in Nat /\ c >= 1
    <3>1. Len(Labels(x)) \in Nat
      BY <1>1
    <3> QED
      BY <3>1
  <2>2. Len(g[0]) = 1
    BY <1>1, <1>5
  <2> DEFINE m == Len(g[d])
  <2>3. m > c
    BY <1>5
  <2>4. d = 0 => m = 1
    BY <2>2
  <2> HIDE DEF m
  <2> QED
    BY <2>1, <2>3, <2>4
<1>7. d \in 1..n /\ d - 1 \in 0..n
  BY <1>5, <1>6
<1>8. Len(g[d - 1]) \in Nat \ {0} /\ ~(Len(g[d - 1]) > c)
  <2>1. d - 1 \notin S
    BY <1>4, <1>7
  <2> QED
    BY <1>1, <1>7, <2>1
<1>9. /\ x[d] = "." => Len(g[d]) = Len(g[d - 1]) + 1
      /\ x[d] # "." => Len(g[d]) = Len(g[d - 1])
  <2>1. /\ x[d] \in Alphabet /\ g[d] = LabelStep(g[d - 1], x[d])
        /\ g[d - 1] \in LabelLists /\ Len(g[d - 1]) > 0
    BY <1>1, <1>7
  <2> QED
    BY <2>1, LabelStepFacts
<1>10. x[d] = "." /\ Len(g[d - 1]) = c
  <2> HIDE DEF n, S
  <2>1. c \in Nat /\ Len(g[d]) \in Nat
    BY <1>1, <1>5
  <2> QED
    BY <1>5, <1>8, <1>9, <2>1
<1> QED
  BY <1>7, <1>10

\* One label up to k is no dot up to k.
LEMMA OneLabel ==
    ASSUME NEW x \in Seq(Alphabet), NEW g, LabelsUpTo(x, g), NEW n \in 0..Len(x)
    PROVE  Len(g[n]) = 1 <=> \A i \in 1..n : x[i] # "."
<1> DEFINE G == {k \in Nat : Len(g[k]) = 1 <=> \A i \in 1..k : x[i] # "."}
<1>1. Len(x) \in Nat /\ n \in Nat /\ g[0] = NoLabel
  BY DEF LabelsUpTo
<1>2. 0 \in G
  <2>1. Len(g[0]) = 1
    BY <1>1 DEF NoLabel
  <2> QED
    BY <2>1
<1>3. ASSUME NEW k \in (0 + 1)..n, k - 1 \in G PROVE k \in G
  <2>1. k \in 1..Len(x) /\ k \in Nat /\ \A i \in 1..k : i \in 1..(k - 1) \/ i = k
    BY <1>1
  <2>2. /\ x[k] \in Alphabet /\ g[k] = LabelStep(g[k - 1], x[k])
        /\ g[k - 1] \in LabelLists /\ Len(g[k - 1]) \in Nat \ {0}
    BY <2>1, LabelsAfter
  <2>3. /\ x[k] = "." => Len(g[k]) = Len(g[k - 1]) + 1
        /\ x[k] # "." => Len(g[k]) = Len(g[k - 1])
    <3>1. Len(g[k - 1]) > 0
      BY <2>2
    <3> QED
      BY <2>2, <3>1, LabelStepFacts
  <2>4. Len(g[k - 1]) = 1 <=> \A i \in 1..(k - 1) : x[i] # "."
    BY <1>3
  <2>5. k \in 1..k /\ \A i \in 1..(k - 1) : i \in 1..k
    BY <2>1
  <2>6. CASE x[k] = "."
    <3> DEFINE m == Len(g[k - 1])
    <3>1. Len(g[k]) # 1
      <4>1. Len(g[k]) = m + 1 /\ m \in Nat \ {0}
        BY <2>2, <2>3, <2>6
      <4> HIDE DEF m
      <4> QED
        BY <4>1
    <3> QED
      BY <2>1, <2>5, <2>6, <3>1
  <2>7. CASE x[k] # "."
    BY <2>1, <2>3, <2>4, <2>5, <2>7
  <2> QED
    BY <2>6, <2>7
<1> HIDE DEF G
<1>4. \A k \in 0..n : k \in G
  BY <1>1, <1>2, <1>3, IndexInduction
<1>5. n \in 0..n
  BY <1>1
<1>6. n \in G
  BY <1>4, <1>5
<1> QED
  BY <1>6 DEF G

-----------------------------------------------------------------------------
(* The comparison of labels, in characters.                                *)

\* What is after a dot.
Rest(x, d) == [i \in 1..(Len(x) - d) |-> x[d + i]]

\* It is a name.
LEMMA RestIsAfter ==
    ASSUME NEW x \in Seq(Alphabet), NEW d \in 1..Len(x), x[d] = "."
    PROVE  Rest(x, d) \in Seq(Alphabet) /\ After(x, d, Rest(x, d))
<1> DEFINE n == Len(x) - d
           y == Rest(x, d)
<1>1. n \in Nat /\ \A i \in 1..n : d + i \in 1..Len(x)
  OBVIOUS
<1>2. \A i \in 1..n : x[d + i] \in Alphabet
  BY <1>1
<1>3. y = [i \in 1..n |-> x[d + i]]
  BY DEF Rest
<1> HIDE DEF n, y
<1>4. y \in Seq(Alphabet) /\ Len(y) = n /\ \A i \in 1..n : y[i] = x[d + i]
  BY <1>1, <1>2, <1>3
<1> QED
  BY <1>4 DEF After, n, y

\* A name has at least one label.
LEMMA LabelsOf ==
    ASSUME NEW x \in Seq(Alphabet)
    PROVE  /\ \E g : LabelsUpTo(x, g)
           /\ Labels(x) \in LabelLists /\ Len(Labels(x)) \in Nat \ {0}
<1>1. Len(x) \in Nat /\ DOMAIN x = 1..Len(x) /\ Len(x) \in 0..Len(x)
  BY LenProperties
<1>2. PICK g : LabelsUpTo(x, g)
  BY <1>1, LabelsByStep
<1>3. g[Len(x)] \in LabelLists /\ Len(g[Len(x)]) \in Nat \ {0} /\ g[Len(x)] = Labels(x)
  BY <1>1, <1>2, LabelsAfter
<1> QED
  BY <1>2, <1>3

\* The last labels of a list made of two are those of the second.
LEMMA ExtendsLast ==
    ASSUME NEW ls \in LabelLists, NEW us \in LabelLists, NEW ms \in LabelLists,
           Len(us) \in Nat \ {0}, Extends(ls, us, ms)
    PROVE  Len(ls) > Len(ms) /\ ByLabels!LastLabels(ls, Len(ms)) = ms
<1> DEFINE n == Len(ls)
           c == Len(us)
           m == Len(ms)
<1>1. n \in Nat /\ m \in Nat /\ c \in Nat \ {0} /\ ms = [i \in 1..m |-> ms[i]]
  BY LenProperties DEF LabelLists
<1>2. n = c + m /\ \A i \in 1..m : ls[c + i] = ms[i]
  BY DEF Extends
<1>3. ByLabels!LastLabels(ls, m) = [i \in 1..m |-> ls[n - m + i]]
  BY DEF ByLabels!LastLabels
<1> HIDE DEF n, m, c
<1>4. n > m /\ \A i \in 1..m : n - m + i = c + i
  BY <1>1, <1>2
<1>5. \A i \in 1..m : ls[n - m + i] = ms[i]
  BY <1>2, <1>4
<1> QED
  BY <1>1, <1>3, <1>4, <1>5 DEF n, m

\* The last labels are those of another name exactly if the name ends with it, after a dot.
LEMMA LabelsBelow ==
    ASSUME NEW x \in Seq(Alphabet), NEW y \in Seq(Alphabet)
    PROVE  LET n == Len(Labels(x))
               m == Len(Labels(y))
           IN  n > m /\ ByLabels!LastLabels(Labels(x), m) = Labels(y)
                   <=> After(x, Len(x) - Len(y), y)
<1> DEFINE lx == Labels(x)
           ly == Labels(y)
           n == Len(lx)
           m == Len(ly)
<1>1. PICK g : LabelsUpTo(x, g)
  BY LabelsOf
<1>2. PICK h : LabelsUpTo(y, h)
  BY LabelsOf
<1>3. /\ lx \in LabelLists /\ n \in Nat \ {0} /\ ly \in LabelLists /\ m \in Nat \ {0}
      /\ Len(x) \in Nat /\ Len(y) \in Nat
  BY LabelsOf
<1>4. ASSUME After(x, Len(x) - Len(y), y)
      PROVE  n > m /\ ByLabels!LastLabels(lx, m) = ly
  <2> DEFINE d == Len(x) - Len(y)
  <2>1. Extends(lx, g[d - 1], ly)
    BY <1>1, <1>2, <1>4, SuffixLabels
  <2>2. d \in 1..Len(x)
    BY <1>4 DEF After
  <2>3. g[d - 1] \in LabelLists /\ Len(g[d - 1]) \in Nat \ {0}
    <3> HIDE DEF d
    <3> QED
      BY <1>1, <2>2, LabelsAfter
  <2> HIDE DEF d, lx, ly
  <2> QED
    BY <1>3, <2>1, <2>3, ExtendsLast
<1>5. ASSUME n > m, ByLabels!LastLabels(lx, m) = ly
      PROVE  After(x, Len(x) - Len(y), y)
  <2> DEFINE c == n - m
  <2>1. c \in 1..(n - 1)
    BY <1>3, <1>5
  <2>2. PICK d \in 1..Len(x) : x[d] = "." /\ Len(g[d - 1]) = c
    <3> HIDE DEF c
    <3> QED
      BY <1>1, <2>1, CutAt
  <2> DEFINE z == Rest(x, d)
             lz == Labels(z)
  <2>3. z \in Seq(Alphabet) /\ After(x, d, z)
    BY <2>2, RestIsAfter
  <2>4. lz \in LabelLists /\ Len(lz) \in Nat \ {0}
    <3> HIDE DEF z
    <3> QED
      BY <2>3, LabelsOf
  <2>5. Extends(lx, g[d - 1], lz)
    <3> HIDE DEF z
    <3>1. PICK k : LabelsUpTo(z, k)
      BY <2>3, LabelsOf
    <3> QED
      BY <1>1, <2>3, <3>1, SuffixLabels
  <2>6. g[d - 1] \in LabelLists /\ Len(g[d - 1]) \in Nat \ {0}
    BY <1>1, <2>2, LabelsAfter
  <2>7. ByLabels!LastLabels(lx, Len(lz)) = lz
    <3> HIDE DEF lx, lz
    <3> QED
      BY <1>3, <2>4, <2>5, <2>6, ExtendsLast
  <2>8. Len(lz) = m
    <3>1. n = c + Len(lz)
      BY <2>2, <2>5 DEF Extends
    <3> DEFINE w == Len(lz)
    <3> HIDE DEF n, m, w
    <3>2. n = (n - m) + w /\ w \in Nat
      BY <2>4, <3>1 DEF w
    <3>3. w = m
      BY <1>3, <3>2
    <3> QED
      BY <3>3 DEF w
  <2>9. lz = ly
    <3> HIDE DEF lx, ly, lz, m
    <3> QED
      BY <1>5, <2>7, <2>8
  <2>10. z = y
    <3> HIDE DEF z
    <3> QED
      BY <2>3, <2>9, LabelsAreTheName
  <2>11. d = Len(x) - Len(y)
    <3> HIDE DEF z
    <3>1. Len(y) = Len(x) - d
      BY <2>3, <2>10 DEF After
    <3> QED
      BY <1>3, <3>1
  <2> QED
    BY <2>3, <2>10, <2>11
<1> QED
  BY <1>4, <1>5

\* The wildcard stands for the part before the first dot.
ByWildcard(x, y) ==
    \E d : After(y, d, Rest(x, 2)) /\ \A i \in 1..(d - 1) : y[i] # "."

\* In labels: as many on both sides, the same but for the first.
LEMMA WildcardLabels ==
    ASSUME NEW x \in Seq(Alphabet), NEW y \in Seq(Alphabet),
           Len(x) >= 2, x[1] # ".", x[2] = "."
    PROVE  LET n    == Len(Labels(x))
               same == /\ n = Len(Labels(y)) /\ n > 0
                       /\ ByLabels!LastLabels(Labels(x), n - 1)
                              = ByLabels!LastLabels(Labels(y), n - 1)
           IN  Labels(x)[1] = << x[1] >> /\ (same <=> ByWildcard(x, y))
<1> DEFINE lx == Labels(x)
           ly == Labels(y)
           n == Len(lx)
           t == Rest(x, 2)
           lt == Labels(t)
           k == Len(lt)
<1>1. PICK g : LabelsUpTo(x, g)
  BY LabelsOf
<1>2. PICK h : LabelsUpTo(y, h)
  BY LabelsOf
<1>3. t \in Seq(Alphabet) /\ After(x, 2, t)
  BY RestIsAfter
<1>4. /\ lx \in LabelLists /\ n \in Nat \ {0} /\ ly \in LabelLists /\ Len(ly) \in Nat \ {0}
      /\ lt \in LabelLists /\ k \in Nat \ {0}
  <2> HIDE DEF t
  <2> QED
    BY <1>3, LabelsOf
<1>5. lx[1] = << x[1] >>
  <2>1. Len(x) \in 0..Len(x) /\ Len(x) > 0 /\ g[Len(x)] = lx
    BY <1>1 DEF LabelsUpTo
  <2>2. FirstLabelFits(x, Len(x), lx)
    BY <1>1, <2>1, FirstLabel
  <2>3. Len(x) > 1
    OBVIOUS
  <2> HIDE DEF lx
  <2> QED
    BY <2>2, <2>3 DEF FirstLabelFits
<1>6. g[1] \in LabelLists /\ Len(g[1]) = 1
  <2>1. 1 \in 0..Len(x) /\ \A i \in 1..1 : x[i] # "."
    OBVIOUS
  <2> QED
    BY <1>1, <2>1, LabelsAfter, OneLabel
<1>7. Extends(lx, g[1], lt)
  <2> HIDE DEF t
  <2>1. PICK f : LabelsUpTo(t, f)
    BY <1>3, LabelsOf
  <2>2. Extends(lx, g[2 - 1], lt)
    BY <1>1, <1>3, <2>1, SuffixLabels
  <2>3. 2 - 1 = 1
    OBVIOUS
  <2> QED
    BY <2>2, <2>3
<1>8. n = k + 1 /\ n - 1 = k
  <2>1. n = 1 + k
    BY <1>6, <1>7 DEF Extends
  <2> HIDE DEF n, k
  <2> QED
    BY <1>4, <2>1
<1>9. ByLabels!LastLabels(lx, n - 1) = lt
  <2>1. ByLabels!LastLabels(lx, k) = lt
    <3> HIDE DEF lx, lt
    <3>1. Len(g[1]) \in Nat \ {0}
      BY <1>6
    <3> QED
      BY <1>4, <1>6, <1>7, <3>1, ExtendsLast
  <2> QED
    BY <1>8, <2>1
<1>10. Len(ly) > k /\ ByLabels!LastLabels(ly, k) = lt <=> After(y, Len(y) - Len(t), t)
  <2> HIDE DEF t
  <2> QED
    BY <1>3, LabelsBelow
<1>11. ASSUME NEW d, After(y, d, t)
       PROVE  d = Len(y) - Len(t) /\ d \in 1..Len(y) /\ Len(ly) = Len(h[d - 1]) + k
              /\ (Len(h[d - 1]) = 1 <=> \A i \in 1..(d - 1) : y[i] # ".")
              /\ Len(h[d - 1]) \in Nat
  <2> HIDE DEF t
  <2>1. d \in 1..Len(y) /\ Len(t) = Len(y) - d /\ Len(t) \in Nat /\ Len(y) \in Nat
    <3>1. Len(t) \in Nat /\ Len(y) \in Nat
      BY <1>3
    <3> QED
      BY <1>11, <3>1, Zenon DEF After
  <2>2. d = Len(y) - Len(t) /\ d - 1 \in 0..Len(y)
    BY <2>1
  <2>3. PICK f : LabelsUpTo(t, f)
    BY <1>3, LabelsOf
  <2>4. Extends(ly, h[d - 1], lt)
    BY <1>2, <1>3, <1>11, <2>3, SuffixLabels
  <2>5. Len(ly) = Len(h[d - 1]) + k
    BY <2>4 DEF Extends
  <2>6. Len(h[d - 1]) = 1 <=> \A i \in 1..(d - 1) : y[i] # "."
    BY <1>2, <2>2, OneLabel
  <2>7. Len(h[d - 1]) \in Nat
    BY <1>2, <2>2, LabelsAfter
  <2> QED
    BY <2>1, <2>2, <2>5, <2>6, <2>7
<1> DEFINE same == n = Len(ly) /\ ByLabels!LastLabels(ly, n - 1) = lt
<1>12. ASSUME same PROVE ByWildcard(x, y)
  <2> DEFINE d == Len(y) - Len(t)
  <2>1. Len(ly) = k + 1 /\ ByLabels!LastLabels(ly, k) = lt /\ Len(ly) > k
    <3>1. Len(ly) = k + 1 /\ ByLabels!LastLabels(ly, k) = lt
      BY <1>8, <1>12
    <3> HIDE DEF k
    <3> QED
      BY <1>4, <3>1
  <2>2. After(y, d, t)
    BY <1>10, <2>1
  <2>3. /\ Len(ly) = Len(h[d - 1]) + k /\ Len(h[d - 1]) \in Nat
        /\ Len(h[d - 1]) = 1 <=> \A i \in 1..(d - 1) : y[i] # "."
    BY <1>11, <2>2
  <2>4. Len(h[d - 1]) = 1
    <3> DEFINE w == Len(h[d - 1])
    <3> HIDE DEF k, w
    <3>1. w + k = k + 1 /\ w \in Nat
      BY <2>1, <2>3 DEF w
    <3>2. w = 1
      BY <1>4, <3>1
    <3> QED
      BY <3>2 DEF w
  <2> HIDE DEF d
  <2> QED
    BY <2>2, <2>3, <2>4 DEF ByWildcard
<1>13. ASSUME ByWildcard(x, y) PROVE same
  <2>1. PICK d : After(y, d, t) /\ \A i \in 1..(d - 1) : y[i] # "."
    BY <1>13 DEF ByWildcard
  <2>2. d = Len(y) - Len(t) /\ Len(ly) = Len(h[d - 1]) + k /\ Len(h[d - 1]) = 1
    BY <1>11, <2>1
  <2>3. Len(ly) > k /\ ByLabels!LastLabels(ly, k) = lt
    BY <1>10, <2>1, <2>2
  <2>4. Len(ly) = 1 + k
    BY <2>2
  <2> HIDE DEF n, k
  <2>5. n = Len(ly)
    BY <1>4, <1>8, <2>4
  <2> QED
    BY <1>8, <2>3, <2>5
<1>14. n > 0
  BY <1>4
<1> HIDE DEF n, lx, ly, lt, t
<1>15. n = Len(ly) /\ n > 0 /\ ByLabels!LastLabels(lx, n - 1) = ByLabels!LastLabels(ly, n - 1)
           <=> ByWildcard(x, y)
  BY <1>9, <1>12, <1>13, <1>14
<1> QED
  BY <1>5, <1>15 DEF n, lx, ly

-----------------------------------------------------------------------------
(* Names in lower case, and without what only a role allows.               *)

\* The case of a character is not that of a dot or of a wildcard.
LEMMA LowerKeeps ==
    ASSUME NEW c \in Alphabet
    PROVE  /\ ascii_lower(c) \in Alphabet
           /\ ascii_lower(c) = "." <=> c = "."
           /\ ascii_lower(c) = "*" <=> c = "*"
<1>1. CASE c \in Range(UpperHex)
  <2> DEFINE i == CHOOSE i \in 1..6 : UpperHex[i] = c
             e == HexDigits[10 + i]
  <2>1. \E k \in 1..6 : UpperHex[k] = c
    BY <1>1 DEF Range, UpperHex
  <2>2. i \in 1..6
    BY <2>1
  <2>3. ascii_lower(c) = e
    BY <1>1 DEF ascii_lower, lower
  <2> HIDE DEF i
  <2>4. 10 + i \in 11..16
    BY <2>2
  <2>5. e \in {"a", "b", "c", "d", "e", "f"}
    <3>1. \A k \in 11..16 : HexDigits[k] \in {"a", "b", "c", "d", "e", "f"}
      <4>1. \A k \in 11..16 : k = 11 \/ k = 12 \/ k = 13 \/ k = 14 \/ k = 15 \/ k = 16
        OBVIOUS
      <4> QED
        BY <4>1 DEF HexDigits
    <3> QED
      BY <2>4, <3>1
  <2>6. e \in Range(HexDigits)
    <3>1. DOMAIN HexDigits = 1..16
      BY DEF HexDigits
    <3>2. 10 + i \in DOMAIN HexDigits
      BY <2>4, <3>1
    <3> QED
      BY <3>2 DEF Range
  <2> HIDE DEF e
  <2>7. e \in Alphabet
    BY <2>6 DEF Alphabet, Letters
  <2>8. c # "." /\ c # "*"
    BY <1>1 DEF Range, UpperHex
  <2>9. e # "." /\ e # "*"
    BY <2>5
  <2> QED
    BY <2>3, <2>7, <2>8, <2>9
<1>2. CASE c \notin Range(UpperHex)
  <2>1. ascii_lower(c) = c
    BY <1>2 DEF ascii_lower, lower
  <2> QED
    BY <2>1
<1> QED
  BY <1>1, <1>2

\* A name in lower case.
LEMMA Owned ==
    ASSUME NEW a \in Seq(Alphabet)
    PROVE  /\ to_owned(a) \in Seq(Alphabet) /\ Len(to_owned(a)) = Len(a) /\ Len(a) \in Nat
           /\ \A i \in 1..Len(a) : /\ to_owned(a)[i] = ascii_lower(a[i])
                                   /\ to_owned(a)[i] = "." <=> a[i] = "."
                                   /\ to_owned(a)[i] = "*" <=> a[i] = "*"
<1> DEFINE n == Len(a)
           x == to_owned(a)
<1>1. n \in Nat /\ DOMAIN a = 1..n /\ \A i \in 1..n : a[i] \in Alphabet
  BY LenProperties
<1>2. x = [i \in 1..n |-> ascii_lower(a[i])]
  BY <1>1 DEF to_owned
<1> HIDE DEF n, x
<1>3. \A i \in 1..n : /\ ascii_lower(a[i]) \in Alphabet
                      /\ ascii_lower(a[i]) = "." <=> a[i] = "."
                      /\ ascii_lower(a[i]) = "*" <=> a[i] = "*"
  BY <1>1, LowerKeeps
<1>4. x \in Seq(Alphabet) /\ Len(x) = n /\ \A i \in 1..n : x[i] = ascii_lower(a[i])
  BY <1>1, <1>2, <1>3
<1> QED
  BY <1>1, <1>3, <1>4 DEF n, x

\* The name without the final dot of a reference or the first dot of a constraint.
WithoutLast(y) == [i \in 1..(Len(y) - 1) |-> y[i]]

\* A name in its role.
Core(y, id_role) ==
    IF id_role = "Reference" /\ y[Len(y)] = "." THEN WithoutLast(y)
    ELSE IF id_role = "NameConstraint" /\ y[1] = "." THEN Rest(y, 1)
    ELSE y

\* It is a name, a character shorter.
LEMMA WithoutLastOf ==
    ASSUME NEW y \in Seq(Alphabet), Len(y) > 0
    PROVE  /\ WithoutLast(y) \in Seq(Alphabet) /\ Len(WithoutLast(y)) = Len(y) - 1
           /\ \A i \in 1..(Len(y) - 1) : WithoutLast(y)[i] = y[i]
<1> DEFINE n == Len(y) - 1
           f == WithoutLast(y)
<1>1. n \in Nat /\ \A i \in 1..n : y[i] \in Alphabet
  OBVIOUS
<1>2. f = [i \in 1..n |-> y[i]]
  BY DEF WithoutLast
<1> HIDE DEF n, f
<1>3. f \in Seq(Alphabet) /\ Len(f) = n /\ \A i \in 1..n : f[i] = y[i]
  BY <1>1, <1>2
<1> QED
  BY <1>3 DEF n, f

\* Some of a list of labels, from the first or from the second.
LEMMA SubLists ==
    ASSUME NEW ls \in LabelLists, NEW ms \in LabelLists, Len(ls) \in Nat, Len(ms) \in Nat,
           NEW from \in Nat \ {0}, NEW last \in Nat, last <= Len(ls), Len(ms) = last - from + 1,
           \A i \in 1..Len(ms) : ms[i] = ls[i + from - 1]
    PROVE  SubSeq(ls, from, last) = ms
<1> DEFINE m == Len(ms)
<1>1. ms = [i \in 1..m |-> ms[i]]
  BY LenProperties DEF LabelLists
<1>2. SubSeq(ls, from, last) = [i \in 1..(1 + last - from) |-> ls[i + from - 1]]
  BY DEF LabelLists
<1>3. 1 + last - from = m /\ m \in Nat
  OBVIOUS
<1>4. \A i \in 1..m : ms[i] = ls[i + from - 1]
  OBVIOUS
<1> HIDE DEF m
<1> QED
  BY <1>1, <1>2, <1>3, <1>4

\* What Proper leaves are the labels of that name.
LEMMA ProperIsCore ==
    ASSUME NEW y \in Seq(Alphabet), Len(y) > 0,
           NEW id_role \in {"Reference", "Presented", "NameConstraint"}
    PROVE  Core(y, id_role) \in Seq(Alphabet)
           /\ Proper(y, id_role, FALSE) = Labels(Core(y, id_role))
<1> DEFINE ls == Labels(y)
           n == Len(ls)
           m == Len(y)
           last == IF id_role = "Reference" /\ n > 1 /\ ls[n] = << >> THEN n - 1 ELSE n
           from == IF id_role = "NameConstraint" /\ n > 1 /\ ls[1] = << >> THEN 2 ELSE 1
<1>1. PICK g : LabelsUpTo(y, g)
  BY LabelsOf
<1>2. ls \in LabelLists /\ n \in Nat \ {0} /\ m \in Nat \ {0}
  BY LabelsOf
<1>3. Proper(y, id_role, FALSE) = SubSeq(ls, from, last)
  BY DEF Proper
<1>4. /\ g[m] = ls /\ g[m] = LabelStep(g[m - 1], y[m]) /\ y[m] \in Alphabet
      /\ g[m - 1] \in LabelLists /\ Len(g[m - 1]) \in Nat \ {0}
  <2>1. m \in 1..Len(y)
    BY <1>2
  <2> QED
    BY <1>1, <2>1, LabelsAfter
<1>5. /\ y[m] = "." => /\ n = Len(g[m - 1]) + 1 /\ ls[n] = << >>
                       /\ \A i \in 1..Len(g[m - 1]) : ls[i] = g[m - 1][i]
      /\ y[m] # "." => ls[n] # << >>
  <2> DEFINE us == g[m - 1]
             c == y[m]
             t == LabelStep(us, c)
  <2>1. us \in LabelLists /\ Len(us) > 0 /\ c \in Alphabet /\ ls = t
    BY <1>4
  <2>2. Len(us) \in 1..Len(us)
    BY <1>4
  <2>3. us[Len(us)] \in Seq(Alphabet)
    <3> HIDE DEF us
    <3> QED
      BY <2>1, <2>2, ElementOfSeq DEF LabelLists
  <2>4. Append(us[Len(us)], c) # << >>
    <3> HIDE DEF us, c
    <3> QED
      BY <2>1, <2>3, AppendRange
  <2> HIDE DEF us, c, ls
  <2>5. /\ c = "." => /\ Len(t) = Len(us) + 1 /\ t[Len(us) + 1] = << >>
                      /\ \A j \in 1..Len(us) : t[j] = us[j]
        /\ c # "." => /\ Len(t) = Len(us) /\ t[Len(us)] = Append(us[Len(us)], c)
    BY <2>1, LabelStepFacts
  <2> QED
    BY <2>1, <2>4, <2>5 DEF us, c
<1>6. /\ y[1] = "." => n > 1 /\ ls[1] = << >>
      /\ y[1] # "." => ls[1] # << >>
  <2>1. m \in 0..Len(y) /\ m > 0 /\ g[m] = ls
    BY <1>2, <1>4
  <2>2. FirstLabelFits(y, m, ls)
    BY <1>1, <2>1, FirstLabel
  <2> QED
    BY <2>1, <2>2 DEF FirstLabelFits
<1>7. CASE id_role = "Reference" /\ y[m] = "."
  <2>1. Core(y, id_role) = WithoutLast(y)
    BY <1>7 DEF Core
  <2>2. /\ WithoutLast(y) \in Seq(Alphabet) /\ Len(WithoutLast(y)) = m - 1
        /\ \A i \in 1..(m - 1) : WithoutLast(y)[i] = y[i]
    BY WithoutLastOf
  <2>3. PICK h : LabelsUpTo(WithoutLast(y), h)
    BY <2>2, LabelsOf
  <2>4. g[m - 1] = Labels(WithoutLast(y))
    <3>1. Len(WithoutLast(y)) <= Len(y) /\ \A i \in 1..Len(WithoutLast(y)) : WithoutLast(y)[i] = y[i]
      BY <1>2, <2>2
    <3>2. g[Len(WithoutLast(y))] = Labels(WithoutLast(y))
      BY <1>1, <2>2, <2>3, <3>1, PrefixLabels
    <3> QED
      BY <2>2, <3>2
  <2> DEFINE ms == g[m - 1]
             k == Len(ms)
  <2>5. ms \in LabelLists /\ k \in Nat \ {0} /\ n = k + 1 /\ \A i \in 1..k : ls[i] = ms[i]
    BY <1>4, <1>5, <1>7
  <2>6. n > 1 /\ ls[n] = << >>
    <3>1. ls[n] = << >>
      BY <1>5, <1>7
    <3> HIDE DEF n, k
    <3> QED
      BY <2>5, <3>1
  <2>7. last = n - 1 /\ from = 1
    BY <1>7, <2>6
  <2> HIDE DEF n, k, ms, last, from, ls, m
  <2>8. /\ n - 1 \in Nat /\ n - 1 <= n /\ k = (n - 1) - 1 + 1
        /\ \A i \in 1..k : ms[i] = ls[i + 1 - 1]
    BY <1>2, <2>5
  <2>9. SubSeq(ls, from, last) = ms
    BY <1>2, <2>5, <2>7, <2>8, SubLists DEF n, k
  <2> QED
    BY <1>3, <2>1, <2>2, <2>4, <2>9 DEF ms
<1>8. CASE id_role = "NameConstraint" /\ y[1] = "."
  <2> DEFINE t == Rest(y, 1)
             ms == Labels(t)
             k == Len(ms)
  <2>1. Core(y, id_role) = t
    BY <1>8 DEF Core
  <2>2. t \in Seq(Alphabet) /\ After(y, 1, t)
    <3>1. 1 \in 1..Len(y)
      BY <1>2
    <3> QED
      BY <1>8, <3>1, RestIsAfter
  <2>3. ms \in LabelLists /\ k \in Nat \ {0}
    <3> HIDE DEF t
    <3> QED
      BY <2>2, LabelsOf
  <2>4. n = 1 + k /\ \A i \in 1..k : ls[1 + i] = ms[i]
    <3> HIDE DEF t
    <3>1. PICK h : LabelsUpTo(t, h)
      BY <2>2, LabelsOf
    <3>2. Extends(ls, g[1 - 1], ms)
      BY <1>1, <2>2, <3>1, SuffixLabels
    <3>3. Len(g[1 - 1]) = 1
      <4>1. 1 - 1 = 0 /\ g[0] = NoLabel
        BY <1>1 DEF LabelsUpTo
      <4> QED
        <5>1. Len(NoLabel) = 1
          BY DEF NoLabel
        <5> QED
          BY <4>1, <5>1
    <3> QED
      BY <3>2, <3>3 DEF Extends
  <2>5. last = n /\ from = 2
    BY <1>6, <1>8
  <2> HIDE DEF n, k, ms, last, from, ls, m, t
  <2>6. /\ n <= n /\ k = n - 2 + 1
        /\ \A i \in 1..k : ms[i] = ls[i + 2 - 1]
    <3>1. \A i \in 1..k : i + 2 - 1 = 1 + i
      BY <2>3
    <3> QED
      BY <1>2, <2>3, <2>4, <3>1
  <2>7. SubSeq(ls, from, last) = ms
    BY <1>2, <2>3, <2>5, <2>6, SubLists DEF n, k
  <2> QED
    BY <1>3, <2>1, <2>2, <2>7 DEF ms
<1>9. CASE ~(id_role = "Reference" /\ y[m] = ".") /\ ~(id_role = "NameConstraint" /\ y[1] = ".")
  <2>1. Core(y, id_role) = y
    BY <1>9 DEF Core
  <2>2. last = n /\ from = 1
    BY <1>5, <1>6, <1>9
  <2> HIDE DEF n, last, from, ls, m
  <2>3. /\ n <= n /\ n = n - 1 + 1 /\ \A i \in 1..n : ls[i] = ls[i + 1 - 1]
    BY <1>2
  <2>4. SubSeq(ls, 1, n) = ls
    <3>1. /\ Len(ls) \in Nat /\ 1 \in Nat \ {0} /\ n \in Nat /\ n <= Len(ls)
          /\ Len(ls) = n - 1 + 1 /\ \A i \in 1..Len(ls) : ls[i] = ls[i + 1 - 1]
      BY <1>2, <2>3 DEF n
    <3> QED
      BY <1>2, <3>1, SubLists
  <2> QED
    BY <1>3, <2>1, <2>2, <2>4 DEF ls
<1> QED
  BY <1>7, <1>8, <1>9

\* What is known of a valid reference or constraint.
ReferenceFacts(b, id_role) ==
    /\ Len(b) > 0 => b[1] # "*"
    /\ id_role = "Reference" => Len(b) >= 1 /\ b[1] # "."
    /\ id_role = "NameConstraint" /\ Len(b) > 0 /\ b[1] = "." => Len(b) >= 2 /\ b[2] # "."

\* A valid reference or constraint has them.
LEMMA ReferenceShape ==
    ASSUME NEW b \in Seq(Alphabet), NEW id_role \in {"Reference", "NameConstraint"},
           is_valid_dns_id(b, id_role, FALSE)
    PROVE  ReferenceFacts(b, id_role)
<1> DEFINE n == Len(b)
<1>1. Shape(b, id_role, FALSE)
  BY ValidShape
<1>2. \/ id_role = "NameConstraint" /\ b = << >>
      \/ /\ n >= 1
         /\ \A i \in 1..n : Admitted(b, i, 1, id_role)
         /\ b[n] = "." => id_role = "Reference"
  BY <1>1 DEF Shape
<1>3. n \in Nat
  OBVIOUS
<1>4. CASE id_role = "NameConstraint" /\ b = << >>
  <2>1. n = 0
    BY <1>4, EmptySeq
  <2> QED
    BY <1>4, <2>1 DEF ReferenceFacts
<1>5. CASE /\ n >= 1
           /\ \A i \in 1..n : Admitted(b, i, 1, id_role)
           /\ b[n] = "." => id_role = "Reference"
  <2>1. Admitted(b, 1, 1, id_role)
    BY <1>3, <1>5
  <2>2. b[1] # "*" /\ (id_role = "Reference" => b[1] # ".")
    BY <2>1 DEF Admitted
  <2>3. ASSUME id_role = "NameConstraint", b[1] = "." PROVE n >= 2 /\ b[2] # "."
    <3>1. n # 1
      BY <1>5, <2>3
    <3>2. n >= 2 /\ 2 \in 1..n
      <4>1. n >= 1
        BY <1>5
      <4> HIDE DEF n
      <4> QED
        BY <1>3, <3>1, <4>1
    <3>3. Admitted(b, 2, 1, id_role)
      BY <1>5, <3>2
    <3>4. b[2] = "." => b[2 - 1] # "."
      BY <3>3 DEF Admitted
    <3>5. 2 - 1 = 1
      OBVIOUS
    <3> QED
      BY <2>3, <3>2, <3>4, <3>5
  <2> QED
    BY <1>5, <2>2, <2>3 DEF ReferenceFacts
<1> QED
  BY <1>2, <1>4, <1>5

-----------------------------------------------------------------------------
\* The characters of x from i on are those of z from j on.
SameTail(x, z, i, j) ==
    /\ Len(x) - i = Len(z) - j
    /\ \A k \in i..Len(x) : x[k] = z[k + (j - i)]

\* What is compared with the presented name: the reference without its final dot, or the
\* constraint as it is.
Compared(y, id_role) == IF id_role = "Reference" THEN Core(y, id_role) ELSE y

\* The comparison of the code, as one of names in lower case.
LEMMA TailOfLower ==
    ASSUME NEW a \in Seq(Alphabet), NEW b \in Seq(Alphabet), Len(b) > 0,
           NEW id_role \in {"Reference", "NameConstraint"},
           a[Len(a)] # ".", NEW i \in 1..Len(a), NEW j \in Nat \ {0}
    PROVE  TailFits(a, b, id_role, i, j)
               <=> SameTail(to_owned(a), Compared(to_owned(b), id_role), i, j)
<1> DEFINE x == to_owned(a)
           y == to_owned(b)
           z == Compared(y, id_role)
           n == Len(a)
           m == Len(b)
           dot == id_role = "Reference" /\ b[m] = "."
           low(k) == ascii_lower(a[k]) = ascii_lower(b[k + (j - i)])
<1>1. n \in Nat /\ m \in Nat \ {0} /\ i \in 1..n
  OBVIOUS
<1>2. x \in Seq(Alphabet) /\ Len(x) = n /\ \A k \in 1..n : x[k] = ascii_lower(a[k])
  BY Owned
<1>3. /\ y \in Seq(Alphabet) /\ Len(y) = m
      /\ \A k \in 1..m : y[k] = ascii_lower(b[k]) /\ (y[k] = "." <=> b[k] = ".")
  BY Owned
<1>4. TailFits(a, b, id_role, i, j) <=>
          /\ n - i = m - j \/ (dot /\ n - i + 1 = m - j)
          /\ \A k \in i..n : low(k)
  BY DEF TailFits
<1>5. y[m] = "." <=> b[m] = "."
  BY <1>1, <1>3
<1>6. SameTail(x, z, i, j) <=>
          n - i = Len(z) - j /\ \A k \in i..n : x[k] = z[k + (j - i)]
  BY <1>2 DEF SameTail
<1>7. CASE dot
  <2>1. z = WithoutLast(y)
    BY <1>3, <1>5, <1>7 DEF Compared, Core
  <2>2. Len(z) = m - 1 /\ \A k \in 1..(m - 1) : z[k] = y[k]
    <3>1. Len(y) > 0
      BY <1>1, <1>3
    <3> HIDE DEF y, z, m
    <3>2. Len(WithoutLast(y)) = Len(y) - 1 /\ \A k \in 1..(Len(y) - 1) : WithoutLast(y)[k] = y[k]
      BY <1>3, <3>1, WithoutLastOf
    <3> QED
      BY <1>3, <2>1, <3>2
  <2> HIDE DEF x, y, z, n, m, low
  <2>3. ASSUME n - i = m - j PROVE ~\A k \in i..n : low(k)
    <3>1. n \in i..n /\ n + (j - i) = m /\ n \in 1..n /\ m \in 1..m
      BY <1>1, <2>3
    <3>2. low(n) => x[n] = y[m]
      BY <1>2, <1>3, <3>1 DEF low
    <3>3. y[m] = "." /\ x[n] # "."
      <4>1. a[n] \in Alphabet /\ a[n] # "."
        BY <1>1 DEF n
      <4>2. ascii_lower(a[n]) # "."
        BY <4>1, LowerKeeps
      <4> QED
        BY <1>2, <1>5, <1>7, <3>1, <4>2
    <3> QED
      BY <3>1, <3>2, <3>3
  <2>4. n - i + 1 = m - j <=> n - i = Len(z) - j
    BY <1>1, <2>2
  <2>5. ASSUME n - i + 1 = m - j, NEW k \in i..n
        PROVE  low(k) <=> x[k] = z[k + (j - i)]
    <3>1. k \in 1..n /\ k + (j - i) \in 1..(m - 1) /\ k + (j - i) \in 1..m
      BY <1>1, <2>5
    <3> QED
      BY <1>2, <1>3, <2>2, <3>1 DEF low
  <2> QED
    BY <1>4, <1>6, <1>7, <2>3, <2>4, <2>5 DEF x, y, z
<1>8. CASE ~dot
  <2>1. z = y
    BY <1>3, <1>5, <1>8 DEF Compared, Core
  <2> HIDE DEF x, y, z, n, m, low
  <2>2. ASSUME n - i = m - j, NEW k \in i..n
        PROVE  low(k) <=> x[k] = z[k + (j - i)]
    <3>1. k \in 1..n /\ k + (j - i) \in 1..m
      BY <1>1, <2>2
    <3> QED
      BY <1>2, <1>3, <2>1, <3>1 DEF low
  <2> QED
    BY <1>3, <1>4, <1>6, <1>8, <2>1, <2>2 DEF x, y, z
<1> QED
  BY <1>7, <1>8

\* From the beginning.
LEMMA WholeTail ==
    ASSUME NEW x \in Seq(Alphabet), NEW z \in Seq(Alphabet)
    PROVE  SameTail(x, z, 1, 1) <=> x = z
<1> DEFINE n == Len(x)
           m == Len(z)
<1>1. n \in Nat /\ m \in Nat
  OBVIOUS
<1>2. SameTail(x, z, 1, 1) <=> n - 1 = m - 1 /\ \A k \in 1..n : x[k] = z[k + (1 - 1)]
  BY DEF SameTail
<1>3. \A k \in 1..n : k + (1 - 1) = k
  BY <1>1
<1> HIDE DEF n, m
<1>4. SameTail(x, z, 1, 1) <=> n = m /\ \A k \in 1..n : x[k] = z[k]
  BY <1>1, <1>2, <1>3
<1>5. n = m /\ (\A k \in 1..n : x[k] = z[k]) => x = z
  BY SeqEqual DEF n, m
<1> QED
  BY <1>4, <1>5 DEF n, m

\* After a prefix that ends with a dot.
LEMMA TailAfterDot ==
    ASSUME NEW x \in Seq(Alphabet), NEW y \in Seq(Alphabet), Len(y) > 0,
           Len(x) - Len(y) > 0
    PROVE  LET longer == Len(x) - Len(y)
           IN  x[longer] = "." /\ SameTail(x, y, longer + 1, 1) <=> After(x, longer, y)
<1> DEFINE n == Len(x)
           m == Len(y)
           longer == n - m
<1>1. n \in Nat /\ m \in Nat \ {0} /\ longer \in 1..n
  OBVIOUS
<1>2. After(x, longer, y) <=>
          /\ longer \in 1..n /\ x[longer] = "."
          /\ m = n - longer /\ \A i \in 1..m : y[i] = x[longer + i]
  BY DEF After
<1>3. SameTail(x, y, longer + 1, 1) <=>
          /\ n - (longer + 1) = m - 1
          /\ \A k \in (longer + 1)..n : x[k] = y[k + (1 - (longer + 1))]
  BY DEF SameTail
<1> HIDE DEF n, m
<1>4. n - (longer + 1) = m - 1 /\ m = n - longer
  BY <1>1
<1>5. ASSUME \A i \in 1..m : y[i] = x[longer + i], NEW k \in (longer + 1)..n
      PROVE  x[k] = y[k + (1 - (longer + 1))]
  <2> DEFINE i == k + (1 - (longer + 1))
  <2>1. i \in 1..m /\ longer + i = k
    BY <1>1
  <2> HIDE DEF i
  <2> QED
    BY <1>5, <2>1 DEF i
<1>6. ASSUME \A k \in (longer + 1)..n : x[k] = y[k + (1 - (longer + 1))], NEW i \in 1..m
      PROVE  y[i] = x[longer + i]
  <2>1. longer + i \in (longer + 1)..n /\ (longer + i) + (1 - (longer + 1)) = i
    BY <1>1
  <2> QED
    BY <1>6, <2>1
<1> HIDE DEF longer
<1> QED
  BY <1>1, <1>2, <1>3, <1>4, <1>5, <1>6 DEF n, m, longer

\* The same for a constraint that begins with the dot.
LEMMA TailAtDot ==
    ASSUME NEW x \in Seq(Alphabet), NEW y \in Seq(Alphabet), Len(y) > 0, y[1] = ".",
           Len(x) - Len(y) > 0
    PROVE  LET longer == Len(x) - Len(y)
               c == Rest(y, 1)
           IN  SameTail(x, y, longer + 1, 1) <=> After(x, Len(x) - Len(c), c)
<1> DEFINE n == Len(x)
           m == Len(y)
           longer == n - m
           d == longer + 1
           c == Rest(y, 1)
<1>1. n \in Nat /\ m \in Nat \ {0} /\ longer \in 1..n /\ d \in 1..n /\ n - (m - 1) = d
  OBVIOUS
<1>2. Len(c) = m - 1 /\ \A i \in 1..(m - 1) : c[i] = y[1 + i]
  <2>1. 1 \in 1..Len(y)
    BY <1>1
  <2>2. After(y, 1, c)
    BY <2>1, RestIsAfter
  <2> QED
    BY <2>2 DEF After
<1>3. After(x, n - Len(c), c) <=>
          x[d] = "." /\ \A i \in 1..(m - 1) : c[i] = x[d + i]
  <2> HIDE DEF d, c, n, m, longer
  <2>1. n - Len(c) = d /\ m - 1 = n - d
    BY <1>1, <1>2
  <2>2. After(x, d, c) <=>
          /\ d \in 1..n /\ x[d] = "."
          /\ m - 1 = n - d /\ \A i \in 1..(m - 1) : c[i] = x[d + i]
    BY <1>2 DEF After, n
  <2> QED
    BY <1>1, <2>1, <2>2
<1>4. SameTail(x, y, d, 1) <=>
          /\ n - d = m - 1
          /\ \A k \in d..n : x[k] = y[k + (1 - d)]
  BY DEF SameTail
<1> HIDE DEF n, m, c
<1>5. n - d = m - 1
  BY <1>1
<1>6. ASSUME \A k \in d..n : x[k] = y[k + (1 - d)]
      PROVE  x[d] = "." /\ \A i \in 1..(m - 1) : c[i] = x[d + i]
  <2>1. d \in d..n /\ d + (1 - d) = 1
    BY <1>1
  <2>2. x[d] = "."
    BY <1>6, <2>1
  <2>3. ASSUME NEW i \in 1..(m - 1) PROVE c[i] = x[d + i]
    <3>1. d + i \in d..n /\ (d + i) + (1 - d) = 1 + i
      BY <1>1
    <3> QED
      BY <1>2, <1>6, <3>1
  <2> QED
    BY <2>2, <2>3
<1>7. ASSUME x[d] = ".", \A i \in 1..(m - 1) : c[i] = x[d + i], NEW k \in d..n
      PROVE  x[k] = y[k + (1 - d)]
  <2>1. CASE k = d
    <3>1. k + (1 - d) = 1
      BY <1>1, <2>1
    <3> QED
      BY <1>7, <2>1, <3>1
  <2>2. CASE k # d
    <3> DEFINE i == k - d
    <3>1. i \in 1..(m - 1) /\ d + i = k /\ 1 + i = k + (1 - d)
      BY <1>1, <2>2
    <3> HIDE DEF i
    <3> QED
      BY <1>2, <1>7, <3>1
  <2> QED
    BY <2>1, <2>2
<1> HIDE DEF d
<1> QED
  BY <1>3, <1>4, <1>5, <1>6, <1>7 DEF n, m, c, d

\* The wildcard against a name that does not begin with a dot, of which c is all or all
\* but the last character.
LEMMA WildcardAtStart ==
    ASSUME NEW x \in Seq(Alphabet), NEW y \in Seq(Alphabet), NEW c \in Seq(Alphabet),
           Len(x) >= 3, x[2] = ".", Len(y) > 0, y[1] # ".",
           Len(c) <= Len(y), \A i \in 1..Len(c) : c[i] = y[i]
    PROVE  (\E d \in 2..Len(y) : FirstDot(y, d) /\ SameTail(x, c, 2, d)) <=> ByWildcard(x, c)
<1> DEFINE n == Len(x)
           m == Len(c)
           t == Rest(x, 2)
<1>1. n \in Nat /\ n >= 3 /\ m \in Nat /\ Len(y) \in Nat /\ m <= Len(y)
  OBVIOUS
<1>2. Len(t) = n - 2 /\ \A i \in 1..(n - 2) : t[i] = x[2 + i]
  <2>1. 2 \in 1..Len(x)
    BY <1>1
  <2>2. After(x, 2, t)
    BY <2>1, RestIsAfter
  <2> QED
    BY <2>2 DEF After
<1>3. \A i \in 1..m : c[i] = y[i]
  OBVIOUS
<1>4. \A d : SameTail(x, c, 2, d) <=> n - 2 = m - d /\ \A k \in 2..n : x[k] = c[k + (d - 2)]
  BY DEF SameTail
<1>5. \A d : After(c, d, t) <=> /\ d \in 1..m /\ c[d] = "."
                                /\ n - 2 = m - d /\ \A i \in 1..(n - 2) : t[i] = c[d + i]
  <2>1. \A d : After(c, d, t) <=> /\ d \in 1..m /\ c[d] = "."
                                  /\ Len(t) = m - d /\ \A i \in 1..Len(t) : t[i] = c[d + i]
    BY DEF After
  <2> HIDE DEF t, n, m
  <2> QED
    BY <1>2, <2>1
<1> HIDE DEF n, m, t
<1>6. ASSUME NEW d \in 2..Len(y), FirstDot(y, d), SameTail(x, c, 2, d)
      PROVE  ByWildcard(x, c)
  <2>1. n - 2 = m - d /\ \A k \in 2..n : x[k] = c[k + (d - 2)]
    BY <1>4, <1>6
  <2>2. d \in 1..m
    BY <1>1, <2>1
  <2>3. c[d] = "."
    BY <1>3, <1>6, <2>2 DEF FirstDot
  <2>4. ASSUME NEW i \in 1..(n - 2) PROVE t[i] = c[d + i]
    <3>1. 2 + i \in 2..n /\ (2 + i) + (d - 2) = d + i
      BY <1>1, <2>2
    <3> QED
      BY <1>2, <2>1, <3>1
  <2>5. ASSUME NEW i \in 1..(d - 1) PROVE c[i] # "."
    <3>1. i \in 1..m /\ (i = 1 \/ i \in 2..(d - 1))
      BY <1>1, <2>2
    <3> QED
      BY <1>3, <1>6, <3>1 DEF FirstDot
  <2>6. After(c, d, t)
    BY <1>5, <2>1, <2>2, <2>3, <2>4
  <2> QED
    BY <2>5, <2>6 DEF ByWildcard, t
<1>7. ASSUME ByWildcard(x, c)
      PROVE  \E d \in 2..Len(y) : FirstDot(y, d) /\ SameTail(x, c, 2, d)
  <2>1. PICK d : After(c, d, t) /\ \A i \in 1..(d - 1) : c[i] # "."
    BY <1>7 DEF ByWildcard, t
  <2>2. /\ d \in 1..m /\ c[d] = "."
        /\ n - 2 = m - d /\ \A i \in 1..(n - 2) : t[i] = c[d + i]
    BY <1>5, <2>1
  <2>3. d # 1
    BY <1>3, <2>2
  <2>4. d \in 2..Len(y) /\ y[d] = "."
    BY <1>1, <1>3, <2>2, <2>3
  <2>5. ASSUME NEW i \in 2..(d - 1) PROVE y[i] # "."
    <3>1. i \in 1..(d - 1) /\ i \in 1..m
      BY <1>1, <2>2
    <3> QED
      BY <1>3, <2>1, <3>1
  <2>6. ASSUME NEW k \in 2..n PROVE x[k] = c[k + (d - 2)]
    <3>1. CASE k = 2
      <4>1. k + (d - 2) = d
        BY <2>2, <3>1
      <4> QED
        BY <2>2, <3>1, <4>1
    <3>2. CASE k # 2
      <4> DEFINE i == k - 2
      <4>1. i \in 1..(n - 2) /\ 2 + i = k /\ d + i = k + (d - 2)
        BY <1>1, <2>2, <3>2
      <4> HIDE DEF i
      <4> QED
        BY <1>2, <2>2, <4>1
    <3> QED
      BY <3>1, <3>2
  <2>7. SameTail(x, c, 2, d)
    BY <1>4, <2>2, <2>6
  <2>8. FirstDot(y, d)
    BY <2>4, <2>5 DEF FirstDot
  <2> QED
    BY <2>4, <2>7, <2>8
<1> QED
  BY <1>6, <1>7

\* The wildcard against a constraint that begins with a dot.
LEMMA WildcardAfterDot ==
    ASSUME NEW x \in Seq(Alphabet), NEW y \in Seq(Alphabet),
           Len(x) >= 3, x[2] = ".", Len(y) > 0, y[1] = "."
    PROVE  (\E d \in 2..Len(y) : FirstDot(y, d) /\ SameTail(x, y, 2, d))
               <=> ByWildcard(x, Rest(y, 1))
<1> DEFINE n == Len(x)
           m == Len(y)
           t == Rest(x, 2)
           c == Rest(y, 1)
<1>1. n \in Nat /\ n >= 3 /\ m \in Nat \ {0}
  OBVIOUS
<1>2. Len(t) = n - 2 /\ \A i \in 1..(n - 2) : t[i] = x[2 + i]
  <2>1. 2 \in 1..Len(x)
    BY <1>1
  <2>2. After(x, 2, t)
    BY <2>1, RestIsAfter
  <2> QED
    BY <2>2 DEF After
<1>3. Len(c) = m - 1 /\ \A i \in 1..(m - 1) : c[i] = y[1 + i]
  <2>1. 1 \in 1..Len(y)
    BY <1>1
  <2>2. After(y, 1, c)
    BY <2>1, RestIsAfter
  <2> QED
    BY <2>2 DEF After
<1>4. \A d : SameTail(x, y, 2, d) <=> n - 2 = m - d /\ \A k \in 2..n : x[k] = y[k + (d - 2)]
  BY DEF SameTail
<1>5. \A e : After(c, e, t) <=> /\ e \in 1..(m - 1) /\ c[e] = "."
                                /\ n - 2 = (m - 1) - e
                                /\ \A i \in 1..(n - 2) : t[i] = c[e + i]
  <2>1. \A e : After(c, e, t) <=> /\ e \in 1..Len(c) /\ c[e] = "."
                                  /\ Len(t) = Len(c) - e /\ \A i \in 1..Len(t) : t[i] = c[e + i]
    BY DEF After
  <2> HIDE DEF t, n, m, c
  <2> QED
    BY <1>2, <1>3, <2>1
<1> HIDE DEF n, m, t, c
<1>6. ASSUME NEW d \in 2..m, FirstDot(y, d), SameTail(x, y, 2, d)
      PROVE  ByWildcard(x, c)
  <2> DEFINE e == d - 1
  <2>1. n - 2 = m - d /\ \A k \in 2..n : x[k] = y[k + (d - 2)]
    BY <1>4, <1>6
  <2>2. e \in 1..(m - 1) /\ 1 + e = d /\ n - 2 = (m - 1) - e
    BY <1>1, <2>1
  <2>3. c[e] = "."
    <3> HIDE DEF e
    <3> QED
      BY <1>3, <1>6, <2>2 DEF FirstDot
  <2>4. ASSUME NEW i \in 1..(n - 2) PROVE t[i] = c[e + i]
    <3>1. /\ 2 + i \in 2..n /\ (2 + i) + (d - 2) = 1 + (e + i)
          /\ e + i \in 1..(m - 1)
      BY <1>1, <2>1, <2>2
    <3> HIDE DEF e
    <3>2. t[i] = x[2 + i] /\ x[2 + i] = y[1 + (e + i)] /\ c[e + i] = y[1 + (e + i)]
      BY <1>2, <1>3, <2>1, <3>1
    <3> QED
      BY <3>2
  <2>5. ASSUME NEW i \in 1..(e - 1) PROVE c[i] # "."
    <3>1. i \in 1..(m - 1) /\ 1 + i \in 2..(d - 1)
      BY <1>1, <2>2
    <3> QED
      BY <1>3, <1>6, <3>1 DEF FirstDot
  <2> HIDE DEF e
  <2>6. After(c, e, t)
    BY <1>5, <2>2, <2>3, <2>4
  <2> QED
    BY <2>5, <2>6 DEF ByWildcard, t
<1>7. ASSUME ByWildcard(x, c)
      PROVE  \E d \in 2..m : FirstDot(y, d) /\ SameTail(x, y, 2, d)
  <2>1. PICK e : After(c, e, t) /\ \A i \in 1..(e - 1) : c[i] # "."
    BY <1>7 DEF ByWildcard, t
  <2>2. /\ e \in 1..(m - 1) /\ c[e] = "."
        /\ n - 2 = (m - 1) - e /\ \A i \in 1..(n - 2) : t[i] = c[e + i]
    BY <1>5, <2>1
  <2> DEFINE d == 1 + e
  <2>3. d \in 2..m /\ n - 2 = m - d /\ e = d - 1
    BY <1>1, <2>2
  <2>4. y[d] = "."
    BY <1>3, <2>2
  <2> HIDE DEF d
  <2>5. ASSUME NEW i \in 2..(d - 1) PROVE y[i] # "."
    <3> DEFINE h == i - 1
    <3>1. h \in 1..(e - 1) /\ h \in 1..(m - 1) /\ 1 + h = i
      BY <1>1, <2>2, <2>3
    <3> HIDE DEF h
    <3> QED
      BY <1>3, <2>1, <3>1
  <2>6. ASSUME NEW k \in 2..n PROVE x[k] = y[k + (d - 2)]
    <3>1. CASE k = 2
      <4>1. k + (d - 2) = d
        BY <2>3, <3>1
      <4> QED
        BY <2>4, <3>1, <4>1
    <3>2. CASE k # 2
      <4> DEFINE i == k - 2
      <4>1. /\ i \in 1..(n - 2) /\ 2 + i = k /\ e + i \in 1..(m - 1)
            /\ 1 + (e + i) = k + (d - 2)
        BY <1>1, <2>2, <2>3, <3>2
      <4> HIDE DEF i
      <4>2. t[i] = x[2 + i] /\ t[i] = c[e + i] /\ c[e + i] = y[1 + (e + i)]
        BY <1>2, <1>3, <2>2, <4>1
      <4> QED
        BY <4>1, <4>2
    <3> QED
      BY <3>1, <3>2
  <2>7. SameTail(x, y, 2, d)
    BY <1>4, <2>3, <2>6
  <2>8. FirstDot(y, d)
    BY <2>4, <2>5 DEF FirstDot
  <2> QED
    BY <2>3, <2>7, <2>8
<1> QED
  BY <1>6, <1>7 DEF m, c

\* What is compared, and what is left of a name, in its role.
LEMMA CoreOf ==
    ASSUME NEW y \in Seq(Alphabet), Len(y) > 0,
           NEW id_role \in {"Reference", "NameConstraint"},
           id_role = "Reference" => y[1] # "."
    PROVE  LET c == Core(y, id_role)
           IN  /\ c \in Seq(Alphabet)
               /\ y[1] # "." => /\ c = Compared(y, id_role) /\ Len(c) <= Len(y) /\ Len(c) > 0
                                /\ \A i \in 1..Len(c) : c[i] = y[i]
               /\ y[1] = "." => c = Rest(y, 1) /\ Compared(y, id_role) = y
               /\ id_role = "NameConstraint" => /\ Compared(y, id_role) = y
                                                /\ y[1] # "." => c = y
<1> DEFINE c == Core(y, id_role)
           n == Len(y)
<1>1. c \in Seq(Alphabet)
  BY ProperIsCore
<1>2. CASE id_role = "Reference" /\ y[n] = "."
  <2>1. c = WithoutLast(y) /\ Compared(y, id_role) = c
    BY <1>2 DEF Core, Compared
  <2>2. Len(c) = n - 1 /\ \A i \in 1..(n - 1) : c[i] = y[i]
    BY <2>1, WithoutLastOf
  <2>3. n \in Nat /\ n # 1
    BY <1>2
  <2> HIDE DEF c, n
  <2>4. n > 1
    BY <2>3 DEF n
  <2>5. Len(c) <= n /\ Len(c) > 0
    BY <2>2, <2>3, <2>4
  <2> QED
    BY <1>1, <1>2, <2>1, <2>2, <2>5 DEF c, n
<1>3. CASE id_role = "NameConstraint" /\ y[1] = "."
  BY <1>1, <1>3 DEF Core, Compared
<1>4. CASE ~(id_role = "Reference" /\ y[n] = ".") /\ ~(id_role = "NameConstraint" /\ y[1] = ".")
  <2>1. c = y /\ Compared(y, id_role) = y /\ y[1] # "."
    BY <1>4 DEF Core, Compared
  <2> QED
    BY <1>1, <2>1
<1> QED
  BY <1>2, <1>3, <1>4

\* What the wildcard fits, in terms of the name in its role.
LEMMA WildByCore ==
    ASSUME NEW a \in Seq(Alphabet), NEW b \in Seq(Alphabet), Len(b) > 0,
           NEW id_role \in {"Reference", "NameConstraint"},
           PresentedFacts(a), ReferenceFacts(b, id_role), a[1] = "*"
    PROVE  WildFits(a, b, id_role) <=> ByWildcard(to_owned(a), Core(to_owned(b), id_role))
<1> DEFINE x == to_owned(a)
           y == to_owned(b)
           c == Core(y, id_role)
           z == Compared(y, id_role)
<1>1. /\ x \in Seq(Alphabet) /\ Len(x) = Len(a) /\ Len(a) \in Nat
      /\ \A i \in 1..Len(a) : x[i] = "." <=> a[i] = "."
  BY Owned
<1>2. /\ y \in Seq(Alphabet) /\ Len(y) = Len(b) /\ Len(b) \in Nat
      /\ \A i \in 1..Len(b) : y[i] = "." <=> b[i] = "."
  BY Owned
<1>3. Len(x) >= 3 /\ x[2] = "." /\ a[Len(a)] # "." /\ 2 \in 1..Len(a)
  BY <1>1 DEF PresentedFacts
<1>4. Len(y) > 0 /\ (id_role = "Reference" => y[1] # ".")
  <2>1. 1 \in 1..Len(b)
    BY <1>2
  <2> QED
    BY <1>2, <2>1 DEF ReferenceFacts
<1>5. ASSUME NEW d \in 2..Len(y) PROVE FirstDot(b, d) <=> FirstDot(y, d)
  <2>1. d \in 1..Len(b) /\ \A i \in 2..(d - 1) : i \in 1..Len(b)
    BY <1>2
  <2> HIDE DEF y
  <2> QED
    BY <1>2, <2>1 DEF FirstDot
<1>6. ASSUME NEW d \in 2..Len(y)
      PROVE  TailFits(a, b, id_role, 2, d) <=> SameTail(x, z, 2, d)
  <2>1. d \in Nat \ {0}
    BY <1>2
  <2> QED
    BY <1>3, <2>1, TailOfLower
<1> HIDE DEF x, y, c, z
<1>7. WildFits(a, b, id_role) <=> \E d \in 2..Len(y) : FirstDot(y, d) /\ SameTail(x, z, 2, d)
  BY <1>2, <1>5, <1>6 DEF WildFits
<1>8. CASE y[1] # "."
  <2>1. /\ c \in Seq(Alphabet) /\ c = z /\ Len(c) <= Len(y)
        /\ \A i \in 1..Len(c) : c[i] = y[i]
    BY <1>2, <1>4, <1>8, CoreOf DEF c, z
  <2>2. (\E d \in 2..Len(y) : FirstDot(y, d) /\ SameTail(x, c, 2, d)) <=> ByWildcard(x, c)
    BY <1>1, <1>2, <1>3, <1>4, <1>8, <2>1, WildcardAtStart
  <2> QED
    BY <1>7, <2>1, <2>2 DEF x, y, c
<1>9. CASE y[1] = "."
  <2>1. c = Rest(y, 1) /\ z = y
    BY <1>2, <1>4, <1>9, CoreOf DEF c, z
  <2>2. (\E d \in 2..Len(y) : FirstDot(y, d) /\ SameTail(x, y, 2, d)) <=> ByWildcard(x, Rest(y, 1))
    BY <1>1, <1>2, <1>3, <1>4, <1>9, WildcardAfterDot
  <2> QED
    BY <1>7, <2>1, <2>2 DEF x, y, c
<1> QED
  BY <1>8, <1>9

\* The wildcard stands for a character at least.
LEMMA WildcardIsLong ==
    ASSUME NEW x \in Seq(Alphabet), NEW c \in Seq(Alphabet), Len(x) >= 3, x[2] = ".",
           Len(c) > 0 => c[1] # ".", ByWildcard(x, c)
    PROVE  Len(c) >= Len(x)
<1> DEFINE t == Rest(x, 2)
<1>1. PICK d : After(c, d, t)
  BY DEF ByWildcard
<1>2. d \in 1..Len(c) /\ c[d] = "." /\ Len(t) = Len(c) - d /\ Len(c) \in Nat /\ Len(x) \in Nat
  BY <1>1 DEF After
<1>3. Len(t) = Len(x) - 2
  <2>1. 2 \in 1..Len(x)
    BY <1>2
  <2>2. After(x, 2, t)
    BY <2>1, RestIsAfter
  <2> QED
    BY <2>2 DEF After
<1>4. d # 1
  BY <1>2
<1> HIDE DEF t
<1> QED
  BY <1>2, <1>3, <1>4

-----------------------------------------------------------------------------
(* The outcome for valid names.                                            *)

\* The name begins with the wildcard, which stands for the first label of c.
Starred(x, c) == x[1] = "*" /\ ByWildcard(x, c)

\* What the code decides for a reference.
LEMMA FitsReference ==
    ASSUME NEW a \in Seq(Alphabet), NEW b \in Seq(Alphabet),
           PresentedFacts(a), ReferenceFacts(b, "Reference")
    PROVE  LET x == to_owned(a)
               c == Core(to_owned(b), "Reference")
           IN  Fits(a, b, "Reference") <=> x = c \/ Starred(x, c)
<1> DEFINE x == to_owned(a)
           y == to_owned(b)
           c == Core(y, "Reference")
<1>1. /\ x \in Seq(Alphabet) /\ Len(a) \in Nat /\ Len(a) >= 1 /\ 1 \in 1..Len(a)
      /\ a[Len(a)] # "." /\ (x[1] = "*" <=> a[1] = "*")
  <2>1. Len(a) >= 1 /\ Len(a) \in Nat /\ a[Len(a)] # "."
    BY DEF PresentedFacts
  <2>2. 1 \in 1..Len(a)
    BY <2>1
  <2> QED
    BY <2>1, <2>2, Owned
<1>2. /\ y \in Seq(Alphabet) /\ Len(y) = Len(b) /\ Len(b) > 0
      /\ y[1] # "." /\ y[1] # "*"
  <2>1. Len(b) >= 1 /\ Len(b) \in Nat /\ b[1] # "." /\ b[1] # "*"
    BY DEF ReferenceFacts
  <2>2. 1 \in 1..Len(b) /\ Len(b) > 0
    BY <2>1
  <2> QED
    BY <2>1, <2>2, Owned
<1>3. /\ c \in Seq(Alphabet) /\ c = Compared(y, "Reference") /\ Len(c) > 0
      /\ \A i \in 1..Len(c) : c[i] = y[i]
  <2> HIDE DEF y
  <2> QED
    BY <1>2, CoreOf
<1>4. c[1] # "*"
  <2>1. 1 \in 1..Len(c)
    BY <1>3
  <2> QED
    BY <1>2, <1>3, <2>1
<1>5. Fits(a, b, "Reference") <=> FitsFrom(a, b, "Reference", 1)
  BY DEF Fits
<1>6. CASE a[1] = "*"
  <2>1. FitsFrom(a, b, "Reference", 1) <=> ByWildcard(x, c)
    BY <1>2, <1>6, WildByCore DEF FitsFrom
  <2> HIDE DEF x, y, c
  <2>2. x # c
    BY <1>1, <1>4, <1>6
  <2> QED
    BY <1>1, <1>5, <1>6, <2>1, <2>2 DEF Starred, x, y, c
<1>7. CASE a[1] # "*"
  <2>1. FitsFrom(a, b, "Reference", 1) <=> TailFits(a, b, "Reference", 1, 1)
    BY <1>7 DEF FitsFrom
  <2>2. TailFits(a, b, "Reference", 1, 1) <=> SameTail(x, Compared(y, "Reference"), 1, 1)
    BY <1>1, <1>2, TailOfLower
  <2> HIDE DEF x, y, c
  <2>3. SameTail(x, c, 1, 1) <=> x = c
    BY <1>1, <1>3, WholeTail
  <2> QED
    BY <1>1, <1>3, <1>5, <1>7, <2>1, <2>2, <2>3 DEF Starred, x, y, c
<1> QED
  BY <1>6, <1>7

\* What the code decides for a constraint.
LEMMA FitsConstraint ==
    ASSUME NEW a \in Seq(Alphabet), NEW b \in Seq(Alphabet), Len(b) > 0,
           PresentedFacts(a), ReferenceFacts(b, "NameConstraint")
    PROVE  LET x == to_owned(a)
               c == Core(to_owned(b), "NameConstraint")
           IN  Fits(a, b, "NameConstraint") <=>
                   \/ After(x, Len(x) - Len(c), c)
                   \/ b[1] # "." /\ x = c
                   \/ Starred(x, c)
<1> DEFINE x == to_owned(a)
           y == to_owned(b)
           c == Core(y, "NameConstraint")
           n == Len(a)
           m == Len(b)
           longer == n - m
           below == After(x, Len(x) - Len(c), c)
<1>1. /\ x \in Seq(Alphabet) /\ Len(x) = n /\ n \in Nat /\ n >= 1 /\ 1 \in 1..n
      /\ a[n] # "." /\ (x[1] = "*" <=> a[1] = "*") /\ x[1] # "."
      /\ \A i \in 1..n : x[i] = "." <=> a[i] = "."
  <2>1. n >= 1 /\ n \in Nat /\ a[n] # "." /\ a[1] # "."
    BY DEF PresentedFacts
  <2>2. 1 \in 1..n
    BY <2>1
  <2> QED
    BY <2>1, <2>2, Owned
<1>2. a[1] = "*" => n >= 3 /\ x[2] = "."
  <2>1. a[1] = "*" => n >= 3 /\ a[2] = "." /\ 2 \in 1..n
    BY <1>1 DEF PresentedFacts
  <2> QED
    BY <1>1, <2>1
<1>3. /\ y \in Seq(Alphabet) /\ Len(y) = m /\ m \in Nat /\ m > 0 /\ 1 \in 1..m
      /\ y[1] # "*" /\ (y[1] = "." <=> b[1] = ".")
      /\ y[1] = "." => m >= 2 /\ y[2] # "."
  <2>1. m \in Nat /\ m > 0 /\ b[1] # "*" /\ (b[1] = "." => m >= 2 /\ b[2] # ".")
    BY DEF ReferenceFacts
  <2>2. 1 \in 1..m /\ (b[1] = "." => 2 \in 1..m)
    BY <2>1
  <2> QED
    BY <2>1, <2>2, Owned
<1>4. /\ c \in Seq(Alphabet) /\ Compared(y, "NameConstraint") = y
      /\ y[1] # "." => c = y
      /\ y[1] = "." => c = Rest(y, 1)
  <2> HIDE DEF y, m
  <2> QED
    BY <1>3, CoreOf
<1>5. y[1] = "." => Len(c) = m - 1 /\ Len(c) > 0 /\ c[1] = y[2]
  <2> SUFFICES ASSUME y[1] = "." PROVE Len(c) = m - 1 /\ Len(c) > 0 /\ c[1] = y[2]
    OBVIOUS
  <2> HIDE DEF y, m, c
  <2>1. After(y, 1, Rest(y, 1)) /\ c = Rest(y, 1)
    BY <1>3, <1>4, RestIsAfter
  <2>2. Len(c) = m - 1 /\ \A i \in 1..Len(c) : c[i] = y[1 + i]
    BY <1>3, <2>1 DEF After
  <2>3. Len(c) > 0 /\ 1 \in 1..Len(c) /\ 1 + 1 = 2
    BY <1>3, <2>2
  <2> QED
    BY <2>2, <2>3
<1>6. ASSUME NEW i \in 1..n
      PROVE  TailFits(a, b, "NameConstraint", i, 1) <=> SameTail(x, y, i, 1)
  <2>1. 1 \in Nat \ {0} /\ a[Len(a)] # "."
    BY <1>1
  <2> QED
    BY <1>4, <2>1, TailOfLower
<1>7. ASSUME a[1] = "*", ByWildcard(x, c) PROVE Len(c) >= n
  <2>1. Len(c) > 0 => c[1] # "."
    BY <1>3, <1>4, <1>5
  <2> HIDE DEF x, c, n
  <2> QED
    BY <1>1, <1>2, <1>4, <1>7, <2>1, WildcardIsLong
<1>8. Len(c) \in Nat /\ Len(c) <= m
  <2>1. Len(c) \in Nat
    BY <1>4
  <2> HIDE DEF m, c, y
  <2> QED
    BY <1>3, <1>4, <1>5, <2>1
<1>9. CASE longer <= 0
  <2>1. Fits(a, b, "NameConstraint") <=> FitsFrom(a, b, "NameConstraint", 1)
    BY <1>9 DEF Fits
  <2>2. ~below
    <3> SUFFICES ASSUME below PROVE FALSE
      OBVIOUS
    <3>1. Len(x) - Len(c) \in 1..Len(x) /\ x[Len(x) - Len(c)] = "."
      BY DEF After
    <3>2. Len(x) - Len(c) = 1
      <4> HIDE DEF x, c, n, m, y
      <4> QED
        BY <1>1, <1>3, <1>4, <1>5, <1>8, <1>9, <3>1
    <3> HIDE DEF x, c
    <3> QED
      BY <1>1, <3>1, <3>2
  <2>3. CASE a[1] = "*"
    <3>1. FitsFrom(a, b, "NameConstraint", 1) <=> ByWildcard(x, c)
      BY <2>3, WildByCore DEF FitsFrom
    <3> HIDE DEF x, y, c, n, m, below
    <3>2. ~(b[1] # "." /\ x = c)
      BY <1>1, <1>3, <1>4, <2>3
    <3> QED
      BY <1>1, <2>1, <2>2, <2>3, <3>1, <3>2 DEF Starred, x, y, c, below
  <2>4. CASE a[1] # "*"
    <3>1. FitsFrom(a, b, "NameConstraint", 1) <=> TailFits(a, b, "NameConstraint", 1, 1)
      BY <2>4 DEF FitsFrom
    <3>2. TailFits(a, b, "NameConstraint", 1, 1) <=> SameTail(x, y, 1, 1)
      BY <1>1, <1>6
    <3> HIDE DEF x, y, c, n, m, below
    <3>3. SameTail(x, y, 1, 1) <=> x = y
      BY <1>1, <1>3, WholeTail
    <3>4. x = y <=> b[1] # "." /\ x = c
      BY <1>1, <1>3, <1>4
    <3>5. ~Starred(x, c)
      BY <1>1, <2>4 DEF Starred
    <3> QED
      BY <2>1, <2>2, <3>1, <3>2, <3>3, <3>4, <3>5 DEF x, y, c, below
  <2> QED
    BY <2>3, <2>4
<1>10. CASE ~(longer <= 0)
  <2>1. longer \in Nat /\ longer > 0 /\ longer + 1 \in 1..n /\ longer \in 1..n /\ b # << >>
    <3>1. b # << >>
      BY <1>3, EmptySeq
    <3> HIDE DEF n, m
    <3> QED
      BY <1>1, <1>3, <1>10, <3>1
  <2>2. Fits(a, b, "NameConstraint") <=>
            IF b[1] = "." THEN TailFits(a, b, "NameConstraint", longer + 1, 1)
            ELSE a[longer] = "." /\ TailFits(a, b, "NameConstraint", longer + 1, 1)
    BY <1>10, <2>1 DEF Fits
  <2>3. TailFits(a, b, "NameConstraint", longer + 1, 1) <=> SameTail(x, y, longer + 1, 1)
    <3> HIDE DEF longer
    <3> QED
      BY <1>6, <2>1
  <2>4. ~Starred(x, c) /\ x # c
    <3>1. Len(c) < n
      <4> HIDE DEF c, n, m
      <4> QED
        BY <1>1, <1>3, <1>8, <2>1
    <3> HIDE DEF x, y, c
    <3>2. x # c
      BY <1>1, <1>8, <3>1
    <3>3. ~(Len(c) >= n)
      BY <1>1, <1>8, <3>1
    <3>4. ~Starred(x, c)
      BY <1>1, <1>7, <3>3 DEF Starred
    <3> QED
      BY <3>2, <3>4
  <2>5. CASE b[1] = "."
    <3>1. SameTail(x, y, longer + 1, 1) <=> After(x, Len(x) - Len(Rest(y, 1)), Rest(y, 1))
      <4>1. Len(x) - Len(y) = longer /\ longer > 0 /\ Len(y) > 0 /\ y[1] = "."
        BY <1>1, <1>3, <2>1, <2>5
      <4> HIDE DEF x, y, longer
      <4>2. SameTail(x, y, (Len(x) - Len(y)) + 1, 1)
                <=> After(x, Len(x) - Len(Rest(y, 1)), Rest(y, 1))
        BY <1>1, <1>3, <4>1, TailAtDot
      <4> QED
        BY <4>1, <4>2
    <3>2. c = Rest(y, 1)
      BY <1>3, <1>4, <2>5
    <3> HIDE DEF x, y, c, longer
    <3>3. SameTail(x, y, longer + 1, 1) <=> below
      BY <3>1, <3>2
    <3> HIDE DEF below
    <3> QED
      BY <2>2, <2>3, <2>4, <2>5, <3>3 DEF x, y, c, below
  <2>6. CASE b[1] # "."
    <3>1. x[longer] = "." /\ SameTail(x, y, longer + 1, 1) <=> After(x, longer, y)
      <4>1. Len(x) - Len(y) = longer /\ longer > 0 /\ Len(y) > 0
        BY <1>1, <1>3, <2>1
      <4> HIDE DEF x, y, longer
      <4>2. x[Len(x) - Len(y)] = "." /\ SameTail(x, y, (Len(x) - Len(y)) + 1, 1)
                <=> After(x, Len(x) - Len(y), y)
        BY <1>1, <1>3, <4>1, TailAfterDot
      <4> QED
        BY <4>1, <4>2
    <3>2. c = y /\ Len(x) - Len(c) = longer
      BY <1>1, <1>3, <1>4, <2>6
    <3>3. x[longer] = "." <=> a[longer] = "."
      <4> HIDE DEF longer, x
      <4> QED
        BY <1>1, <2>1
    <3> HIDE DEF x, y, c, longer
    <3>4. a[longer] = "." /\ SameTail(x, y, longer + 1, 1) <=> below
      BY <3>1, <3>2, <3>3
    <3> HIDE DEF below
    <3> QED
      BY <2>2, <2>3, <2>4, <2>6, <3>4 DEF x, y, c, below
  <2> QED
    BY <2>5, <2>6
<1> QED
  BY <1>9, <1>10

-----------------------------------------------------------------------------
(* The outcome for valid names, in labels.                                 *)

\* The same in labels, as Names states it.
LEMMA StarredLabels ==
    ASSUME NEW x \in Seq(Alphabet), NEW c \in Seq(Alphabet), Len(x) >= 1, x[1] # ".",
           x[1] = "*" => Len(x) >= 3 /\ x[2] = "."
    PROVE  LET n == Len(Labels(x))
           IN  (/\ n = Len(Labels(c)) /\ n > 0
                /\ Labels(x)[1] = << "*" >>
                /\ ByLabels!LastLabels(Labels(x), n - 1) = ByLabels!LastLabels(Labels(c), n - 1))
               <=> Starred(x, c)
<1> DEFINE lx == Labels(x)
           lc == Labels(c)
           n == Len(lx)
           last == ByLabels!LastLabels(lx, n - 1) = ByLabels!LastLabels(lc, n - 1)
<1>1. CASE x[1] = "*"
  <2>1. Len(x) >= 2
    BY <1>1
  <2>2. lx[1] = << x[1] >> /\ (n = Len(lc) /\ n > 0 /\ last <=> ByWildcard(x, c))
    BY <1>1, <2>1, WildcardLabels
  <2> HIDE DEF lx, n, last, lc
  <2> QED
    BY <1>1, <2>2 DEF Starred, lx, n, last, lc
<1>2. CASE x[1] # "*"
  <2>1. PICK g : LabelsUpTo(x, g)
    BY LabelsOf
  <2>2. Len(x) \in 0..Len(x) /\ Len(x) > 0 /\ g[Len(x)] = lx
    BY <2>1 DEF LabelsUpTo
  <2>3. FirstLabelFits(x, Len(x), lx)
    BY <2>1, <2>2, FirstLabel
  <2>4. lx[1][1] = x[1]
    BY <2>2, <2>3 DEF FirstLabelFits
  <2>5. lx[1] # << "*" >>
    BY <1>2, <2>4
  <2> HIDE DEF lx
  <2> QED
    BY <1>2, <2>5 DEF Starred, lx
<1> QED
  BY <1>1, <1>2

\* The view of a presented name and of what it is compared with.
LEMMA ViewOf ==
    ASSUME NEW a \in Seq(Alphabet), NEW id_role \in {"Presented", "Reference", "NameConstraint"}
    PROVE  /\ View(a, id_role).valid <=> is_valid_dns_id(a, id_role, id_role = "Presented")
           /\ a = << >> => View(a, id_role).labels = << >>
           /\ a # << >> => View(a, id_role).labels = Labels(Core(to_owned(a), id_role))
           /\ View(a, id_role).leading_dot <=> peek(a, 1, ".")
<1>1. (id_role = "Presented") \in BOOLEAN
  OBVIOUS
<1>2. View(a, id_role).valid <=> is_valid_dns_id(a, id_role, id_role = "Presented")
  <2>1. View(a, id_role).valid <=> ValidByLabels(a, id_role, id_role = "Presented")
    BY DEF View
  <2> QED
    BY <1>1, <2>1, ValidityOfName
<1>3. ASSUME a # << >> PROVE View(a, id_role).labels = Labels(Core(to_owned(a), id_role))
  <2>1. View(a, id_role).labels = Proper(to_owned(a), id_role, FALSE)
    BY <1>3 DEF View, NameOf
  <2>2. to_owned(a) \in Seq(Alphabet) /\ Len(to_owned(a)) > 0
    <3>1. Len(a) \in Nat /\ Len(a) # 0
      BY <1>3, EmptySeq
    <3>2. Len(to_owned(a)) = Len(a) /\ to_owned(a) \in Seq(Alphabet)
      BY Owned
    <3> QED
      BY <3>1, <3>2
  <2> QED
    BY <2>1, <2>2, ProperIsCore
<1> QED
  BY <1>2, <1>3 DEF View

\* A valid presented name is valid in labels, and the labels are all of it.
LEMMA PresentedView ==
    ASSUME NEW a \in Seq(Alphabet), is_valid_dns_id(a, "Presented", TRUE)
    PROVE  LET x == to_owned(a)
           IN  /\ View(a, "Presented").valid /\ View(a, "Presented").labels = Labels(x)
               /\ x \in Seq(Alphabet) /\ Len(x) >= 1 /\ x[1] # "."
               /\ x[1] = "*" => Len(x) >= 3 /\ x[2] = "."
<1> DEFINE x == to_owned(a)
<1>1. PresentedFacts(a)
  BY PresentedShape
<1>2. /\ x \in Seq(Alphabet) /\ Len(x) = Len(a) /\ Len(a) \in Nat
      /\ \A i \in 1..Len(a) : (x[i] = "." <=> a[i] = ".") /\ (x[i] = "*" <=> a[i] = "*")
  BY Owned
<1>3. Len(a) >= 1 /\ a[1] # "." /\ (a[1] = "*" => Len(a) >= 3 /\ a[2] = ".")
  BY <1>1 DEF PresentedFacts
<1>4. 1 \in 1..Len(a) /\ (a[1] = "*" => 2 \in 1..Len(a)) /\ a # << >>
  BY <1>2, <1>3, EmptySeq
<1>5. Core(x, "Presented") = x
  BY DEF Core
<1>6. ("Presented" = "Presented") = TRUE
  OBVIOUS
<1>7. View(a, "Presented").valid /\ View(a, "Presented").labels = Labels(x)
  BY <1>4, <1>5, <1>6, ViewOf
<1> HIDE DEF x
<1>8. /\ Len(x) >= 1 /\ x[1] # "."
      /\ x[1] = "*" => Len(x) >= 3 /\ x[2] = "."
  BY <1>2, <1>3, <1>4
<1> QED
  BY <1>2, <1>7, <1>8 DEF x

\* Names are equal exactly if their labels are.
LEMMA SameNames ==
    ASSUME NEW x \in Seq(Alphabet), NEW c \in Seq(Alphabet)
    PROVE  Labels(x) = Labels(c) <=> x = c
  BY LabelsAreTheName

\* Names decides for a reference as the code does.
LEMMA MatchesReference ==
    ASSUME NEW a \in Seq(Alphabet), NEW b \in Seq(Alphabet),
           ValidPair(a, b, "Reference"), NEW v \in BOOLEAN, v <=> Fits(a, b, "Reference")
    PROVE  ByLabels!dns_matches_reference(View(a, "Presented"), View(b, "Reference")) = Ok(v)
<1> DEFINE x == to_owned(a)
           c == Core(to_owned(b), "Reference")
           lx == Labels(x)
           va == View(a, "Presented")
           vb == View(b, "Reference")
           lc == vb.labels
           n == Len(lx)
           wild == /\ n = Len(lc) /\ n > 0
                   /\ lx[1] = << "*" >>
                   /\ ByLabels!LastLabels(lx, n - 1) = ByLabels!LastLabels(lc, n - 1)
           e == lx = lc \/ wild
<1>1. /\ va.valid /\ va.labels = lx
      /\ x \in Seq(Alphabet) /\ Len(x) >= 1 /\ x[1] # "."
      /\ x[1] = "*" => Len(x) >= 3 /\ x[2] = "."
  BY PresentedView DEF ValidPair
<1>2. PresentedFacts(a) /\ ReferenceFacts(b, "Reference")
  BY PresentedShape, ReferenceShape DEF ValidPair
<1>3. b # << >> /\ Len(b) > 0
  <2>1. Len(b) >= 1 /\ Len(b) \in Nat
    BY <1>2 DEF ReferenceFacts
  <2> QED
    BY <2>1, EmptySeq
<1>4. lc = Labels(c)
  BY <1>3, ViewOf
<1>5. c \in Seq(Alphabet)
  <2>1. to_owned(b) \in Seq(Alphabet) /\ Len(to_owned(b)) > 0
    BY <1>3, Owned
  <2> QED
    BY <2>1, ProperIsCore
<1>6. ByLabels!dns_matches_reference(va, vb) = Ok(e)
  <2> HIDE DEF va, vb, lx
  <2> QED
    BY <1>1 DEF ByLabels!dns_matches_reference, ByLabels!Ok, Ok
<1>7. Fits(a, b, "Reference") <=> x = c \/ Starred(x, c)
  BY <1>2, FitsReference
<1>8. wild <=> Starred(x, c)
  <2> HIDE DEF x, c, lc
  <2> QED
    BY <1>1, <1>4, <1>5, StarredLabels
<1>9. lx = lc <=> x = c
  <2> HIDE DEF x, c, lc
  <2> QED
    BY <1>1, <1>4, <1>5, SameNames
<1>10. e <=> v
  BY <1>7, <1>8, <1>9
<1>11. e \in BOOLEAN
  OBVIOUS
<1> HIDE DEF e
<1>12. e = v
  BY <1>10, <1>11
<1> QED
  BY <1>6, <1>12

\* Names decides for a constraint as the code does.
LEMMA MatchesConstraint ==
    ASSUME NEW a \in Seq(Alphabet), NEW b \in Seq(Alphabet),
           ValidPair(a, b, "NameConstraint"), NEW v \in BOOLEAN,
           v <=> Fits(a, b, "NameConstraint")
    PROVE  ByLabels!dns_matches_constraint(View(a, "Presented"), View(b, "NameConstraint"))
               = Ok(v)
<1> DEFINE x == to_owned(a)
           lx == Labels(x)
           n == Len(lx)
           va == View(a, "Presented")
           vb == View(b, "NameConstraint")
           lb == vb.labels
           m == Len(lb)
           below == n > m /\ ByLabels!LastLabels(lx, m) = lb
           equal == ~vb.leading_dot /\ lx = lb
           wild == /\ n = m /\ n > 0
                   /\ lx[1] = << "*" >>
                   /\ ByLabels!LastLabels(lx, n - 1) = ByLabels!LastLabels(lb, n - 1)
           e == below \/ equal \/ wild
<1>1. /\ va.valid /\ va.labels = lx
      /\ x \in Seq(Alphabet) /\ Len(x) >= 1 /\ x[1] # "."
      /\ x[1] = "*" => Len(x) >= 3 /\ x[2] = "."
  BY PresentedView DEF ValidPair
<1>2. PresentedFacts(a) /\ ReferenceFacts(b, "NameConstraint")
  BY PresentedShape, ReferenceShape DEF ValidPair
<1>3. /\ vb.valid /\ (vb.leading_dot <=> peek(b, 1, "."))
      /\ b = << >> => lb = << >>
      /\ b # << >> => lb = Labels(Core(to_owned(b), "NameConstraint"))
  <2>1. ("NameConstraint" = "Presented") = FALSE
    OBVIOUS
  <2> QED
    BY <2>1, ViewOf DEF ValidPair
<1>4. ByLabels!dns_matches_constraint(va, vb) = Ok(e)
  <2> HIDE DEF va, vb, lx
  <2> QED
    BY <1>1, <1>3 DEF ByLabels!dns_matches_constraint, ByLabels!Ok, Ok
<1>5. e <=> v
  <2>1. CASE b = << >>
    <3>1. Len(b) = 0 /\ Len(a) \in Nat /\ Len(a) >= 1 /\ Len(a) - Len(b) > 0
      BY <1>2, <2>1, EmptySeq DEF PresentedFacts
    <3>2. v
      <4>1. ~("NameConstraint" = "Reference" \/ Len(a) - Len(b) <= 0)
        BY <3>1
      <4> QED
        BY <2>1, <4>1 DEF Fits
    <3>3. lb = << >> /\ m = 0
      BY <1>3, <2>1
    <3>4. n \in Nat \ {0}
      <4> HIDE DEF x
      <4> QED
        BY <1>1, LabelsOf
    <3>5. ByLabels!LastLabels(lx, 0) = << >>
      <4>1. ByLabels!LastLabels(lx, 0) = [i \in 1..0 |-> lx[Len(lx) - 0 + i]]
        BY DEF ByLabels!LastLabels
      <4>2. 1..0 = {}
        OBVIOUS
      <4> QED
        BY <4>1, <4>2
    <3> HIDE DEF lx, lb, n
    <3>6. below
      BY <3>3, <3>4, <3>5
    <3> QED
      BY <3>2, <3>6
  <2>2. CASE b # << >>
    <3> DEFINE c == Core(to_owned(b), "NameConstraint")
    <3>1. Len(b) > 0
      BY <2>2, EmptySeq
    <3>2. c \in Seq(Alphabet) /\ lb = Labels(c)
      <4>1. to_owned(b) \in Seq(Alphabet) /\ Len(to_owned(b)) > 0
        BY <3>1, Owned
      <4> QED
        BY <1>3, <2>2, <4>1, ProperIsCore
    <3>3. Fits(a, b, "NameConstraint") <=>
              \/ After(x, Len(x) - Len(c), c)
              \/ b[1] # "." /\ x = c
              \/ Starred(x, c)
      BY <1>2, <3>1, FitsConstraint
    <3>4. vb.leading_dot <=> b[1] = "."
      <4>1. 1 <= Len(b)
        BY <3>1
      <4> QED
        BY <1>3, <4>1 DEF peek
    <3> HIDE DEF x, c, lb, vb
    <3>5. below <=> After(x, Len(x) - Len(c), c)
      BY <1>1, <3>2, LabelsBelow
    <3>6. lx = lb <=> x = c
      BY <1>1, <3>2, SameNames
    <3>7. wild <=> Starred(x, c)
      BY <1>1, <3>2, StarredLabels
    <3> HIDE DEF below, wild, lx
    <3> QED
      BY <3>3, <3>4, <3>5, <3>6, <3>7
  <2> QED
    BY <2>1, <2>2
<1>6. e \in BOOLEAN
  OBVIOUS
<1> HIDE DEF e
<1>7. e = v
  BY <1>5, <1>6
<1> QED
  BY <1>4, <1>7

\* A result, valid names or not.
LEMMA AnsweredByLabels ==
    ASSUME NEW a \in Seq(Alphabet), NEW b \in Seq(Alphabet),
           NEW id_role \in {"Reference", "NameConstraint"}, NEW value,
           id_role = "Reference" => is_dns_name(b), Answered(a, b, id_role, value)
    PROVE  value = IF id_role = "NameConstraint"
                   THEN ByLabels!dns_matches_constraint(View(a, "Presented"), View(b, id_role))
                   ELSE ByLabels!dns_matches_reference(View(a, "Presented"), View(b, id_role))
<1> DEFINE va == View(a, "Presented")
           vb == View(b, id_role)
<1>1. /\ ("Presented" = "Presented") = TRUE
      /\ (id_role = "Presented") = FALSE
  OBVIOUS
<1>2. va.valid <=> is_valid_dns_id(a, "Presented", TRUE)
  BY <1>1, ViewOf
<1>3. vb.valid <=> is_valid_dns_id(b, id_role, FALSE)
  BY <1>1, ViewOf
<1>4. CASE ~is_valid_dns_id(a, "Presented", TRUE)
  <2>1. value = Err("MalformedDnsIdentifier") /\ ~va.valid
    BY <1>2, <1>4 DEF Answered
  <2> HIDE DEF va, vb
  <2>2. /\ ByLabels!dns_matches_constraint(va, vb) = Err("MalformedDnsIdentifier")
        /\ ByLabels!dns_matches_reference(va, vb) = Err("MalformedDnsIdentifier")
    BY <2>1 DEF ByLabels!dns_matches_constraint, ByLabels!dns_matches_reference,
                ByLabels!Err, Err
  <2> QED
    BY <2>1, <2>2 DEF va, vb
<1>5. CASE is_valid_dns_id(a, "Presented", TRUE) /\ ~is_valid_dns_id(b, id_role, FALSE)
  <2>1. /\ id_role = "NameConstraint" /\ value = Err("MalformedNameConstraint")
        /\ va.valid /\ ~vb.valid
    BY <1>2, <1>3, <1>5 DEF Answered
  <2> HIDE DEF va, vb
  <2>2. ByLabels!dns_matches_constraint(va, vb) = Err("MalformedNameConstraint")
    BY <2>1 DEF ByLabels!dns_matches_constraint, ByLabels!Err, Err
  <2> QED
    BY <2>1, <2>2 DEF va, vb
<1>6. CASE ValidPair(a, b, id_role)
  <2>1. PICK v \in BOOLEAN : value = Ok(v) /\ (v <=> Fits(a, b, id_role))
    BY <1>6 DEF Answered
  <2>2. CASE id_role = "Reference"
    BY <1>6, <2>1, <2>2, MatchesReference
  <2>3. CASE id_role = "NameConstraint"
    BY <1>6, <2>1, <2>3, MatchesConstraint
  <2> QED
    BY <2>2, <2>3
<1> QED
  BY <1>4, <1>5, <1>6 DEF ValidPair

\* ComputesLabelMatching: the comparison of a presented name with a reference or a
\* constraint, character by character with its skipped prefix, expanded wildcard and final
\* dot, gives what the comparison of labels gives, for names of any length; no assertion of
\* the code fails.
THEOREM MatchingTheorem == Spec => []ComputesLabelMatching
<1>1. Init => Reading /\ Matching
  BY MatchingInit
<1>2. Reading /\ [Next]_vars => Reading'
  BY ReadingNext
<1>3. Reading /\ Matching /\ [Next]_vars => Matching'
  BY MatchingNext
<1>4. Matching => ComputesLabelMatching
  <2> SUFFICES ASSUME Matching, pc = "done"
               PROVE  matches = IF role = "NameConstraint"
                      THEN ByLabels!dns_matches_constraint(View(presented, "Presented"),
                                                           View(reference, role))
                      ELSE ByLabels!dns_matches_reference(View(presented, "Presented"),
                                                          View(reference, role))
    BY DEF ComputesLabelMatching
  <2>1. /\ presented \in Seq(Alphabet) /\ reference \in Seq(Alphabet)
        /\ role \in {"Reference", "NameConstraint"}
        /\ role = "Reference" => is_dns_name(reference)
        /\ Answered(presented, reference, role, matches)
    BY DEF Matching, MatchState
  <2> QED
    BY <2>1, AnsweredByLabels
<1> QED
  BY <1>1, <1>2, <1>3, <1>4, PTL DEF Spec
=============================================================================
