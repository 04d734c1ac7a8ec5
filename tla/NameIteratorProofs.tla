------------------------- MODULE NameIteratorProofs -------------------------
(***************************************************************************)
(* The searches over the names of a certificate, for any number of         *)
(* alternative names and of subtrees.                                      *)
(*                                                                         *)
(* NameIterator consumes the alternative names from the left, then the     *)
(* subject, then its common name.  The invariant says of a search that is  *)
(* still going on which names it has passed, and of one that is over which *)
(* name ended it, all names before it having been passed.                  *)
(***************************************************************************)
EXTENDS SubjectNames, CheckProofs

Full == Alternatives(query.cert)
Left == IF IsSome(subject_alt_name) THEN The(subject_alt_name) ELSE << >>

\* The alternative names that were consumed.
Taken == Len(Full) - Len(Left)

SubjectName == [type |-> "DirectoryName", value |-> query.cert.subject]
CommonNameDns == [type |-> "DnsName", value |-> The(query.cert.common_name.value)]

ConsidersCommonName == considers_subject(query) /\ considers_common_name(query)

\* The search goes on after the i-th alternative name.
Passed(i) == Full[i].result = "Ok" /\ visit(query, Full[i].value) = "pending"

AllPassed == \A i \in 1..Len(Full) : Passed(i)

SubjectPassed == considers_subject(query) => visit(query, SubjectName) = "pending"

CommonNamePassed ==
    ConsidersCommonName =>
        /\ query.cert.common_name.result = "Ok"
        /\ IsSome(query.cert.common_name.value) => visit(query, CommonNameDns) = "pending"

-----------------------------------------------------------------------------
(* The invariant.                                                          *)

LeftIsSuffix ==
    /\ Left \in Seq({Full[i] : i \in 1..Len(Full)}) /\ Len(Left) <= Len(Full)
    /\ \A i \in 1..Len(Left) : Left[i] = Full[Taken + i]

GoingOn ==
    /\ LeftIsSuffix
    /\ \A i \in 1..Taken : Passed(i)
    /\ subject_directory_name => considers_subject(query)
    /\ subject_common_name => ConsidersCommonName
    /\ ~subject_directory_name /\ considers_subject(query) => Left = << >> /\ SubjectPassed
    /\ ~subject_common_name /\ ConsidersCommonName =>
           Left = << >> /\ ~subject_directory_name /\ CommonNamePassed

EndedByAlternativeName ==
    \E i \in 1..Len(Full) :
        /\ \A j \in 1..(i - 1) : Passed(j)
        /\ result = (Full[i].result ?? visit(query, Full[i].value))

EndedBySubject ==
    AllPassed /\ considers_subject(query) /\ result = visit(query, SubjectName)

EndedByCommonName ==
    /\ AllPassed /\ SubjectPassed /\ ConsidersCommonName
    /\ query.cert.common_name.result = "Ok" => IsSome(query.cert.common_name.value)
    /\ result = (query.cert.common_name.result ?? visit(query, CommonNameDns))

EndedWithoutMatch ==
    /\ Left = << >> /\ AllPassed /\ SubjectPassed /\ CommonNamePassed
    /\ result = IF query.kind \in {"dns", "ip"} THEN "CertNotValidForName" ELSE "Ok"

SearchInv ==
    /\ query \in Queries
    /\ IF result = "pending" THEN GoingOn
       ELSE \/ EndedByAlternativeName \/ EndedBySubject \/ EndedByCommonName
            \/ EndedWithoutMatch

-----------------------------------------------------------------------------
LEMMA SearchInitially == Init => SearchInv
<1> SUFFICES ASSUME Init PROVE SearchInv
  OBVIOUS
<1>1. query \in Queries /\ AllResults(Full) /\ IsSeq(Full)
  BY QueriesAssumption DEF Init, QueryWellFormed, Full
<1>2. Left = Full
  BY DEF Init, Left, Full, Alternatives
<1>3. Full \in Seq({Full[i] : i \in 1..Len(Full)}) /\ Len(Full) \in Nat
  BY <1>1 DEF IsSeq, AllResults
<1>4. Taken = 0 /\ LeftIsSuffix
  BY <1>2, <1>3 DEF Taken, LeftIsSuffix
<1>5. 1..Taken = {}
  BY <1>4
<1> QED
  BY <1>1, <1>4, <1>5 DEF Init, SearchInv, GoingOn, ConsidersCommonName

\* Whatever a step does to the iterator, the call stays the same.
LEMMA QueryUnchanged ==
    ASSUME query' = query
    PROVE  /\ Full' = Full
           /\ \A i : Passed(i)' <=> Passed(i)
           /\ AllPassed' <=> AllPassed
           /\ SubjectPassed' <=> SubjectPassed
           /\ CommonNamePassed' <=> CommonNamePassed
           /\ ConsidersCommonName' <=> ConsidersCommonName
           /\ SubjectName' = SubjectName
           /\ CommonNameDns' = CommonNameDns
<1>1. Full' = Full /\ SubjectName' = SubjectName /\ CommonNameDns' = CommonNameDns
  BY DEF Full, SubjectName, CommonNameDns
<1>2. \A i : Passed(i)' <=> Passed(i)
  BY <1>1 DEF Passed
<1>3. ConsidersCommonName' <=> ConsidersCommonName
  BY DEF ConsidersCommonName
<1> QED
  BY <1>1, <1>2, <1>3 DEF AllPassed, SubjectPassed, CommonNamePassed

\* What is known of a search that goes on, with the sizes.
LEMMA GoingOnFacts ==
    ASSUME SearchInv, result = "pending"
    PROVE  /\ GoingOn /\ QueryWellFormed(query)
           /\ Len(Full) \in Nat /\ Len(Left) \in Nat /\ Len(Left) <= Len(Full)
           /\ Taken = Len(Full) - Len(Left) /\ Taken \in Nat
           /\ \A i \in 1..Len(Full) : IsResult(Full[i])
           /\ AlternativesLeft <=> Left # << >>
           /\ AlternativesLeft => Left = The(subject_alt_name)
           /\ ~AlternativesLeft => AllPassed /\ Taken = Len(Full)
<1>1. GoingOn /\ QueryWellFormed(query)
  BY QueriesAssumption DEF SearchInv
<1>2. Len(Full) \in Nat /\ \A i \in 1..Len(Full) : IsResult(Full[i])
  BY <1>1 DEF QueryWellFormed, Full, AllResults
<1>3. Len(Left) \in Nat /\ Len(Left) <= Len(Full)
  BY <1>1 DEF GoingOn, LeftIsSuffix
<1>4. /\ AlternativesLeft <=> Left # << >>
      /\ AlternativesLeft => Left = The(subject_alt_name)
  BY DEF AlternativesLeft, Left
<1>5. Taken = Len(Full) - Len(Left) /\ Taken \in Nat
  BY <1>2, <1>3 DEF Taken
<1>6. ASSUME ~AlternativesLeft PROVE AllPassed /\ Taken = Len(Full)
  <2>1. Left = << >>
    BY <1>4, <1>6
  <2>2. Taken = Len(Full)
    BY <1>2, <2>1 DEF Taken
  <2> QED
    BY <1>1, <2>2 DEF GoingOn, AllPassed
<1> QED
  BY <1>1, <1>2, <1>3, <1>4, <1>5, <1>6

\* The alternative name that is next.
LEMMA NextAlternative ==
    ASSUME SearchInv, result = "pending", AlternativesLeft
    PROVE  /\ Tail(Left) \in Seq({Full[i] : i \in 1..Len(Full)})
           /\ Len(Tail(Left)) = Len(Left) - 1
           /\ Head(Left) = Full[Taken + 1] /\ Taken + 1 \in 1..Len(Full)
           /\ \A i \in 1..Len(Tail(Left)) :
                  Tail(Left)[i] = Full[(Len(Full) - Len(Tail(Left))) + i]
<1> DEFINE n == Len(Full)
<1>1. /\ GoingOn /\ n \in Nat /\ Len(Left) \in Nat /\ Len(Left) <= n /\ Left # << >>
      /\ Taken = n - Len(Left) /\ Taken \in Nat
  BY GoingOnFacts
<1>2. /\ Left \in Seq({Full[i] : i \in 1..n})
      /\ \A i \in 1..Len(Left) : Left[i] = Full[(n - Len(Left)) + i]
  BY <1>1 DEF GoingOn, LeftIsSuffix
<1>3. /\ Tail(Left) \in Seq({Full[i] : i \in 1..n}) /\ Len(Tail(Left)) = Len(Left) - 1
      /\ Head(Left) = Full[(n - Len(Left)) + 1]
      /\ \A i \in 1..Len(Tail(Left)) : Tail(Left)[i] = Full[(n - Len(Tail(Left))) + i]
  <2>1. Len(Left) > 0
    BY <1>1, <1>2
  <2>2. /\ Tail(Left) \in Seq({Full[i] : i \in 1..n})
        /\ Len(Tail(Left)) = Len(Left) - 1 /\ Head(Left) = Left[1]
    BY <1>2, <2>1
  <2>3. \A i \in 1..(Len(Left) - 1) :
           /\ Tail(Left)[i] = Left[i + 1] /\ i + 1 \in 1..Len(Left)
           /\ (n - Len(Left)) + (i + 1) = (n - (Len(Left) - 1)) + i
    BY <1>1, <1>2, <2>1
  <2>4. \A i \in 1..(Len(Left) - 1) : Tail(Left)[i] = Full[(n - (Len(Left) - 1)) + i]
    BY <1>2, <2>3
  <2>5. Left[1] = Full[(n - Len(Left)) + 1]
    BY <1>1, <1>2, <2>1
  <2> QED
    BY <2>2, <2>4, <2>5
<1>4. Taken + 1 \in 1..n
  <2>1. Len(Left) > 0
    BY <1>1, <1>3
  <2> QED
    BY <1>1, <2>1
<1> QED
  BY <1>1, <1>3, <1>4

-----------------------------------------------------------------------------
(* One lemma for each action.                                              *)

LEMMA AlternativeNameKeeps == SearchInv /\ AlternativeName => SearchInv'
<1> SUFFICES ASSUME SearchInv, AlternativeName PROVE SearchInv'
  OBVIOUS
<1> DEFINE n == Len(Full)
           x == Head(Left)
<1>1. /\ result = "pending" /\ AlternativesLeft /\ query' = query
      /\ subject_directory_name' = subject_directory_name
      /\ subject_common_name' = subject_common_name
  BY DEF AlternativeName
<1>2. /\ GoingOn /\ n \in Nat /\ Len(Left) \in Nat /\ Len(Left) <= n /\ Left # << >>
      /\ Taken = n - Len(Left) /\ Taken \in Nat /\ Left = The(subject_alt_name)
  BY <1>1, GoingOnFacts
<1>3. /\ Tail(Left) \in Seq({Full[i] : i \in 1..n}) /\ Len(Tail(Left)) = Len(Left) - 1
      /\ x = Full[Taken + 1] /\ Taken + 1 \in 1..n
      /\ \A i \in 1..Len(Tail(Left)) : Tail(Left)[i] = Full[(n - Len(Tail(Left))) + i]
  BY <1>1, NextAlternative
<1>4. x.result = "Ok" /\ result' = visit(query, x.value) /\ Left' = Tail(Left)
  BY <1>2 DEF AlternativeName, Visit, Left, IsSome, The, Some
<1>5. Full' = Full /\ query' \in Queries
  BY <1>1, QueryUnchanged DEF SearchInv
<1>6. Taken' = Taken + 1
  BY <1>2, <1>3, <1>4, <1>5 DEF Taken
<1>7. CASE result' = "pending"
  <2>1. LeftIsSuffix'
    <3>1. Len(Left') <= n /\ Len(Left') \in Nat
      BY <1>2, <1>3, <1>4
    <3> QED
      BY <1>3, <1>4, <1>5, <3>1 DEF LeftIsSuffix, Taken
  <2>2. \A i \in 1..(Taken + 1) : Passed(i)
    <3>1. Passed(Taken + 1)
      BY <1>3, <1>4, <1>7 DEF Passed
    <3>2. \A i \in 1..(Taken + 1) : i \in 1..Taken \/ i = Taken + 1
      BY <1>2
    <3> QED
      BY <1>2, <3>1, <3>2 DEF GoingOn
  <2>3. \A i \in 1..Taken' : Passed(i)'
    BY <1>1, <1>6, <2>2, QueryUnchanged
  <2>4. /\ ConsidersCommonName' <=> ConsidersCommonName
        /\ considers_subject(query') <=> considers_subject(query)
    BY <1>1, QueryUnchanged
  <2>5. GoingOn'
    BY <1>1, <1>2, <2>1, <2>3, <2>4 DEF GoingOn
  <2> QED
    BY <1>5, <1>7, <2>5 DEF SearchInv
<1>8. CASE result' # "pending"
  <2>1. result' = (Full[Taken + 1].result ?? visit(query, Full[Taken + 1].value))
    BY <1>3, <1>4 DEF ??
  <2>2. \A j \in 1..((Taken + 1) - 1) : Passed(j)
    BY <1>2 DEF GoingOn
  <2>3. \A j \in 1..((Taken + 1) - 1) : Passed(j)'
    BY <1>1, <2>2, QueryUnchanged
  <2>4. EndedByAlternativeName'
    BY <1>1, <1>3, <1>5, <2>1, <2>3 DEF EndedByAlternativeName
  <2> QED
    BY <1>5, <1>8, <2>4 DEF SearchInv
<1> QED
  BY <1>7, <1>8

LEMMA MalformedAlternativeNameKeeps == SearchInv /\ MalformedAlternativeName => SearchInv'
<1> SUFFICES ASSUME SearchInv, MalformedAlternativeName PROVE SearchInv'
  OBVIOUS
<1> DEFINE n == Len(Full)
           x == Head(Left)
<1>1. result = "pending" /\ AlternativesLeft /\ query' = query
  BY DEF MalformedAlternativeName
<1>2. /\ GoingOn /\ n \in Nat /\ Len(Left) \in Nat /\ Len(Left) <= n /\ Left # << >>
      /\ Taken = n - Len(Left) /\ Taken \in Nat /\ Left = The(subject_alt_name)
      /\ \A i \in 1..n : IsResult(Full[i])
  BY <1>1, GoingOnFacts
<1>3. x = Full[Taken + 1] /\ Taken + 1 \in 1..n
  BY <1>1, NextAlternative
<1>4. result' = x.result /\ x.result # "Ok"
  BY <1>2 DEF MalformedAlternativeName
<1>5. result' # "pending"
  BY <1>2, <1>3, <1>4 DEF IsResult, Results, Error, rank
<1>6. Full' = Full /\ query' \in Queries
  BY <1>1, QueryUnchanged DEF SearchInv
<1>7. \A j \in 1..((Taken + 1) - 1) : Passed(j)'
  <2>1. \A j \in 1..((Taken + 1) - 1) : Passed(j)
    BY <1>2 DEF GoingOn
  <2> QED
    BY <1>1, <2>1, QueryUnchanged
<1>8. EndedByAlternativeName'
  BY <1>1, <1>3, <1>4, <1>6, <1>7 DEF EndedByAlternativeName, ??
<1> QED
  BY <1>5, <1>6, <1>8 DEF SearchInv

LEMMA DirectoryNameKeeps == SearchInv /\ DirectoryName => SearchInv'
<1> SUFFICES ASSUME SearchInv, DirectoryName PROVE SearchInv'
  OBVIOUS
<1>1. /\ result = "pending" /\ ~AlternativesLeft /\ query' = query
      /\ subject_directory_name /\ ~subject_directory_name'
      /\ subject_common_name' = subject_common_name
      /\ result' = visit(query, SubjectName)
  BY DEF DirectoryName, Visit, SubjectName
<1>2. Left' = << >> /\ Left = << >>
  BY <1>1, GoingOnFacts DEF DirectoryName, Left, IsSome, None
<1>3. /\ GoingOn /\ AllPassed /\ Len(Full) \in Nat /\ considers_subject(query)
  BY <1>1, GoingOnFacts DEF GoingOn
<1>4. /\ Full' = Full /\ AllPassed' /\ query' \in Queries /\ considers_subject(query')
      /\ SubjectName' = SubjectName
      /\ ConsidersCommonName' <=> ConsidersCommonName
      /\ SubjectPassed' <=> SubjectPassed
  BY <1>1, <1>3, QueryUnchanged DEF SearchInv
<1>5. CASE result' = "pending"
  <2>1. LeftIsSuffix' /\ Taken' = Len(Full)
    BY <1>2, <1>3, <1>4 DEF LeftIsSuffix, Taken
  <2>2. \A i \in 1..Taken' : Passed(i)'
    BY <1>4, <2>1 DEF AllPassed
  <2>3. SubjectPassed'
    BY <1>1, <1>4, <1>5 DEF SubjectPassed
  <2>4. ConsidersCommonName => subject_common_name'
    BY <1>1, <1>3 DEF GoingOn
  <2>5. subject_common_name' => ConsidersCommonName
    BY <1>1, <1>3 DEF GoingOn
  <2>6. GoingOn'
    BY <1>1, <1>2, <1>4, <2>1, <2>2, <2>3, <2>4, <2>5 DEF GoingOn
  <2> QED
    BY <1>4, <1>5, <2>6 DEF SearchInv
<1>6. CASE result' # "pending"
  <2>1. EndedBySubject'
    BY <1>1, <1>4 DEF EndedBySubject
  <2> QED
    BY <1>4, <1>6, <2>1 DEF SearchInv
<1> QED
  BY <1>5, <1>6

LEMMA CommonNameKeeps == SearchInv /\ CommonName => SearchInv'
<1> SUFFICES ASSUME SearchInv, CommonName PROVE SearchInv'
  OBVIOUS
<1> DEFINE cn == query.cert.common_name
<1>1. /\ result = "pending" /\ ~AlternativesLeft /\ query' = query
      /\ ~subject_directory_name /\ subject_directory_name' = subject_directory_name
      /\ subject_common_name /\ ~subject_common_name'
      /\ cn.result = "Ok" => IsSome(cn.value)
      /\ result' = (cn.result ?? visit(query, CommonNameDns))
  BY DEF CommonName, Visit, CommonNameDns, ??
<1>2. Left' = << >>
  BY DEF CommonName, Left, IsSome, None
<1>3. /\ GoingOn /\ AllPassed /\ Len(Full) \in Nat /\ ConsidersCommonName /\ SubjectPassed
      /\ IsResult(cn)
  BY <1>1, GoingOnFacts DEF GoingOn, SubjectPassed, QueryWellFormed
<1>4. /\ Full' = Full /\ AllPassed' /\ query' \in Queries /\ ConsidersCommonName'
      /\ CommonNameDns' = CommonNameDns /\ SubjectPassed'
  BY <1>1, <1>3, QueryUnchanged DEF SearchInv
<1>5. CASE result' = "pending"
  <2>1. LeftIsSuffix' /\ Taken' = Len(Full)
    BY <1>2, <1>3, <1>4 DEF LeftIsSuffix, Taken
  <2>2. \A i \in 1..Taken' : Passed(i)'
    BY <1>4, <2>1 DEF AllPassed
  <2>3. cn.result = "Ok" /\ visit(query, CommonNameDns) = "pending"
    <3>1. cn.result # "pending"
      BY <1>3 DEF IsResult, Results, Error, rank
    <3> QED
      BY <1>1, <1>5, <3>1 DEF ??
  <2>4. CommonNamePassed'
    BY <1>1, <1>4, <2>3 DEF CommonNamePassed
  <2>5. GoingOn'
    BY <1>1, <1>2, <1>4, <2>1, <2>2, <2>4 DEF GoingOn
  <2> QED
    BY <1>4, <1>5, <2>5 DEF SearchInv
<1>6. CASE result' # "pending"
  <2>1. EndedByCommonName'
    BY <1>1, <1>4 DEF EndedByCommonName
  <2> QED
    BY <1>4, <1>6, <2>1 DEF SearchInv
<1> QED
  BY <1>5, <1>6

LEMMA NoMoreNamesKeeps == SearchInv /\ NoMoreNames => SearchInv'
<1> SUFFICES ASSUME SearchInv, NoMoreNames PROVE SearchInv'
  OBVIOUS
<1>1. /\ result = "pending" /\ ~AlternativesLeft /\ query' = query
      /\ ~subject_directory_name
      /\ subject_common_name => query.cert.common_name = Ok(None)
      /\ result' = IF query.kind \in {"dns", "ip"} THEN "CertNotValidForName" ELSE "Ok"
  BY DEF NoMoreNames
<1>2. Left' = << >>
  BY DEF NoMoreNames, Left, IsSome, None
<1>3. GoingOn /\ AllPassed /\ SubjectPassed
  BY <1>1, GoingOnFacts DEF GoingOn, SubjectPassed
<1>4. CommonNamePassed
  <2>1. CASE subject_common_name
    BY <1>1, <2>1 DEF CommonNamePassed, Ok, None, IsSome
  <2>2. CASE ~subject_common_name
    BY <1>3, <2>2 DEF GoingOn, CommonNamePassed
  <2> QED
    BY <2>1, <2>2
<1>5. AllPassed' /\ SubjectPassed' /\ CommonNamePassed' /\ query' \in Queries
  BY <1>1, <1>3, <1>4, QueryUnchanged DEF SearchInv
<1>6. EndedWithoutMatch'
  BY <1>1, <1>2, <1>5 DEF EndedWithoutMatch
<1>7. result' # "pending"
  BY <1>1
<1> QED
  BY <1>5, <1>6, <1>7 DEF SearchInv

LEMMA StutteringKeeps == SearchInv /\ UNCHANGED vars => SearchInv'
<1> SUFFICES ASSUME SearchInv, UNCHANGED vars PROVE SearchInv'
  OBVIOUS
<1>1. /\ query' = query /\ result' = result /\ subject_alt_name' = subject_alt_name
      /\ subject_directory_name' = subject_directory_name
      /\ subject_common_name' = subject_common_name
  BY DEF vars
<1>2. Left' = Left
  BY <1>1 DEF Left
<1>3. /\ Full' = Full /\ \A i : Passed(i)' <=> Passed(i)
      /\ AllPassed' <=> AllPassed
      /\ SubjectPassed' <=> SubjectPassed
      /\ CommonNamePassed' <=> CommonNamePassed
      /\ ConsidersCommonName' <=> ConsidersCommonName
      /\ SubjectName' = SubjectName /\ CommonNameDns' = CommonNameDns
  BY <1>1, QueryUnchanged
<1>4. Taken' = Taken
  BY <1>2, <1>3 DEF Taken
<1>5. GoingOn' <=> GoingOn
  BY <1>1, <1>2, <1>3, <1>4 DEF GoingOn, LeftIsSuffix
<1>6. EndedByAlternativeName' <=> EndedByAlternativeName
  BY <1>1, <1>3 DEF EndedByAlternativeName
<1>7. /\ EndedBySubject' <=> EndedBySubject
      /\ EndedByCommonName' <=> EndedByCommonName
      /\ EndedWithoutMatch' <=> EndedWithoutMatch
  BY <1>1, <1>2, <1>3 DEF EndedBySubject, EndedByCommonName, EndedWithoutMatch
<1> QED
  BY <1>1, <1>5, <1>6, <1>7 DEF SearchInv

LEMMA SearchInvariant == Spec => []SearchInv
<1>1. SearchInv /\ [Next]_vars => SearchInv'
  BY AlternativeNameKeeps, MalformedAlternativeNameKeeps, DirectoryNameKeeps,
     CommonNameKeeps, NoMoreNamesKeeps, StutteringKeeps DEF Next, Done
<1> QED
  BY <1>1, SearchInitially, PTL DEF Spec

-----------------------------------------------------------------------------
(* Labels.                                                                 *)

\* Labels are compared one by one.
LEMMA SameLabels ==
    ASSUME NEW a \in Seq(STRING), NEW b \in Seq(STRING)
    PROVE  /\ Len(a) \in Nat /\ DOMAIN a = 1..Len(a)
           /\ a = b <=> Len(a) = Len(b) /\ \A i \in 1..Len(a) : a[i] = b[i]
  OBVIOUS

\* Two suffixes are the same.
LEMMA SameLastLabels ==
    ASSUME NEW a \in Seq(STRING), NEW b \in Seq(STRING), NEW k \in Nat
    PROVE  LastLabels(a, k) = LastLabels(b, k)
             <=> \A i \in 1..k : a[Len(a) - k + i] = b[Len(b) - k + i]
<1>1. \A i \in 1..k : /\ LastLabels(a, k)[i] = a[Len(a) - k + i]
                      /\ LastLabels(b, k)[i] = b[Len(b) - k + i]
  BY DEF LastLabels
<1>2. ASSUME \A i \in 1..k : a[Len(a) - k + i] = b[Len(b) - k + i]
      PROVE  LastLabels(a, k) = LastLabels(b, k)
  BY <1>2 DEF LastLabels
<1> HIDE DEF LastLabels
<1> QED
  BY <1>1, <1>2

\* Equal but for the first label.
LEMMA SameTail ==
    ASSUME NEW a \in Seq(STRING), NEW b \in Seq(STRING), Len(a) = Len(b), Len(a) > 0
    PROVE  LastLabels(a, Len(a) - 1) = LastLabels(b, Len(a) - 1)
             <=> \A i \in 2..Len(a) : a[i] = b[i]
<1> DEFINE n == Len(a)
<1>1. n \in Nat /\ n - 1 \in Nat /\ Len(b) = n
  OBVIOUS
<1>2. LastLabels(a, n - 1) = LastLabels(b, n - 1)
        <=> \A i \in 1..(n - 1) : a[n - (n - 1) + i] = b[n - (n - 1) + i]
  <2>1. LastLabels(a, n - 1) = LastLabels(b, n - 1)
          <=> \A i \in 1..(n - 1) : a[Len(a) - (n - 1) + i] = b[Len(b) - (n - 1) + i]
    BY <1>1, SameLastLabels, Zenon
  <2> QED
    BY <2>1
<1>3. \A i \in 1..(n - 1) : n - (n - 1) + i = i + 1 /\ i + 1 \in 2..n
  BY <1>1
<1>4. \A i \in 2..n : i - 1 \in 1..(n - 1) /\ (i - 1) + 1 = i
  BY <1>1
<1>5. (\A i \in 1..(n - 1) : a[n - (n - 1) + i] = b[n - (n - 1) + i])
        <=> \A i \in 1..(n - 1) : a[i + 1] = b[i + 1]
  BY <1>3
<1>6. (\A i \in 1..(n - 1) : a[i + 1] = b[i + 1]) <=> \A i \in 2..n : a[i] = b[i]
  <2>1. ASSUME \A i \in 1..(n - 1) : a[i + 1] = b[i + 1], NEW i \in 2..n
        PROVE  a[i] = b[i]
    BY <1>4, <2>1
  <2>2. ASSUME \A i \in 2..n : a[i] = b[i], NEW i \in 1..(n - 1)
        PROVE  a[i + 1] = b[i + 1]
    BY <1>3, <2>2
  <2> QED
    BY <2>1, <2>2
<1> QED
  BY <1>2, <1>5, <1>6

\* StandsFor, of the labels.
Covers(a, b) ==
    /\ Len(a) = Len(b)
    /\ \A i \in 1..Len(a) : a[i] = b[i] \/ (i = 1 /\ a[i] = Wildcard)

LEMMA StandsForCovers ==
    ASSUME NEW name, NEW reference, reference.labels \in Seq(STRING)
    PROVE  StandsFor(name, reference) <=> Covers(name.labels, reference.labels)
<1>1. DOMAIN reference.labels = 1..Len(reference.labels)
  BY SameLabels
<1>2. CASE Len(name.labels) = Len(reference.labels)
  <2>1. DOMAIN reference.labels = 1..Len(name.labels)
    BY <1>1, <1>2
  <2> QED
    BY <1>2, <2>1, Zenon DEF StandsFor, Covers
<1>3. CASE Len(name.labels) # Len(reference.labels)
  BY <1>3 DEF StandsFor, Covers
<1> QED
  BY <1>2, <1>3

LEMMA CoversByCases ==
    ASSUME NEW a \in Seq(STRING), NEW b \in Seq(STRING)
    PROVE  Covers(a, b) <=>
             \/ a = b
             \/ /\ Len(a) = Len(b) /\ Len(a) > 0 /\ a[1] = Wildcard
                /\ LastLabels(a, Len(a) - 1) = LastLabels(b, Len(a) - 1)
<1> DEFINE n == Len(a)
           wild == /\ n = Len(b) /\ n > 0 /\ a[1] = Wildcard
                   /\ \A i \in 2..n : a[i] = b[i]
<1>1. n \in Nat
  OBVIOUS
<1>2. a = b <=> n = Len(b) /\ \A i \in 1..n : a[i] = b[i]
  BY SameLabels
<1>3. wild <=> /\ n = Len(b) /\ n > 0 /\ a[1] = Wildcard
               /\ LastLabels(a, n - 1) = LastLabels(b, n - 1)
  BY SameTail
<1>4. \A i \in 1..n : n > 0 /\ (i = 1 \/ i \in 2..n)
  BY <1>1
<1>5. \A i \in 2..n : i \in 1..n /\ i # 1
  BY <1>1
<1>6. ASSUME Covers(a, b) PROVE a = b \/ wild
  <2>1. CASE \A i \in 1..n : a[i] = b[i]
    BY <1>2, <1>6, <2>1 DEF Covers
  <2>2. CASE ~ \A i \in 1..n : a[i] = b[i]
    <3>1. PICK i \in 1..n : a[i] # b[i]
      BY <2>2
    <3>2. i = 1 /\ a[i] = Wildcard /\ n > 0
      BY <1>4, <1>6, <3>1 DEF Covers
    <3>3. \A j \in 2..n : a[j] = b[j]
      BY <1>5, <1>6 DEF Covers
    <3> QED
      BY <1>6, <3>2, <3>3 DEF Covers
  <2> QED
    BY <2>1, <2>2
<1>7. ASSUME a = b \/ wild PROVE Covers(a, b)
  <2>1. CASE a = b
    BY <1>2, <2>1, Zenon DEF Covers
  <2>2. CASE wild
    BY <1>4, <2>2, Zenon DEF Covers
  <2> QED
    BY <1>7, <2>1, <2>2
<1> HIDE DEF wild
<1> QED
  BY <1>3, <1>6, <1>7

\* A valid presented name matches a reference exactly if it stands for it.
LEMMA MatchesReference ==
    ASSUME NEW name, NEW reference,
           name.labels \in Seq(STRING), reference.labels \in Seq(STRING)
    PROVE  dns_matches_reference(name, reference) = Ok(TRUE)
             <=> name.valid /\ StandsFor(name, reference)
<1> DEFINE a == name.labels
           b == reference.labels
           match == \/ a = b
                    \/ /\ Len(a) = Len(b) /\ Len(a) > 0 /\ a[1] = Wildcard
                       /\ LastLabels(a, Len(a) - 1) = LastLabels(b, Len(a) - 1)
<1>1. dns_matches_reference(name, reference) =
        IF ~name.valid THEN Err("MalformedDnsIdentifier") ELSE Ok(match)
  BY DEF dns_matches_reference
<1>2. match <=> StandsFor(name, reference)
  BY CoversByCases, StandsForCovers, Zenon
<1>3. match \in BOOLEAN
  OBVIOUS
<1> HIDE DEF match
<1>4. Ok(match) = Ok(TRUE) <=> match
  BY <1>3 DEF Ok
<1>5. Err("MalformedDnsIdentifier") # Ok(TRUE)
  BY DEF Err, Ok
<1> QED
  BY <1>1, <1>2, <1>4, <1>5

-----------------------------------------------------------------------------
(* Verification of a name.                                                 *)

\* What is known of the query, in terms of its alternative names.
LEMMA QueryFacts ==
    ASSUME SearchInv
    PROVE  /\ QueryWellFormed(query)
           /\ Len(Full) \in Nat /\ DOMAIN Full = 1..Len(Full)
           /\ \A i \in 1..Len(Full) : Full[i].result # "pending"
           /\ \A i \in 1..Len(Full) : Full[i].result = "Ok" => NameWellFormed(Full[i].value)
<1>1. QueryWellFormed(query)
  BY QueriesAssumption DEF SearchInv
<1>2. AllResults(Full) /\ IsSeq(Full)
  BY <1>1 DEF QueryWellFormed, Full
<1>3. Len(Full) \in Nat /\ DOMAIN Full = 1..Len(Full)
  BY <1>2 DEF IsSeq
<1>4. \A i \in 1..Len(Full) : Full[i].result # "pending"
  BY <1>2 DEF AllResults, IsResult, Results, Error, rank
<1>5. \A i \in 1..Len(Full) : Full[i].result = "Ok" => NameWellFormed(Full[i].value)
  BY <1>1 DEF QueryWellFormed, Full
<1> QED
  BY <1>1, <1>3, <1>4, <1>5

\* A search for a name succeeds exactly if an alternative name ends it.
LEMMA VerifiedByVisit ==
    ASSUME SearchInv, result # "pending", query.kind \in {"dns", "ip"}
    PROVE  result = "Ok" <=>
             \E i \in 1..Len(Full) : /\ \A j \in 1..i : Full[j].result = "Ok"
                                    /\ visit(query, Full[i].value) = "Ok"
<1> DEFINE n == Len(Full)
           found == \E i \in 1..n : /\ \A j \in 1..i : Full[j].result = "Ok"
                                    /\ visit(query, Full[i].value) = "Ok"
<1>1. n \in Nat
  BY QueryFacts
<1>2. \A x : visit(query, x) \in {"Ok", "pending"}
  BY DEF visit
<1>3. ASSUME EndedByAlternativeName PROVE result = "Ok" <=> found
  <2>1. PICK i \in 1..n : /\ \A j \in 1..(i - 1) : Passed(j)
                          /\ result = (Full[i].result ?? visit(query, Full[i].value))
    BY <1>3 DEF EndedByAlternativeName
  <2>2. \A j \in 1..i : j \in 1..(i - 1) \/ j = i
    BY <1>1
  <2>3. CASE Full[i].result = "Ok"
    <3>1. result = "Ok" /\ visit(query, Full[i].value) = "Ok"
      BY <1>2, <2>1, <2>3 DEF ??
    <3>2. \A j \in 1..i : Full[j].result = "Ok"
      BY <2>1, <2>2, <2>3 DEF Passed
    <3> QED
      BY <3>1, <3>2
  <2>4. CASE Full[i].result # "Ok"
    <3>1. result # "Ok"
      BY <2>1, <2>4 DEF ??
    <3>2. ASSUME NEW k \in 1..n, \A j \in 1..k : Full[j].result = "Ok",
                 visit(query, Full[k].value) = "Ok"
          PROVE  FALSE
      <4>1. ~(i \in 1..k)
        BY <2>4, <3>2
      <4>2. k \in 1..(i - 1)
        BY <1>1, <4>1
      <4> QED
        BY <2>1, <3>2, <4>2 DEF Passed
    <3> QED
      BY <3>1, <3>2
  <2> QED
    BY <2>3, <2>4
<1>4. ~EndedBySubject
  BY DEF EndedBySubject, visit, SubjectName, considers_subject
<1>5. ~EndedByCommonName
  BY DEF EndedByCommonName, ConsidersCommonName, considers_common_name
<1>6. ASSUME EndedWithoutMatch PROVE result = "Ok" <=> found
  BY <1>6 DEF EndedWithoutMatch, AllPassed, Passed
<1> QED
  BY <1>3, <1>4, <1>5, <1>6 DEF SearchInv

LEMMA VerificationFollows == SearchInv => VerifiedByAlternativeName
<1> SUFFICES ASSUME SearchInv, result # "pending"
             PROVE  /\ query.kind = "dns" =>
                          (result = "Ok" <=> PresentsDns(query.cert, query.reference))
                    /\ query.kind = "ip" =>
                          (result = "Ok" <=> PresentsIp(query.cert, query.reference))
  BY DEF VerifiedByAlternativeName
<1> DEFINE n == Len(Full)
           x(i) == Full[i].value
           upto(i) == \A j \in 1..i : Full[j].result = "Ok"
<1>1. n \in Nat /\ DOMAIN Full = 1..n /\ Full = Alternatives(query.cert)
  BY QueryFacts DEF Full
<1>2. \A i \in 1..n : upto(i) => NameWellFormed(x(i))
  <2>1. \A i \in 1..n : i \in 1..i
    BY <1>1
  <2> QED
    BY <2>1, QueryFacts
<1>3. ASSUME query.kind = "dns"
      PROVE  result = "Ok" <=> PresentsDns(query.cert, query.reference)
  <2> DEFINE hit(i) == /\ x(i).type = "DnsName" /\ x(i).value.valid
                       /\ StandsFor(x(i).value, query.reference)
  <2>1. query.reference.labels \in Seq(STRING)
    BY <1>3, QueryFacts DEF QueryWellFormed
  <2>2. \A i : visit(query, x(i)) = "Ok" <=>
            /\ x(i).type = "DnsName"
            /\ dns_matches_reference(x(i).value, query.reference) = Ok(TRUE)
    BY <1>3 DEF visit
  <2>3. ASSUME NEW i \in 1..n, upto(i) PROVE visit(query, x(i)) = "Ok" <=> hit(i)
    <3>1. x(i).type = "DnsName" => x(i).value.labels \in Seq(STRING)
      BY <1>2, <2>3 DEF NameWellFormed
    <3>2. x(i).type = "DnsName" =>
            (dns_matches_reference(x(i).value, query.reference) = Ok(TRUE)
               <=> x(i).value.valid /\ StandsFor(x(i).value, query.reference))
      BY <2>1, <3>1, MatchesReference
    <3> QED
      BY <2>2, <3>2
  <2>4. PresentsDns(query.cert, query.reference) <=> \E i \in 1..n : upto(i) /\ hit(i)
    BY <1>1 DEF PresentsDns, Presents
  <2>5. result = "Ok" <=> \E i \in 1..n : upto(i) /\ visit(query, x(i)) = "Ok"
    BY <1>3, VerifiedByVisit
  <2> QED
    BY <2>3, <2>4, <2>5
<1>4. ASSUME query.kind = "ip"
      PROVE  result = "Ok" <=> PresentsIp(query.cert, query.reference)
  <2> DEFINE hit(i) == x(i).type = "IpAddress" /\ x(i).value = query.reference
  <2>1. Len(query.reference) \in {4, 16}
    BY <1>4, QueryFacts DEF QueryWellFormed
  <2>2. \A i : visit(query, x(i)) = "Ok" <=> hit(i)
    BY <1>4, <2>1 DEF visit, ip_matches_reference
  <2>3. PresentsIp(query.cert, query.reference) <=> \E i \in 1..n : upto(i) /\ hit(i)
    BY <1>1 DEF PresentsIp, Presents
  <2>4. result = "Ok" <=> \E i \in 1..n : upto(i) /\ visit(query, x(i)) = "Ok"
    BY <1>4, VerifiedByVisit
  <2> QED
    BY <2>2, <2>3, <2>4
<1> QED
  BY <1>3, <1>4

\* VerifiedByAlternativeName, for any number of alternative names: verify_cert_dns_name
\* and verify_cert_subject_name accept a certificate exactly if an alternative name that
\* stands for the name comes before any malformed one.
THEOREM VerificationTheorem == Spec => []VerifiedByAlternativeName
  BY SearchInvariant, VerificationFollows, PTL

-----------------------------------------------------------------------------
(* Name constraints.                                                       *)

\* A check of a name looks at its type and its value only.
LEMMA ConformsByFields ==
    ASSUME NEW x, NEW permitted, NEW excluded
    PROVE  check_presented_id_conforms_to_constraints(
               [type |-> x.type, value |-> x.value], permitted, excluded)
             = check_presented_id_conforms_to_constraints(x, permitted, excluded)
<1> DEFINE y == [type |-> x.type, value |-> x.value]
<1>1. y.type = x.type /\ y.value = x.value
  OBVIOUS
<1> HIDE DEF y
<1>2. \A t, e : subtree_outcome(y, t, e) = subtree_outcome(x, t, e)
  BY <1>1 DEF subtree_outcome
<1>3. \A subtrees, e : check_subtrees(y, subtrees, e) = check_subtrees(x, subtrees, e)
  BY <1>2 DEF check_subtrees
<1>4. check_presented_id_conforms_to_constraints(y, permitted, excluded)
        = check_presented_id_conforms_to_constraints(x, permitted, excluded)
  BY <1>3 DEF check_presented_id_conforms_to_constraints
<1> QED
  BY <1>4 DEF y

LEMMA CheckNamesFollows == SearchInv => ComputesCheckNames
<1> SUFFICES ASSUME SearchInv, query.kind = "constraints", result # "pending"
             PROVE  result = check_names(query.cert, query.permitted, query.excluded,
                                         query.cn_is_dns_name)
  BY DEF ComputesCheckNames
<1> DEFINE n  == Len(Full)
           cn == query.cert.common_name
           r(x) == check_presented_id_conforms_to_constraints(
                       x, query.permitted, query.excluded)
           v  == [i \in 1..n |-> Full[i].result ?? r(Full[i].value)]
           last == IF ~query.cn_is_dns_name THEN "Ok"
                   ELSE cn.result ?? (IF IsSome(cn.value) THEN r(CommonNameDns) ELSE "Ok")
<1>1. n \in Nat /\ QueryWellFormed(query)
  BY QueryFacts
<1>2. \A x : r(x) # "pending"
  <2>1. \A x : r(x) \in Verdicts
    BY <1>1, ConformsResult DEF QueryWellFormed
  <2> HIDE DEF r
  <2> QED
    BY <2>1 DEF Verdicts, Results, Error, rank
<1>3. \A x : visit(query, x) = IF r(x) = "Ok" THEN "pending" ELSE r(x)
  BY DEF visit
<1>4. check_names(query.cert, query.permitted, query.excluded, query.cn_is_dns_name)
        = (FirstErr(v) ?? r(SubjectName) ?? last)
  <2> DEFINE w == [i \in 1..n |-> Full[i].result
                       ?? r([type |-> Full[i].value.type, value |-> Full[i].value.value])]
  <2>1. \A i \in 1..n :
           r([type |-> Full[i].value.type, value |-> Full[i].value.value]) = r(Full[i].value)
    BY ConformsByFields
  <2>2. v = w
    BY <2>1
  <2>3. check_names(query.cert, query.permitted, query.excluded, query.cn_is_dns_name)
          = (FirstErr(w) ?? r(SubjectName) ?? last)
    BY DEF check_names, Full, Alternatives, SubjectName, CommonNameDns
  <2> QED
    BY <2>2, <2>3
<1>5. DOMAIN v = 1..n /\ \A i \in 1..n : v[i] = (Full[i].result ?? r(Full[i].value))
  OBVIOUS
<1> HIDE DEF v, r, last
<1>6. \A i \in 1..n : Passed(i) <=> v[i] = "Ok"
  BY <1>2, <1>3, <1>5 DEF Passed, ??
<1>7. AllPassed => FirstErr(v) = "Ok"
  BY <1>1, <1>5, <1>6, FirstErrPasses DEF AllPassed
<1>8. considers_subject(query) /\ (ConsidersCommonName <=> query.cn_is_dns_name)
  BY DEF considers_subject, ConsidersCommonName, considers_common_name
<1>9. CASE EndedByAlternativeName
  <2>1. PICK i \in 1..n : /\ \A j \in 1..(i - 1) : Passed(j)
                          /\ result = (Full[i].result ?? visit(query, Full[i].value))
    BY <1>9 DEF EndedByAlternativeName
  <2>2. \A j \in 1..(i - 1) : j \in 1..n
    BY <1>1
  <2>3. \A j \in 1..(i - 1) : v[j] = "Ok"
    BY <1>6, <2>1, <2>2
  <2>4. v[i] = result /\ result # "Ok"
    BY <1>3, <1>5, <2>1 DEF ??
  <2>5. FirstErr(v) = v[i]
    BY <1>1, <1>5, <2>3, <2>4, FirstErrStops
  <2> QED
    BY <1>4, <2>4, <2>5 DEF ??
<1>10. CASE EndedBySubject
  <2>1. result = r(SubjectName) /\ result # "Ok"
    BY <1>3, <1>10 DEF EndedBySubject
  <2> QED
    BY <1>4, <1>7, <1>10, <2>1 DEF EndedBySubject, ??
<1>11. CASE EndedByCommonName
  <2>1. result = last
    BY <1>2, <1>3, <1>8, <1>11 DEF EndedByCommonName, last, ??
  <2>2. r(SubjectName) = "Ok"
    BY <1>2, <1>3, <1>8, <1>11 DEF EndedByCommonName, SubjectPassed
  <2> QED
    BY <1>4, <1>7, <1>11, <2>1, <2>2 DEF EndedByCommonName, ??
<1>12. CASE EndedWithoutMatch
  <2>1. last = "Ok" /\ result = "Ok"
    BY <1>2, <1>3, <1>8, <1>12 DEF EndedWithoutMatch, CommonNamePassed, last, ??
  <2>2. r(SubjectName) = "Ok"
    BY <1>2, <1>3, <1>8, <1>12 DEF EndedWithoutMatch, SubjectPassed
  <2> QED
    BY <1>4, <1>7, <1>12, <2>1, <2>2 DEF EndedWithoutMatch, ??
<1> QED
  BY <1>9, <1>10, <1>11, <1>12 DEF SearchInv

\* ComputesCheckNames, for any number of names and subtrees: the loop of
\* check_name_constraints over the names of a certificate gives the verdict that the
\* proofs about path building take for it.
THEOREM CheckNamesTheorem == Spec => []ComputesCheckNames
  BY SearchInvariant, CheckNamesFollows, PTL

\* A name passes the excluded subtrees only if it matches none of them.
LEMMA PassesExcluded ==
    ASSUME NEW x, NEW permitted, NEW excluded, IsSome(excluded),
           Len(The(excluded)) \in Nat, NEW i \in 1..Len(The(excluded)),
           check_presented_id_conforms_to_constraints(x, permitted, excluded) = "Ok"
    PROVE  subtree_outcome(x, The(excluded)[i], TRUE) \in {"skip", "mismatch", "Ok"}
<1> DEFINE subtrees == The(excluded)
           m == Len(subtrees)
           outcome == [k \in 1..m |-> subtree_outcome(x, subtrees[k], TRUE)]
           verdict == [k \in 1..m |->
               IF \/ outcome[k] \in {"skip", "mismatch"}
                  \/ outcome[k] = "match" /\ ~TRUE THEN "Ok"
               ELSE IF outcome[k] = "match" THEN "NameConstraintViolation"
               ELSE outcome[k]]
           said(o) == \E k \in 1..m : outcome[k] = o
<1>1. check_subtrees(x, subtrees, TRUE) = "Ok"
  BY DEF check_presented_id_conforms_to_constraints, ??
<1>2. check_subtrees(x, subtrees, TRUE) =
        (FirstErr(verdict) ?? Require(~TRUE /\ said("mismatch") => said("match"),
                                      "NameConstraintViolation"))
  BY DEF check_subtrees
<1>3. FirstErr(verdict) = "Ok"
  BY <1>1, <1>2 DEF ??
<1>4. DOMAIN verdict = 1..m
  OBVIOUS
<1>5. verdict[i] = "Ok"
  <2> HIDE DEF verdict
  <2> QED
    BY <1>3, <1>4, FirstErrPasses
<1>6. outcome[i] \in {"skip", "mismatch", "Ok"}
  <2> HIDE DEF outcome
  <2> QED
    BY <1>5
<1> QED
  BY <1>6

\* Labels that cover a name inside a subtree: below its base, or the base itself.
LEMMA CoversInside ==
    ASSUME NEW a \in Seq(STRING), NEW b \in Seq(STRING), NEW c \in Seq(STRING),
           Covers(a, c), Len(c) >= Len(b),
           \A i \in 1..Len(b) : b[i] = c[(Len(c) - Len(b)) + i]
    PROVE  \/ Len(a) > Len(b) /\ LastLabels(a, Len(b)) = b
           \/ Len(c) = Len(b) /\ Covers(a, b)
<1> DEFINE n == Len(a)
           m == Len(b)
<1>1. n \in Nat /\ m \in Nat /\ Len(c) = n /\ n >= m
  BY DEF Covers
<1>2. \A i \in 1..m : b[i] = c[(n - m) + i]
  BY <1>1
<1>3. CASE n > m
  <2>1. \A i \in 1..m : (n - m) + i \in 1..n /\ (n - m) + i # 1
    BY <1>1, <1>3
  <2>2. \A i \in 1..m : a[(n - m) + i] = b[i]
    BY <1>2, <2>1 DEF Covers
  <2>3. LastLabels(a, m) = [i \in 1..m |-> b[i]]
    BY <1>1, <2>2 DEF LastLabels
  <2>4. b = [i \in 1..m |-> b[i]]
    OBVIOUS
  <2> QED
    BY <1>3, <2>3, <2>4
<1>4. CASE n = m
  <2>1. \A i \in 1..m : b[i] = c[i]
    BY <1>1, <1>2, <1>4
  <2>2. b = c
    BY <1>1, <1>4, <2>1, SameLabels
  <2> QED
    BY <2>2
<1> QED
  BY <1>1, <1>3, <1>4

\* A presented name that stands for a name in the subtree of a constraint matches it.
LEMMA StandsForInside ==
    ASSUME NEW name, NEW base, NEW reference, name.valid, base.valid,
           name.labels \in Seq(STRING), base.labels \in Seq(STRING),
           reference.labels \in Seq(STRING),
           StandsFor(name, reference), Inside(reference, base)
    PROVE  dns_matches_constraint(name, base) = Ok(TRUE)
<1> DEFINE a == name.labels
           b == base.labels
           c == reference.labels
           n == Len(a)
           m == Len(b)
           below == n > m /\ LastLabels(a, m) = b
           equal == ~base.leading_dot /\ a = b
           wild  == /\ n = m /\ n > 0 /\ a[1] = Wildcard
                    /\ LastLabels(a, n - 1) = LastLabels(b, n - 1)
<1>1. dns_matches_constraint(name, base) = Ok(below \/ equal \/ wild)
  BY DEF dns_matches_constraint
<1>2. Covers(a, c)
  BY StandsForCovers
<1>3. /\ IF base.leading_dot THEN Len(c) - m > 0 ELSE Len(c) - m >= 0
      /\ \A i \in 1..m : b[i] = c[(Len(c) - m) + i]
  <2>1. DOMAIN b = 1..m
    BY SameLabels
  <2> QED
    BY <2>1 DEF Inside
<1>4. Len(c) \in Nat /\ m \in Nat
  BY SameLabels
<1>5. Len(c) >= m /\ (base.leading_dot => Len(c) # m)
  <2>1. \A p, q \in Nat : (p - q > 0 => p >= q /\ p # q) /\ (p - q >= 0 => p >= q)
    OBVIOUS
  <2>2. CASE base.leading_dot
    <3>1. Len(c) - m > 0
      BY <1>3, <2>2
    <3> QED
      BY <1>4, <2>1, <3>1
  <2>3. CASE ~base.leading_dot
    <3>1. Len(c) - m >= 0
      BY <1>3, <2>3
    <3> QED
      BY <1>4, <2>1, <2>3, <3>1
  <2> QED
    BY <2>2, <2>3
<1>6. below \/ (Len(c) = m /\ Covers(a, b))
  <2>1. \A i \in 1..Len(b) : b[i] = c[(Len(c) - Len(b)) + i]
    BY <1>3
  <2>2. Len(c) >= Len(b)
    BY <1>5
  <2>3. a \in Seq(STRING) /\ b \in Seq(STRING) /\ c \in Seq(STRING)
    OBVIOUS
  <2> HIDE DEF a, b, c
  <2> QED
    BY <1>2, <2>1, <2>2, <2>3, CoversInside
<1>7. Covers(a, b) => a = b \/ wild
  BY CoversByCases
<1> HIDE DEF below, wild
<1>8. (below \/ equal \/ wild) = TRUE
  BY <1>5, <1>6, <1>7
<1> QED
  BY <1>1, <1>8

LEMMA ExclusionFollows == SearchInv => ExcludedNamesNeverVerify
<1> SUFFICES ASSUME SearchInv, query.kind = "constraints", result = "Ok",
                    IsSome(query.excluded),
                    NEW i \in DOMAIN The(query.excluded), NEW reference \in References,
                    The(query.excluded)[i].value.type = "DnsName",
                    Inside(reference, The(query.excluded)[i].value.value),
                    PresentsDns(query.cert, reference)
             PROVE  FALSE
  BY DEF ExcludedNamesNeverVerify
<1> DEFINE n == Len(Full)
           subtree == The(query.excluded)[i]
           base == subtree.value.value
           r(x) == check_presented_id_conforms_to_constraints(
                       x, query.permitted, query.excluded)
<1>1. QueryWellFormed(query) /\ n \in Nat /\ DOMAIN Full = 1..n
  BY QueryFacts
<1>2. i \in 1..Len(The(query.excluded)) /\ Len(The(query.excluded)) \in Nat
      /\ IsResult(subtree) /\ base.labels \in Seq(STRING)
  <2>1. /\ AllResults(The(query.excluded)) /\ IsSeq(The(query.excluded))
        /\ \A k \in 1..Len(The(query.excluded)) :
               The(query.excluded)[k].value.type = "DnsName"
                   => The(query.excluded)[k].value.value.labels \in Seq(STRING)
    BY <1>1 DEF QueryWellFormed, OptionalSubtrees
  <2>2. i \in 1..Len(The(query.excluded)) /\ Len(The(query.excluded)) \in Nat
    BY <2>1 DEF IsSeq
  <2> QED
    BY <2>1, <2>2 DEF AllResults
<1>3. reference.labels \in Seq(STRING)
  BY QueriesAssumption DEF References, QueryWellFormed
<1>4. PICK k \in 1..n :
        /\ \A j \in 1..k : Full[j].result = "Ok"
        /\ Full[k].value.type = "DnsName" /\ Full[k].value.value.valid
        /\ StandsFor(Full[k].value.value, reference)
  BY <1>1 DEF PresentsDns, Presents, Full
<1> DEFINE x == Full[k].value
<1>5. x.value.labels \in Seq(STRING)
  <2>1. Full[k].result = "Ok"
    BY <1>1, <1>4
  <2> QED
    BY <1>4, <2>1, QueryFacts DEF NameWellFormed
<1>6. \A y : visit(query, y) = IF r(y) = "Ok" THEN "pending" ELSE r(y)
  BY DEF visit
<1>7. r(x) = "Ok"
  <2>1. \A y : visit(query, y) # "Ok"
    BY <1>6
  <2>2. ~EndedByAlternativeName /\ ~EndedBySubject /\ ~EndedByCommonName
    BY <2>1 DEF EndedByAlternativeName, EndedBySubject, EndedByCommonName, ??
  <2>3. AllPassed
    BY <2>2 DEF SearchInv, EndedWithoutMatch
  <2>4. visit(query, x) = "pending"
    BY <2>3 DEF AllPassed, Passed
  <2>5. r(x) # "pending"
    <3>1. r(x) \in Verdicts
      BY <1>1, ConformsResult DEF QueryWellFormed
    <3> QED
      BY <3>1 DEF Verdicts, Results, Error, rank
  <2> QED
    BY <1>6, <2>4, <2>5
<1>8. subtree_outcome(x, subtree, TRUE) \in {"skip", "mismatch", "Ok"}
  BY <1>2, <1>7, PassesExcluded
<1>9. subtree.result = "Ok"
  BY <1>2, <1>8 DEF subtree_outcome, IsResult, Results, Error, rank
<1>10. CASE base.valid
  <2>1. dns_matches_constraint(x.value, base) = Ok(TRUE)
    BY <1>2, <1>3, <1>4, <1>5, <1>10, StandsForInside
  <2>2. subtree_outcome(x, subtree, TRUE) = "match"
    BY <1>4, <1>9, <2>1 DEF subtree_outcome, Ok
  <2> QED
    BY <1>8, <2>2
<1>11. CASE ~base.valid
  <2>1. dns_matches_constraint(x.value, base) = Err("MalformedNameConstraint")
    BY <1>4, <1>11 DEF dns_matches_constraint
  <2>2. subtree_outcome(x, subtree, TRUE) = "MalformedNameConstraint"
    BY <1>4, <1>9, <2>1 DEF subtree_outcome, Err
  <2> QED
    BY <1>8, <2>2
<1> QED
  BY <1>10, <1>11

\* ExcludedNamesNeverVerify, for any number of names and subtrees: a certificate that
\* check_name_constraints lets pass is not accepted by verify_cert_dns_name for a name
\* in an excluded subtree, whatever wildcards it presents.
THEOREM ExclusionTheorem == Spec => []ExcludedNamesNeverVerify
  BY SearchInvariant, ExclusionFollows, PTL

-----------------------------------------------------------------------------
(* list_cert_dns_names.                                                    *)

Listed(list, name) == \E i \in 1..Len(list) : list[i] = name

\* What was consumed and could be a reference is in the list, unless an error ended it.
ListInv ==
    /\ IsSeq(names)
    /\ result \in {"pending", "Ok"} =>
           \A j \in 1..Taken :
               lists(query, Full[j].value) => Listed(names, Full[j].value.value)

\* A name that is listed stays listed.
LEMMA ListGrows ==
    ASSUME NEW list, IsSeq(list), NEW v
    PROVE  /\ IsSeq(Append(list, v))
           /\ \A x : Listed(list, x) => Listed(Append(list, v), x)
           /\ Listed(Append(list, v), v)
<1> DEFINE n == Len(list)
           S == {list[i] : i \in DOMAIN list} \cup {v}
           t == Append(list, v)
<1>1. list \in Seq(S) /\ n \in Nat
  BY DEF IsSeq
<1>2. /\ t \in Seq(S) /\ Len(t) = n + 1 /\ DOMAIN t = 1..(n + 1)
      /\ \A i \in 1..n : t[i] = list[i]
      /\ t[n + 1] = v
  BY <1>1
<1>3. 1..n \subseteq 1..(n + 1) /\ n + 1 \in 1..(n + 1)
  BY <1>1
<1>4. IsSeq(t)
  <2> DEFINE R == {t[j] : j \in DOMAIN t}
  <2>1. S \subseteq R
    <3>1. v \in R
      BY <1>2, <1>3
    <3>2. \A i \in 1..n : list[i] \in R
      BY <1>2, <1>3
    <3>3. DOMAIN list = 1..n
      BY <1>1
    <3> QED
      BY <3>1, <3>2, <3>3
  <2> HIDE DEF R, S, t
  <2>2. t \in Seq(R)
    BY <1>2, <2>1
  <2> QED
    BY <2>2 DEF IsSeq, R
<1>5. \A x : Listed(list, x) => Listed(t, x)
  BY <1>2, <1>3 DEF Listed
<1>6. Listed(t, v)
  BY <1>2, <1>3 DEF Listed
<1> QED
  BY <1>4, <1>5, <1>6

LEMMA ListInitially == Init => ListInv
<1> SUFFICES ASSUME Init PROVE ListInv
  OBVIOUS
<1>1. GoingOn /\ Taken = 0
  <2>1. query \in Queries /\ AllResults(Full)
    BY QueriesAssumption DEF Init, QueryWellFormed, Full
  <2>2. Left = Full /\ Len(Full) \in Nat
    BY <2>1 DEF Init, Left, Full, Alternatives, AllResults
  <2> QED
    BY <2>2, SearchInitially DEF SearchInv, Init, Taken
<1>2. 1..Taken = {}
  BY <1>1
<1> QED
  BY <1>2 DEF Init, ListInv, IsSeq

\* The steps that consume no alternative name.
LEMMA ListStays ==
    ASSUME ListInv, query' = query, result \in {"pending", "Ok"}, Taken' = Taken,
           NEW v, names' = names \/ names' = Append(names, v)
    PROVE  ListInv'
<1>1. Full' = Full
  BY QueryUnchanged
<1>2. IsSeq(names') /\ \A x : Listed(names, x) => Listed(names', x)
  <2>1. IsSeq(names)
    BY DEF ListInv
  <2>2. CASE names' = names
    BY <2>1, <2>2
  <2>3. CASE names' = Append(names, v)
    BY <2>1, <2>3, ListGrows
  <2> QED
    BY <2>2, <2>3
<1>3. \A j \in 1..Taken : lists(query, Full[j].value) => Listed(names', Full[j].value.value)
  BY <1>2 DEF ListInv
<1> QED
  BY <1>1, <1>2, <1>3 DEF ListInv

LEMMA AlternativeNameLists == SearchInv /\ ListInv /\ AlternativeName => ListInv'
<1> SUFFICES ASSUME SearchInv, ListInv, AlternativeName PROVE ListInv'
  OBVIOUS
<1> DEFINE x == Head(Left)
<1>1. result = "pending" /\ AlternativesLeft /\ query' = query
  BY DEF AlternativeName
<1>2. /\ Taken \in Nat /\ Left = The(subject_alt_name) /\ Len(Left) \in Nat
      /\ Len(Full) \in Nat /\ Taken = Len(Full) - Len(Left)
  BY <1>1, GoingOnFacts
<1>3. Len(Tail(Left)) = Len(Left) - 1 /\ x = Full[Taken + 1]
  BY <1>1, NextAlternative
<1>4. /\ Left' = Tail(Left)
      /\ names' = IF lists(query, x.value) THEN Append(names, x.value.value) ELSE names
  BY <1>2 DEF AlternativeName, Visit, Left, IsSome, The, Some
<1>5. Full' = Full
  BY <1>1, QueryUnchanged
<1>6. Taken' = Taken + 1
  <2>1. Taken' = Len(Full) - (Len(Left) - 1)
    BY <1>3, <1>4, <1>5 DEF Taken
  <2>2. \A p, q \in Nat : p - (q - 1) = (p - q) + 1
    OBVIOUS
  <2> QED
    BY <1>2, <2>1, <2>2
<1>7. /\ IsSeq(names') /\ \A y : Listed(names, y) => Listed(names', y)
      /\ lists(query, x.value) => Listed(names', x.value.value)
  <2>1. IsSeq(names)
    BY DEF ListInv
  <2>2. CASE lists(query, x.value)
    BY <1>4, <2>1, <2>2, ListGrows
  <2>3. CASE ~lists(query, x.value)
    BY <1>4, <2>1, <2>3
  <2> QED
    BY <2>2, <2>3
<1>8. \A j \in 1..(Taken + 1) :
         lists(query, Full[j].value) => Listed(names', Full[j].value.value)
  <2>1. \A j \in 1..(Taken + 1) : j \in 1..Taken \/ j = Taken + 1
    BY <1>2
  <2>2. \A j \in 1..Taken :
           lists(query, Full[j].value) => Listed(names', Full[j].value.value)
    BY <1>1, <1>7 DEF ListInv
  <2> QED
    BY <1>3, <1>7, <2>1, <2>2
<1> QED
  BY <1>1, <1>5, <1>6, <1>7, <1>8 DEF ListInv

LEMMA ListStep == SearchInv /\ ListInv /\ [Next]_vars => ListInv'
<1> SUFFICES ASSUME SearchInv, ListInv, [Next]_vars PROVE ListInv'
  OBVIOUS
<1>1. CASE AlternativeName
  BY <1>1, AlternativeNameLists
<1>2. CASE MalformedAlternativeName
  <2>1. result = "pending" /\ AlternativesLeft /\ names' = names
    BY <1>2 DEF MalformedAlternativeName
  <2>2. /\ Left = The(subject_alt_name) /\ \A i \in 1..Len(Full) : IsResult(Full[i])
    BY <2>1, GoingOnFacts
  <2>3. Head(Left) = Full[Taken + 1] /\ Taken + 1 \in 1..Len(Full)
    BY <2>1, NextAlternative
  <2>4. result' = Head(Left).result /\ result' # "Ok"
    BY <1>2, <2>2 DEF MalformedAlternativeName
  <2>5. result' # "pending"
    BY <2>2, <2>3, <2>4 DEF IsResult, Results, Error, rank
  <2> QED
    BY <2>1, <2>4, <2>5 DEF ListInv
<1>3. ASSUME result = "pending", ~AlternativesLeft, Left' = << >>, query' = query,
             NEW v, names' = names \/ names' = Append(names, v)
      PROVE  ListInv'
  <2>1. Left = << >>
    BY <1>3, GoingOnFacts
  <2>2. Taken' = Taken
    BY <1>3, <2>1, QueryUnchanged DEF Taken
  <2> QED
    BY <1>3, <2>2, ListStays
<1>4. CASE DirectoryName
  <2>1. /\ result = "pending" /\ ~AlternativesLeft /\ query' = query
        /\ names' = names \/ names' = Append(names, SubjectName.value)
    BY <1>4 DEF DirectoryName, Visit, SubjectName
  <2>2. Left' = << >>
    BY <1>4 DEF DirectoryName, Left, IsSome, None
  <2> QED
    BY <1>3, <2>1, <2>2
<1>5. CASE CommonName
  <2>1. /\ result = "pending" /\ ~AlternativesLeft /\ query' = query
        /\ names' = names \/ names' = Append(names, CommonNameDns.value)
    BY <1>5 DEF CommonName, Visit, CommonNameDns
  <2>2. Left' = << >>
    BY <1>5 DEF CommonName, Left, IsSome, None
  <2> QED
    BY <1>3, <2>1, <2>2
<1>6. CASE NoMoreNames
  <2>1. result = "pending" /\ ~AlternativesLeft /\ query' = query /\ names' = names
    BY <1>6 DEF NoMoreNames
  <2>2. Left' = << >>
    BY <1>6 DEF NoMoreNames, Left, IsSome, None
  <2> QED
    BY <1>3, <2>1, <2>2
<1>7. CASE UNCHANGED vars
  <2>1. /\ query' = query /\ result' = result /\ names' = names
        /\ subject_alt_name' = subject_alt_name
    BY <1>7 DEF vars
  <2>2. Taken' = Taken
    BY <2>1, QueryUnchanged DEF Taken, Left
  <2>3. CASE result \in {"pending", "Ok"}
    BY <2>1, <2>2, <2>3, ListStays
  <2>4. CASE result \notin {"pending", "Ok"}
    BY <2>1, <2>4 DEF ListInv
  <2> QED
    BY <2>3, <2>4
<1> QED
  BY <1>1, <1>2, <1>4, <1>5, <1>6, <1>7 DEF Next, Done

LEMMA ListInvariant == Spec => [](SearchInv /\ ListInv)
<1>1. Init => ListInv
  BY ListInitially
<1>2. SearchInv /\ ListInv /\ [Next]_vars => ListInv'
  BY ListStep
<1> QED
  BY <1>1, <1>2, SearchInvariant, PTL DEF Spec

LEMMA ListFollows == SearchInv /\ ListInv => ListCoversVerified
<1> SUFFICES ASSUME SearchInv, ListInv, query.kind = "list", result = "Ok",
                    NEW r \in References, PresentsDns(query.cert, r)
             PROVE  \E i \in DOMAIN names : StandsFor(names[i], r)
  BY DEF ListCoversVerified
<1> DEFINE n == Len(Full)
<1>1. /\ n \in Nat /\ DOMAIN Full = 1..n
      /\ \A i \in 1..n : Full[i].result = "Ok" => NameWellFormed(Full[i].value)
  BY QueryFacts
<1>2. \A x : visit(query, x) = "pending"
  BY DEF visit
<1>3. ~EndedByAlternativeName /\ ~EndedBySubject /\ ~EndedByCommonName
  <2>1. \A y : (y ?? "pending") # "Ok"
    BY DEF ??
  <2> QED
    BY <1>2, <2>1 DEF EndedByAlternativeName, EndedBySubject, EndedByCommonName
<1>4. Left = << >>
  BY <1>3 DEF SearchInv, EndedWithoutMatch
<1>5. Taken = n
  BY <1>1, <1>4 DEF Taken
<1>6. PICK i \in 1..n :
          /\ Full[i].result = "Ok" /\ Full[i].value.type = "DnsName"
          /\ Full[i].value.value.valid /\ StandsFor(Full[i].value.value, r)
  <2>1. \A i \in 1..n : i \in 1..i
    BY <1>1
  <2> QED
    BY <1>1, <2>1 DEF PresentsDns, Presents, Full
<1>7. lists(query, Full[i].value)
  BY <1>1, <1>6 DEF lists, NameWellFormed
<1>8. Listed(names, Full[i].value.value)
  BY <1>5, <1>6, <1>7 DEF ListInv
<1>9. DOMAIN names = 1..Len(names)
  BY DEF ListInv, IsSeq
<1> QED
  BY <1>6, <1>8, <1>9 DEF Listed

\* ListCoversVerified, for any number of names: a certificate that verify_cert_dns_name
\* accepts for a name has a listed name that stands for it.
THEOREM ListTheorem == Spec => []ListCoversVerified
  BY ListInvariant, ListFollows, PTL
=============================================================================
