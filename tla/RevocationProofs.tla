-------------------------- MODULE RevocationProofs --------------------------
(***************************************************************************)
(* Revocation checking with a CRL that was loaded, for any CRL, any        *)
(* certificate and any sequence of calls of the builder.                   *)
(***************************************************************************)
EXTENDS RevocationClient, CheckProofs, FiniteSetTheorems

-----------------------------------------------------------------------------
(* Parsing keeps the entries: a loop over extensions changes neither the   *)
(* list of entries of a CRL nor the serial number of an entry.             *)

\* What is remembered for a CRL and for an entry, and the field that must not change.
RememberFor(kind, h, x) ==
    IF kind = "crl" THEN remember_crl_extension(h, x) ELSE remember_entry_extension(h, x)

Field(kind) == IF kind = "crl" THEN "revoked_certs" ELSE "serial_number"

Kept(kind, h, r) ==
    r.result = "Ok" =>
        /\ Field(kind) \in DOMAIN r.value
        /\ r.value[Field(kind)] = h[Field(kind)]

LEMMA SetOnceKeeps ==
    ASSUME NEW h, NEW f, NEW parsed, NEW g \in DOMAIN h, g # f,
           set_extension_once(h, f, parsed).result = "Ok"
    PROVE  /\ g \in DOMAIN set_extension_once(h, f, parsed).value
           /\ set_extension_once(h, f, parsed).value[g] = h[g]
<1>1. set_extension_once(h, f, parsed) = Ok([h EXCEPT ![f] = Some(parsed.value)])
  BY DEF set_extension_once, AndThen, Err
<1>2. set_extension_once(h, f, parsed).value = [h EXCEPT ![f] = Some(parsed.value)]
  BY <1>1 DEF Ok
<1> QED
  BY <1>2

LEMMA UnsupportedKeeps ==
    ASSUME NEW x, NEW h, unsupported(x, h).result = "Ok"
    PROVE  unsupported(x, h).value = h
  BY DEF unsupported, Ok, Err

LEMMA RememberKeeps ==
    ASSUME NEW kind \in {"crl", "entry"}, NEW h, Field(kind) \in DOMAIN h, NEW x
    PROVE  Kept(kind, h, RememberFor(kind, h, x))
<1> DEFINE r == RememberFor(kind, h, x)
<1> SUFFICES ASSUME r.result = "Ok"
             PROVE  Field(kind) \in DOMAIN r.value /\ r.value[Field(kind)] = h[Field(kind)]
  BY DEF Kept
<1>1. Ok(h).value = h
  BY DEF Ok
<1>2. \A e : Err(e).result = e
  BY DEF Err
<1>3. CASE kind = "crl"
  <2>1. r = remember_crl_extension(h, x) /\ Field(kind) = "revoked_certs"
    BY <1>3 DEF RememberFor, Field
  <2>2. \/ r \in {Ok(h), Err("InvalidCrlNumber"), Err("UnsupportedDeltaCrl"), unsupported(x, h)}
        \/ r = set_extension_once(h, "issuing_distribution_point", Ok(x.value))
    BY <2>1 DEF remember_crl_extension, remember_extension
  <2> HIDE DEF r
  <2>3. \/ r = Ok(h) \/ r = unsupported(x, h)
        \/ r = set_extension_once(h, "issuing_distribution_point", Ok(x.value))
    BY <1>2, <2>2
  <2> QED
    BY <1>1, <2>1, <2>3, UnsupportedKeeps, SetOnceKeeps
<1>4. CASE kind = "entry"
  <2>1. r = remember_entry_extension(h, x) /\ Field(kind) = "serial_number"
    BY <1>4 DEF RememberFor, Field
  <2>2. \/ r \in {Err("UnsupportedIndirectCrl"), unsupported(x, h)}
        \/ \E parsed : r = set_extension_once(h, "reason_code", parsed)
        \/ \E parsed : r = set_extension_once(h, "invalidity_date", parsed)
    BY <2>1 DEF remember_entry_extension, remember_extension
  <2> HIDE DEF r
  <2>3. \/ r = unsupported(x, h)
        \/ \E parsed : r = set_extension_once(h, "reason_code", parsed)
        \/ \E parsed : r = set_extension_once(h, "invalidity_date", parsed)
    BY <1>2, <2>2
  <2> QED
    BY <2>1, <2>3, UnsupportedKeeps, SetOnceKeeps
<1> QED
  BY <1>3, <1>4

\* A round of the loop over extensions or over the fields of an issuing distribution
\* point, and the loop.
RoundFor(kind, h, e) ==
    IF kind = "idp" THEN idp_field(h, e)
    ELSE IF kind = "crl"
    THEN AndThen(nested_extension(<< e >>, LAMBDA x : remember_crl_extension(h, x)),
                 LAMBDA r : Ok(r.value))
    ELSE AndThen(nested_extension(<< e >>, LAMBDA x : remember_entry_extension(h, x)),
                 LAMBDA r : Ok(r.value))

Advance(kind, r, e) == IF r.result = "Ok" THEN RoundFor(kind, r.value, e) ELSE r

Rounds(kind, h, items, n, g) ==
    g = [i \in 0..n |-> IF i = 0 THEN Ok(h) ELSE Advance(kind, g[i - 1], items[i])]

\* One round keeps the field.
LEMMA RoundKeeps ==
    ASSUME NEW kind \in {"crl", "entry"}, NEW h, Field(kind) \in DOMAIN h, NEW e
    PROVE  Kept(kind, h, RoundFor(kind, h, e))
<1> DEFINE r == RoundFor(kind, h, e)
<1> SUFFICES ASSUME r.result = "Ok"
             PROVE  \E x : RememberFor(kind, h, x).result = "Ok"
                           /\ r.value = RememberFor(kind, h, x).value
  BY RememberKeeps DEF Kept
<1> DEFINE inner == expect_tag(<< e >>, "Sequence").value.value
           x == Extension_from_der(inner).value.value
           m == RememberFor(kind, h, x)
           d == IF Extension_from_der(inner).result = "Ok"
                THEN IF m.result = "Ok" THEN Read(m.value, Extension_from_der(inner).value.rest)
                     ELSE m
                ELSE Extension_from_der(inner)
           n == IF expect_tag(<< e >>, "Sequence").result # "Ok" THEN Err("TrailingData")
                ELSE LET t == IF d.result # "Ok" THEN d
                              ELSE IF d.value.rest # << >> THEN Err("TrailingData")
                              ELSE Ok(d.value.value)
                     IN  IF t.result = "Ok"
                         THEN Read(t.value, expect_tag(<< e >>, "Sequence").value.rest) ELSE t
<1>1. r = IF n.result = "Ok" THEN Ok(n.value.value) ELSE n
  BY DEF RoundFor, RememberFor, nested_extension, nested, read_to_end, AndThen
<1> HIDE DEF m, x, inner, r
<1>2. Err("TrailingData").result = "TrailingData"
  BY DEF Err
<1>3. \A v : Ok(v).result = "Ok" /\ Ok(v).value = v
  BY DEF Ok
<1>4. n.result = "Ok" /\ r.value = n.value.value
  BY <1>1, <1>3
<1>5. d.result = "Ok" /\ n.value.value = d.value.value
  <2> DEFINE q == expect_tag(<< e >>, "Sequence")
             t == IF d.result # "Ok" THEN d
                  ELSE IF d.value.rest # << >> THEN Err("TrailingData")
                  ELSE Ok(d.value.value)
  <2>1. n = IF q.result # "Ok" THEN Err("TrailingData")
            ELSE IF t.result = "Ok" THEN Read(t.value, q.value.rest) ELSE t
    OBVIOUS
  <2> HIDE DEF n, q
  <2>2. t.result = "Ok" => d.result = "Ok" /\ t.value = d.value.value
    <3> HIDE DEF d
    <3> QED
      BY <1>2, <1>3
  <2> HIDE DEF t, d
  <2>3. t.result = "Ok" /\ n = Read(t.value, q.value.rest)
    BY <1>2, <1>4, <2>1
  <2>4. n.value.value = t.value
    BY <2>3, <1>3 DEF Read
  <2> QED
    BY <2>2, <2>3, <2>4
<1>6. m.result = "Ok" /\ d.value.value = m.value
  BY <1>3, <1>5 DEF Read
<1> QED
  BY <1>4, <1>5, <1>6 DEF m

\* The recursive function of the loop exists.
LEMMA RoundsExist ==
    ASSUME NEW kind, NEW h, NEW items, NEW n \in Nat
    PROVE  \E g : Rounds(kind, h, items, n, g)
<1> DEFINE G == {m \in Nat : \E g : Rounds(kind, h, items, m, g)}
<1>1. 0 \in G
  <2> DEFINE g == [i \in 0..0 |-> Ok(h)]
  <2>1. Rounds(kind, h, items, 0, g)
    BY DEF Rounds
  <2> QED
    BY <2>1
<1>2. ASSUME NEW m \in 1..n, m - 1 \in G PROVE m \in G
  <2>1. PICK g : Rounds(kind, h, items, m - 1, g)
    BY <1>2
  <2> DEFINE f == [i \in 0..m |-> IF i = m THEN Advance(kind, g[m - 1], items[m]) ELSE g[i]]
  <2>2. \A i \in 0..(m - 1) :
            g[i] = IF i = 0 THEN Ok(h) ELSE Advance(kind, g[i - 1], items[i])
    BY <2>1 DEF Rounds
  <2>3. \A i \in 0..(m - 1) : f[i] = g[i]
    OBVIOUS
  <2>4. f[m] = Advance(kind, g[m - 1], items[m])
    OBVIOUS
  <2>5. \A i \in 0..m : f[i] = IF i = 0 THEN Ok(h) ELSE Advance(kind, f[i - 1], items[i])
    <3> TAKE i \in 0..m
    <3>1. CASE i = m
      <4>1. f[m - 1] = g[m - 1] /\ m # 0
        BY <2>3
      <4> HIDE DEF f
      <4> QED
        BY <2>4, <3>1, <4>1
    <3>2. CASE i # m
      <4>1. i \in 0..(m - 1) /\ (i # 0 => i - 1 \in 0..(m - 1))
        BY <3>2
      <4> HIDE DEF f
      <4> QED
        BY <2>2, <2>3, <4>1
    <3> QED
      BY <3>1, <3>2
  <2>6. f = [i \in 0..m |-> f[i]]
    OBVIOUS
  <2> HIDE DEF f
  <2>7. f = [i \in 0..m |-> IF i = 0 THEN Ok(h) ELSE Advance(kind, f[i - 1], items[i])]
    BY <2>5, <2>6
  <2> QED
    BY <2>7 DEF Rounds
<1> HIDE DEF G
<1>3. n \in G
  <2>1. \A i \in 0..n : i \in G
    BY <1>1, <1>2, IndexInduction
  <2> QED
    BY <2>1
<1> QED
  BY <1>3 DEF G

\* Every number of rounds keeps the field.
LEMMA RoundsKeep ==
    ASSUME NEW kind \in {"crl", "entry"}, NEW h, Field(kind) \in DOMAIN h, NEW items,
           NEW n \in Nat, NEW g, Rounds(kind, h, items, n, g)
    PROVE  Kept(kind, h, g[n])
<1> DEFINE G == {i \in Nat : Kept(kind, h, g[i])}
<1>1. \A i \in 0..n : g[i] = IF i = 0 THEN Ok(h) ELSE Advance(kind, g[i - 1], items[i])
  BY DEF Rounds
<1>2. 0 \in G
  <2>1. g[0] = Ok(h)
    BY <1>1
  <2> QED
    BY <2>1 DEF Kept, Ok
<1>3. ASSUME NEW i \in 1..n, i - 1 \in G PROVE i \in G
  <2>1. Kept(kind, h, g[i - 1]) /\ g[i] = Advance(kind, g[i - 1], items[i])
    BY <1>1, <1>3
  <2>2. CASE g[i - 1].result # "Ok"
    BY <2>1, <2>2 DEF Advance, Kept
  <2>3. CASE g[i - 1].result = "Ok"
    <3> DEFINE v == g[i - 1].value
    <3>1. Field(kind) \in DOMAIN v /\ v[Field(kind)] = h[Field(kind)]
      BY <2>1, <2>3 DEF Kept
    <3>2. g[i] = RoundFor(kind, v, items[i])
      BY <2>1, <2>3 DEF Advance
    <3> HIDE DEF v
    <3>3. Kept(kind, v, g[i])
      BY <3>1, <3>2, RoundKeeps
    <3>4. Kept(kind, h, g[i])
      BY <3>1, <3>3 DEF Kept
    <3> QED
      BY <3>4
  <2> QED
    BY <2>2, <2>3
<1> HIDE DEF G
<1>4. \A i \in 0..n : i \in G
  BY <1>2, <1>3, IndexInduction
<1> QED
  BY <1>4 DEF G

\* nested_of_mut for a CRL and for an entry.
ExtensionsFor(kind, reader, h) ==
    IF kind = "crl" THEN nested_extensions(reader, h, remember_crl_extension)
    ELSE nested_extensions(reader, h, remember_entry_extension)

\* What the loops return.
LEMMA LoopIsRounds ==
    ASSUME NEW h, NEW items, Len(items) \in Nat
    PROVE  /\ \E g : /\ Rounds("crl", h, items, Len(items), g)
                     /\ Loop(LAMBDA c, e : AndThen(
                              nested_extension(<< e >>, LAMBDA x : remember_crl_extension(c, x)),
                              LAMBDA r : Ok(r.value)), h, items) = g[Len(items)]
           /\ \E g : /\ Rounds("entry", h, items, Len(items), g)
                     /\ Loop(LAMBDA c, e : AndThen(
                              nested_extension(<< e >>, LAMBDA x : remember_entry_extension(c, x)),
                              LAMBDA r : Ok(r.value)), h, items) = g[Len(items)]
           /\ \E g : /\ Rounds("idp", h, items, Len(items), g)
                     /\ Loop(idp_field, h, items) = g[Len(items)]
<1> DEFINE C == CHOOSE g : Rounds("crl", h, items, Len(items), g)
           E == CHOOSE g : Rounds("entry", h, items, Len(items), g)
           I == CHOOSE g : Rounds("idp", h, items, Len(items), g)
<1>1. /\ Rounds("crl", h, items, Len(items), C)
      /\ Rounds("entry", h, items, Len(items), E)
      /\ Rounds("idp", h, items, Len(items), I)
  BY RoundsExist
<1>2. Loop(LAMBDA c, e : AndThen(
                              nested_extension(<< e >>, LAMBDA x : remember_crl_extension(c, x)),
                              LAMBDA r : Ok(r.value)), h, items) = C[Len(items)]
  BY DEF Loop, Rounds, Advance, RoundFor, AndThen
<1>3. Loop(LAMBDA c, e : AndThen(
                              nested_extension(<< e >>, LAMBDA x : remember_entry_extension(c, x)),
                              LAMBDA r : Ok(r.value)), h, items) = E[Len(items)]
  BY DEF Loop, Rounds, Advance, RoundFor, AndThen
<1>4. Loop(idp_field, h, items) = I[Len(items)]
  BY DEF Loop, Rounds, Advance, RoundFor, AndThen
<1> QED
  BY <1>1, <1>2, <1>3, <1>4

\* What expect_tag and Time_from_der tell if they succeed.
LEMMA TagExpected ==
    ASSUME NEW reader, NEW tag, tag # "BadDer", expect_tag(reader, tag).result = "Ok"
    PROVE  /\ peek(reader, tag)
           /\ expect_tag(reader, tag).value.value = Head(reader).content
           /\ expect_tag(reader, tag).value.rest = Tail(reader)
  BY DEF expect_tag, Read, Ok, Err

LEMMA TimeRead ==
    ASSUME NEW reader, Time_from_der(reader).result = "Ok"
    PROVE  /\ reader # << >>
           /\ Time_from_der(reader).value.rest = Tail(reader)
<1> DEFINE tag == IF peek(reader, "UTCTime") THEN "UTCTime" ELSE "GeneralizedTime"
<1>1. Time_from_der(reader) = expect_tag(reader, tag) /\ expect_tag(reader, tag).result = "Ok"
  BY DEF Time_from_der, Err
<1>2. tag # "BadDer"
  OBVIOUS
<1> HIDE DEF tag
<1>3. peek(reader, tag)
  BY <1>1, <1>2, TagExpected
<1> QED
  BY <1>1, <1>2, <1>3, TagExpected DEF peek

\* Reading extensions consumes one element and keeps the field.
LEMMA ExtensionsKeep ==
    ASSUME NEW kind \in {"crl", "entry"}, NEW h, Field(kind) \in DOMAIN h, NEW reader,
           peek(reader, "Sequence") => IsSeq(Head(reader).content),
           ExtensionsFor(kind, reader, h).result = "Ok"
    PROVE  /\ peek(reader, "Sequence")
           /\ ExtensionsFor(kind, reader, h).value.rest = Tail(reader)
           /\ ExtensionsFor(kind, reader, h).value.value[Field(kind)] = h[Field(kind)]
<1> DEFINE r == ExtensionsFor(kind, reader, h)
           outer == expect_tag(reader, "Sequence")
           items == outer.value.value
           loop == IF kind = "crl"
                   THEN Loop(LAMBDA c, e : AndThen(
                              nested_extension(<< e >>, LAMBDA x : remember_crl_extension(c, x)),
                              LAMBDA q : Ok(q.value)), h, items)
                   ELSE Loop(LAMBDA c, e : AndThen(
                              nested_extension(<< e >>, LAMBDA x : remember_entry_extension(c, x)),
                              LAMBDA q : Ok(q.value)), h, items)
           d == IF items = << >> THEN Err("TrailingData")
                ELSE IF loop.result = "Ok" THEN Read(loop.value, << >>) ELSE loop
           t == IF d.result # "Ok" THEN d
                ELSE IF d.value.rest # << >> THEN Err("TrailingData")
                ELSE Ok(d.value.value)
<1>1. r = IF outer.result # "Ok" THEN Err("TrailingData")
          ELSE IF t.result = "Ok" THEN Read(t.value, outer.value.rest) ELSE t
  BY DEF ExtensionsFor, nested_extensions, nested, read_to_end, AndThen
<1> HIDE DEF r, loop, outer
<1>2. Err("TrailingData").result = "TrailingData"
  BY DEF Err
<1>3. \A v : Ok(v).result = "Ok" /\ Ok(v).value = v
  BY DEF Ok
<1>4. outer.result = "Ok" /\ t.result = "Ok" /\ r.value.value = t.value
      /\ r.value.rest = outer.value.rest
  <2>1. r.result = "Ok"
    BY DEF r
  <2> HIDE DEF t
  <2> QED
    BY <1>1, <1>2, <1>3, <2>1 DEF Read
<1>5. peek(reader, "Sequence") /\ items = Head(reader).content
      /\ outer.value.rest = Tail(reader)
  BY <1>4, TagExpected DEF outer
<1>6. loop.result = "Ok" /\ t.value = loop.value
  BY <1>2, <1>3, <1>4 DEF Read
<1>7. Kept(kind, h, loop)
  <2>1. Len(items) \in Nat
    BY <1>5, ListFacts
  <2> HIDE DEF items
  <2>2. \E g : Rounds(kind, h, items, Len(items), g) /\ loop = g[Len(items)]
    BY <2>1, LoopIsRounds DEF loop
  <2> QED
    BY <2>1, <2>2, RoundsKeep
<1> QED
  BY <1>4, <1>5, <1>6, <1>7 DEF Kept, r

\* BorrowedRevokedCert::from_der gets the serial number from the first field.
LEMMA EntryHasSerial ==
    ASSUME NEW x, Reader2(<< x >>), revoked_cert_from_der(<< x >>).result = "Ok"
    PROVE  /\ x.tag = "Sequence" /\ peek(x.content, "Integer")
           /\ revoked_cert_from_der(<< x >>).value.value.serial_number = Head(x.content).content
<1> DEFINE r == revoked_cert_from_der(<< x >>)
           outer == expect_tag(<< x >>, "Sequence")
           der == outer.value.value
           date == Time_from_der(Tail(der))
           h == [ serial_number |-> Head(der).content, revocation_date |-> date.value.value,
                  reason_code |-> None, invalidity_date |-> None ]
           ext == entry_extensions(h, date.value.rest)
           d == IF ~peek(der, "Integer") THEN Err("InvalidSerialNumber")
                ELSE IF date.result = "Ok" THEN ext ELSE date
           t == IF d.result # "Ok" THEN d
                ELSE IF d.value.rest # << >> THEN Err("TrailingData")
                ELSE Ok(d.value.value)
<1>1. r = IF outer.result # "Ok" THEN Err("TrailingData")
          ELSE IF t.result = "Ok" THEN Read(t.value, outer.value.rest) ELSE t
  BY DEF revoked_cert_from_der, nested, read_to_end, AndThen
<1> HIDE DEF r, outer, date, h, ext
<1>2. \A e : Err(e).result = e
  BY DEF Err
<1>3. \A v : Ok(v).result = "Ok" /\ Ok(v).value = v
  BY DEF Ok
<1>4. outer.result = "Ok" /\ t.result = "Ok" /\ r.value.value = t.value
  <2>1. r.result = "Ok"
    BY DEF r
  <2> HIDE DEF t
  <2> QED
    BY <1>1, <1>2, <1>3, <2>1 DEF Read
<1>5. x.tag = "Sequence" /\ der = x.content
  BY <1>4, TagExpected DEF outer, peek
<1>6. peek(der, "Integer") /\ date.result = "Ok" /\ ext.result = "Ok"
      /\ t.value = ext.value.value
  BY <1>2, <1>3, <1>4 
<1>7. /\ IsSeq(der)
      /\ \A i \in DOMAIN der : der[i].tag = "Sequence" => IsSeq(der[i].content)
  <2>1. Reader1(x.content)
    BY <1>5 DEF Reader2, ReaderOf
  <2> QED
    BY <1>5, <2>1 DEF Reader1, ReaderOf
<1> HIDE DEF der
<1> DEFINE rest == date.value.rest
<1>8. rest = Tail(Tail(der)) /\ Tail(der) # << >> /\ der # << >>
  BY <1>6, TimeRead DEF date, peek
<1>9. rest # << >> => Head(rest) = der[3] /\ 3 \in DOMAIN der
  BY <1>7, <1>8, ListConsumed, ListFacts
<1> HIDE DEF rest
<1>10. Field("entry") = "serial_number" /\ Field("entry") \in DOMAIN h
      /\ h["serial_number"] = Head(der).content
  BY DEF Field, h
<1>11. ext.value.value["serial_number"] = h["serial_number"]
  <2>1. CASE rest = << >>
    <3>1. ext = Read(h, rest)
      BY <2>1 DEF ext, rest, entry_extensions
    <3> QED
      BY <3>1, <1>3 DEF Read
  <2>2. CASE rest # << >>
    <3>1. peek(rest, "Sequence")
      BY <1>2, <1>6, <2>2 DEF ext, rest, entry_extensions
    <3>2. CASE Head(rest).content = << >>
      <4>1. ext = Read(h, Tail(rest))
        BY <2>2, <3>1, <3>2 DEF ext, rest, entry_extensions
      <4> QED
        BY <4>1, <1>3 DEF Read
    <3>3. CASE Head(rest).content # << >>
      <4> DEFINE n == ExtensionsFor("entry", << Head(rest) >>, h)
      <4>1. ext = IF n.result = "Ok" THEN Read(n.value.value, Tail(rest)) ELSE n
        BY <2>2, <3>1, <3>3 DEF ext, rest, entry_extensions, ExtensionsFor, AndThen
      <4>2. IsSeq(Head(rest).content)
        BY <1>7, <1>9, <2>2, <3>1 DEF peek
      <4> HIDE DEF n, ext
      <4>3. n.result = "Ok" /\ ext.value.value = n.value.value
        BY <1>3, <1>6, <4>1 DEF Read
      <4>4. Head(<< Head(rest) >>) = Head(rest)
        OBVIOUS
      <4>5. n.value.value["serial_number"] = h["serial_number"]
        BY <1>10, <4>2, <4>3, <4>4, ExtensionsKeep DEF n
      <4> QED
        BY <4>3, <4>5
    <3> QED
      BY <3>2, <3>3
  <2> QED
    BY <2>1, <2>2
<1> QED
  BY <1>4, <1>5, <1>6, <1>10, <1>11 DEF r

\* u8_from_der consumes one element.
LEMMA NumberRead ==
    ASSUME NEW reader, u8_from_der(reader).result = "Ok"
    PROVE  peek(reader, "Integer") /\ u8_from_der(reader).value.rest = Tail(reader)
<1> DEFINE e == expect_tag(reader, "Integer")
           v == e.value.value
           n == nonnegative_integer(reader)
           w == IF v[1] = 0 /\ Len(v) > 1 THEN Tail(v) ELSE v
           bad == v = << >> \/ v[1] >= 128 \/ (v[1] = 0 /\ Len(v) > 1 /\ v[2] < 128)
<1>1. n = IF e.result = "Ok" THEN IF bad THEN Err("BadDer") ELSE Read(w, e.value.rest) ELSE e
  BY DEF nonnegative_integer, AndThen
<1>2. u8_from_der(reader) = IF n.result = "Ok"
                            THEN IF Len(n.value.value) = 1
                                 THEN Read(n.value.value[1], n.value.rest) ELSE Err("BadDer")
                            ELSE n
  BY DEF u8_from_der, AndThen
<1> HIDE DEF n, e, w, bad
<1>3. n.result = "Ok" /\ u8_from_der(reader).value.rest = n.value.rest
  <2>1. Err("BadDer").result # "Ok"
    BY ResultFacts
  <2> QED
    BY <1>2, <2>1, ResultFacts
<1>4. e.result = "Ok" /\ n.value.rest = e.value.rest
  <2>1. Err("BadDer").result # "Ok"
    BY ResultFacts
  <2> QED
    BY <1>1, <1>3, <2>1, ResultFacts
<1> QED
  BY <1>3, <1>4, TagExpected DEF e

\* SignedData::from_der begins with the to-be-signed part.
LEMMA SignedBegins ==
    ASSUME NEW der, SignedData_from_der(der).result = "Ok"
    PROVE  /\ peek(der, "Sequence")
           /\ SignedData_from_der(der).value.value.tbs = Head(der).content
<1> DEFINE r == SignedData_from_der(der)
           tbs == expect_tag(der, "Sequence")
           alg == expect_tag(tbs.value.rest, "Sequence")
           sig == bit_string_with_no_unused_bits(alg.value.rest)
           v == [tbs |-> tbs.value.value,
                 signed_data |-> [data |-> Head(der), algorithm |-> alg.value.value,
                                  signature |-> sig.value.value]]
<1>1. r = IF tbs.result = "Ok"
          THEN IF alg.result = "Ok"
               THEN IF sig.result = "Ok" THEN Read(v, sig.value.rest) ELSE sig
               ELSE alg
          ELSE tbs
  BY DEF SignedData_from_der, AndThen
<1>2. v.tbs = tbs.value.value
  OBVIOUS
<1> HIDE DEF r, tbs, alg, sig, v
<1>3. tbs.result = "Ok" /\ r.value.value = v
  <2>1. r.result = "Ok"
    BY DEF r
  <2> QED
    BY <1>1, <2>1, ResultFacts
<1> QED
  BY <1>2, <1>3, TagExpected DEF r, tbs

\* Every item of the rest of a list is one of the list.
LEMMA Shifted ==
    ASSUME NEW s, IsSeq(s), s # << >>
    PROVE  /\ IsSeq(Tail(s)) /\ Len(Tail(s)) = Len(s) - 1
           /\ \A i \in 1..(Len(s) - 1) : Tail(s)[i] = s[i + 1]
<1>1. s \in Seq({s[i] : i \in DOMAIN s})
  BY DEF IsSeq
<1> QED
  BY <1>1, ListConsumed

\* The first element of a list.
LEMMA FirstOfList ==
    ASSUME NEW s, IsSeq(s), s # << >>
    PROVE  1 \in DOMAIN s /\ Head(s) = s[1]
<1>1. 1 \in DOMAIN s
  BY ListFacts, ListConsumed
<1>2. Head(s) = s[1]
  BY DEF IsSeq
<1> QED
  BY <1>1, <1>2

\* The content of the first element of a reader of constructed elements.
LEMMA FirstContent ==
    ASSUME NEW tagged, Reader2(tagged), peek(tagged, "Sequence")
    PROVE  IsSeq(Head(tagged).content)
<1>1. IsSeq(tagged) /\ tagged # << >> /\ Head(tagged).tag = "Sequence"
  BY DEF peek, Reader2, ReaderOf
<1>2. Head(tagged) = tagged[1] /\ 1 \in DOMAIN tagged
  BY <1>1, FirstOfList
<1>3. Reader1(tagged[1].content)
  BY <1>1, <1>2 DEF Reader2, ReaderOf
<1> QED
  BY <1>2, <1>3 DEF Reader1, ReaderOf

\* The fields of the to-be-signed part of a CRL: version, signature, issuer, the two
\* times, the entries if there are any, and the extensions.
LEMMA FieldsOfCrl ==
    ASSUME NEW t, NEW sd, Reader3(t), tbs_cert_list(t, sd).result = "Ok",
           tbs_cert_list(t, sd).value.rest = << >>
    PROVE  \/ /\ Len(t) < 7
              /\ tbs_cert_list(t, sd).value.value.revoked_certs = << >>
           \/ /\ 6 \in DOMAIN t /\ t[6].tag = "Sequence"
              /\ tbs_cert_list(t, sd).value.value.revoked_certs = t[6].content
<1> DEFINE r == tbs_cert_list(t, sd)
           version == u8_from_der(t)
           signature == expect_tag(version.value.rest, "Sequence")
           issuer == expect_tag(signature.value.rest, "Sequence")
           this_update == Time_from_der(issuer.value.rest)
           next_update == Time_from_der(this_update.value.rest)
           fields == next_update.value.rest
           revoked == revoked_certs(fields)
           h == [ signed_data |-> sd, issuer |-> issuer.value.value,
                  revoked_certs |-> revoked.value.value, issuing_distribution_point |-> None ]
           outer == expect_tag(revoked.value.rest, "ContextSpecificConstructed0")
           ext == ExtensionsFor("crl", outer.value.value, h)
           all == IF ext.result # "Ok" THEN ext
                  ELSE IF ext.value.rest # << >> THEN Err("MalformedExtensions")
                  ELSE Ok(ext.value.value)
           last == IF outer.result # "Ok" THEN Err("MalformedExtensions")
                   ELSE IF all.result = "Ok" THEN Read(all.value, outer.value.rest) ELSE all
           at6 == IF revoked.result = "Ok" THEN last ELSE revoked
           at5 == IF next_update.result = "Ok" THEN at6 ELSE next_update
           at4 == IF this_update.result = "Ok" THEN at5 ELSE this_update
           at3 == IF issuer.result = "Ok" THEN at4 ELSE issuer
           at2 == IF signature.result = "Ok"
                  THEN IF signature.value.value # sd.algorithm
                       THEN Err("SignatureAlgorithmMismatch") ELSE at3
                  ELSE signature
           at1 == IF version.result = "Ok"
                  THEN IF version.value.value # 1 THEN Err("UnsupportedCrlVersion") ELSE at2
                  ELSE version
<1>1. r = at1
  BY DEF tbs_cert_list, ExtensionsFor, AndThen, nested, read_to_end
<1>2. /\ Err("MalformedExtensions").result # "Ok"
      /\ Err("SignatureAlgorithmMismatch").result # "Ok"
      /\ Err("UnsupportedCrlVersion").result # "Ok"
  BY ResultFacts
<1> HIDE DEF r, version, signature, issuer, this_update, next_update, revoked, h, outer, ext, all
<1>3. r.result = "Ok" /\ r.value.rest = << >>
  BY DEF r
<1>4. /\ version.result = "Ok" /\ signature.result = "Ok" /\ issuer.result = "Ok"
      /\ this_update.result = "Ok" /\ next_update.result = "Ok" /\ revoked.result = "Ok"
      /\ r = last
  <2> HIDE DEF last
  <2> QED
    BY <1>1, <1>2, <1>3
<1>5. outer.result = "Ok" /\ all.result = "Ok" /\ r = Read(all.value, outer.value.rest)
  BY <1>2, <1>3, <1>4
<1>6. ext.result = "Ok" /\ r.value.value = ext.value.value /\ outer.value.rest = << >>
  BY <1>2, <1>3, <1>5, ResultFacts DEF all
<1> DEFINE t1 == Tail(t)
           t2 == Tail(t1)
           t3 == Tail(t2)
           t4 == Tail(t3)
           t5 == Tail(t4)
<1>7. t # << >> /\ version.value.rest = t1
  BY <1>4, NumberRead DEF version, peek
<1>8. t1 # << >> /\ signature.value.rest = t2
  <2>1. signature = expect_tag(t1, "Sequence")
    BY <1>7 DEF signature
  <2>2. peek(t1, "Sequence") /\ signature.value.rest = Tail(t1)
    BY <1>4, <2>1, TagExpected
  <2> QED
    BY <2>2 DEF peek
<1>9. t2 # << >> /\ issuer.value.rest = t3
  <2>1. issuer = expect_tag(t2, "Sequence")
    BY <1>8 DEF issuer
  <2>2. peek(t2, "Sequence") /\ issuer.value.rest = Tail(t2)
    BY <1>4, <2>1, TagExpected
  <2> QED
    BY <2>2 DEF peek
<1>10. t3 # << >> /\ this_update.value.rest = t4
  <2>1. this_update = Time_from_der(t3)
    BY <1>9 DEF this_update
  <2> QED
    BY <1>4, <2>1, TimeRead
<1>11. t4 # << >> /\ fields = t5
  <2>1. next_update = Time_from_der(t4)
    BY <1>10 DEF next_update
  <2> QED
    BY <1>4, <2>1, TimeRead
<1>12. /\ IsSeq(t5) /\ Len(t5) = Len(t) - 5 /\ Len(t) \in Nat
       /\ t5 # << >> => 6 \in DOMAIN t /\ Head(t5) = t[6]
       /\ Len(t5) > 1 => 7 \in DOMAIN t /\ Head(Tail(t5)) = t[7]
  <2>1. IsSeq(t) /\ Len(t) \in Nat
    BY ListFacts DEF Reader3, ReaderOf
  <2> HIDE DEF t1, t2, t3, t4, t5
  <2>2. /\ IsSeq(t1) /\ Len(t1) = Len(t) - 1
        /\ \A i \in 1..(Len(t) - 1) : t1[i] = t[i + 1]
    BY <1>7, <2>1, Shifted DEF t1
  <2>3. /\ IsSeq(t2) /\ Len(t2) = Len(t) - 2
        /\ \A i \in 1..(Len(t1) - 1) : t2[i] = t1[i + 1]
    BY <1>8, <2>1, <2>2, Shifted DEF t2
  <2>4. /\ IsSeq(t3) /\ Len(t3) = Len(t) - 3
        /\ \A i \in 1..(Len(t2) - 1) : t3[i] = t2[i + 1]
    BY <1>9, <2>1, <2>3, Shifted DEF t3
  <2>5. /\ IsSeq(t4) /\ Len(t4) = Len(t) - 4
        /\ \A i \in 1..(Len(t3) - 1) : t4[i] = t3[i + 1]
    BY <1>10, <2>1, <2>4, Shifted DEF t4
  <2>6. /\ IsSeq(t5) /\ Len(t5) = Len(t) - 5
        /\ \A i \in 1..(Len(t4) - 1) : t5[i] = t4[i + 1]
    BY <1>11, <2>1, <2>5, Shifted DEF t5
  <2>7. ASSUME NEW i \in {1, 2}, i <= Len(t) - 5 PROVE t5[i] = t[i + 5]
    <3>1. t5[i] = t4[i + 1]
      BY <2>1, <2>5, <2>6, <2>7
    <3>2. t4[i + 1] = t3[i + 2]
      BY <2>1, <2>4, <2>5, <2>7
    <3>3. t3[i + 2] = t2[i + 3]
      BY <2>1, <2>3, <2>4, <2>7
    <3>4. t2[i + 3] = t1[i + 4]
      BY <2>1, <2>2, <2>3, <2>7
    <3>5. t1[i + 4] = t[i + 5]
      BY <2>1, <2>2, <2>7
    <3> QED
      BY <3>1, <3>2, <3>3, <3>4, <3>5
  <2>8. DOMAIN t = 1..Len(t)
    BY <2>1, ListFacts
  <2>9. t5 # << >> => Len(t5) > 0 /\ Head(t5) = t5[1]
    BY <2>6, ListConsumed DEF IsSeq
  <2>10. Len(t5) > 1 => Head(Tail(t5)) = t5[2]
    BY <2>6 DEF IsSeq
  <2>11. t5 # << >> => Head(t5) = t[6]
    BY <2>1, <2>6, <2>7, <2>9
  <2>12. Len(t5) > 1 => Head(Tail(t5)) = t[7]
    BY <2>1, <2>6, <2>7, <2>10
  <2> QED
    BY <2>1, <2>6, <2>8, <2>9, <2>11, <2>12
<1> HIDE DEF t1, t2, t3, t4, t5, fields
<1> DEFINE reader == revoked.value.rest
<1>13. peek(reader, "ContextSpecificConstructed0") /\ Tail(reader) = << >>
       /\ outer.value.value = Head(reader).content
  BY <1>5, <1>6, TagExpected DEF outer
<1>14. Field("crl") = "revoked_certs" /\ Field("crl") \in DOMAIN h
       /\ h["revoked_certs"] = revoked.value.value
  BY DEF Field, h
<1>15. CASE peek(t5, "Sequence")
  <2>1. revoked = expect_tag(t5, "Sequence")
    BY <1>11, <1>15 DEF revoked, revoked_certs
  <2>2. revoked.value.value = Head(t5).content /\ reader = Tail(t5)
    BY <1>4, <2>1, TagExpected
  <2>3. 6 \in DOMAIN t /\ Head(t5) = t[6] /\ t[6].tag = "Sequence"
    BY <1>12, <1>15 DEF peek
  <2>4. reader # << >>
    BY <1>13 DEF peek
  <2>5. Head(reader) = t[7] /\ 7 \in DOMAIN t
    <3>1. t5 # << >>
      BY <1>15 DEF peek
    <3>2. Len(t5) > 1
      BY <1>12, <2>2, <2>4, <3>1, ListFacts, ListConsumed
    <3> QED
      BY <1>12, <2>2, <3>2
  <2>6. Reader2(Head(reader).content)
    BY <1>13, <2>5 DEF Reader3, ReaderOf, peek
  <2>7. peek(outer.value.value, "Sequence") => IsSeq(Head(outer.value.value).content)
    BY <1>13, <2>6, FirstContent
  <2>8. ext.value.value["revoked_certs"] = h["revoked_certs"]
    BY <1>6, <1>14, <2>7, ExtensionsKeep DEF ext
  <2> QED
    BY <1>6, <1>14, <2>2, <2>3, <2>8 DEF r
<1>16. CASE ~peek(t5, "Sequence")
  <2>1. revoked = Read(<< >>, t5)
    BY <1>11, <1>16 DEF revoked, revoked_certs
  <2>2. revoked.value.value = << >> /\ reader = t5
    BY <2>1, ResultFacts
  <2>3. t5 # << >> /\ Tail(t5) = << >>
    BY <1>13, <2>2 DEF peek
  <2>4. Len(t) = 6 /\ Head(reader) = t[6] /\ 6 \in DOMAIN t
    <3>1. Len(Tail(t5)) = Len(t5) - 1 /\ Len(Tail(t5)) = 0
      BY <1>12, <2>3, ListConsumed
    <3>2. Len(t) = 6
      BY <1>12, <3>1
    <3>3. Head(t5) = t[6] /\ 6 \in DOMAIN t
      BY <1>12, <2>3
    <3> QED
      BY <2>2, <3>2, <3>3
  <2>6. Reader2(Head(reader).content)
    BY <1>13, <2>4 DEF Reader3, ReaderOf, peek
  <2>7. peek(outer.value.value, "Sequence") => IsSeq(Head(outer.value.value).content)
    BY <1>13, <2>6, FirstContent
  <2>8. ext.value.value["revoked_certs"] = h["revoked_certs"]
    BY <1>6, <1>14, <2>7, ExtensionsKeep DEF ext
  <2> QED
    BY <1>6, <1>14, <2>2, <2>4, <2>8 DEF r
<1> QED
  BY <1>15, <1>16

\* The to-be-signed part of a CRL.
Tbs(der) == der[1].content[1].content

\* The entries of a CRL that was loaded are those of its to-be-signed part.
LEMMA LoadedEntries ==
    ASSUME NEW der \in CrlInputs, crl_from_der(der).result = "Ok"
    PROVE  /\ Reader2(crl_from_der(der).value.revoked_certs)
           /\ Len(Tbs(der)) < 7 \/ crl_from_der(der).value.revoked_certs = Tbs(der)[6].content
<1> DEFINE r == crl_from_der(der)
           s == expect_tag(der, "Sequence")
           body == s.value.value
           sd == SignedData_from_der(body)
           all == IF sd.result # "Ok" THEN sd
                  ELSE IF sd.value.rest # << >> THEN Err("TrailingData")
                  ELSE Ok(sd.value.value)
           outer == IF s.result # "Ok" THEN Err("TrailingData")
                    ELSE IF all.result = "Ok" THEN Read(all.value, s.value.rest) ELSE all
           tbs == outer.value.value.tbs
           list == tbs_cert_list(tbs, outer.value.value.signed_data)
           crl == IF list.result # "Ok" THEN list
                  ELSE IF list.value.rest # << >> THEN Err("BadDer")
                  ELSE Ok(list.value.value)
           checked == idp_checked(crl.value)
           end == IF outer.value.rest = << >> THEN Ok(checked.value) ELSE Err("TrailingData")
           at2 == IF checked.result = "Ok" THEN end ELSE checked
           at1 == IF crl.result = "Ok" THEN at2 ELSE crl
<1>1. r = IF outer.result = "Ok" THEN at1 ELSE outer
  BY DEF crl_from_der, AndThen, nested, read_to_end
<1>2. Err("BadDer").result # "Ok" /\ Err("TrailingData").result # "Ok"
  BY ResultFacts
<1>3. checked.result = "Ok" => checked = Ok(crl.value)
  BY DEF idp_checked, AndThen
<1> HIDE DEF r, s, sd, all, list, checked
<1>4. r.result = "Ok"
  BY DEF r
<1>5. outer.result = "Ok" /\ crl.result = "Ok" /\ r.value = crl.value
  <2> HIDE DEF outer, crl
  <2>1. outer.result = "Ok" /\ r = at1
    BY <1>1, <1>4
  <2> HIDE DEF at2
  <2>2. crl.result = "Ok" /\ r = at2
    BY <1>4, <2>1
  <2> USE DEF at2
  <2> HIDE DEF end
  <2>3. checked.result = "Ok" /\ r = end
    BY <1>4, <2>2
  <2> USE DEF end
  <2>4. r = Ok(checked.value)
    BY <1>2, <1>4, <2>3
  <2>5. checked.value = crl.value
    BY <1>3, <2>3, ResultFacts
  <2> QED
    BY <2>1, <2>2, <2>4, <2>5, ResultFacts
<1>6. s.result = "Ok" /\ all.result = "Ok" /\ outer.value.value = all.value
  BY <1>2, <1>5, ResultFacts
<1>7. sd.result = "Ok" /\ all.value = sd.value.value
  BY <1>2, <1>6, ResultFacts DEF all
<1>8. list.result = "Ok" /\ list.value.rest = << >> /\ r.value = list.value.value
  BY <1>2, <1>5, ResultFacts
<1>9. /\ peek(der, "Sequence") /\ body = Head(der).content
      /\ peek(body, "Sequence") /\ tbs = Head(body).content
  <2>1. peek(der, "Sequence") /\ body = Head(der).content
    BY <1>6, TagExpected DEF s
  <2> HIDE DEF body
  <2>2. peek(body, "Sequence") /\ sd.value.value.tbs = Head(body).content
    BY <1>7, SignedBegins DEF sd
  <2>3. tbs = sd.value.value.tbs
    BY <1>6, <1>7
  <2> QED
    BY <2>1, <2>2, <2>3
<1> HIDE DEF body, tbs, outer
<1>10. Reader5(der)
  BY CrlInputsAssumption, ReaderWeaker
<1>11. Reader4(body) /\ body = der[1].content
  <2>1. IsSeq(der) /\ der # << >> /\ Head(der).tag = "Sequence"
    BY <1>9, <1>10 DEF Reader5, ReaderOf, peek
  <2>2. 1 \in DOMAIN der /\ Head(der) = der[1]
    BY <2>1, FirstOfList
  <2> QED
    BY <1>9, <1>10, <2>1, <2>2 DEF Reader5, ReaderOf
<1>12. Reader3(tbs) /\ tbs = Tbs(der)
  <2>1. IsSeq(body) /\ body # << >> /\ Head(body).tag = "Sequence"
    BY <1>9, <1>11 DEF Reader4, ReaderOf, peek
  <2>2. 1 \in DOMAIN body /\ Head(body) = body[1]
    BY <2>1, FirstOfList
  <2> QED
    BY <1>9, <1>11, <2>1, <2>2 DEF Reader4, ReaderOf, Tbs
<1>13. \/ /\ Len(tbs) < 7
          /\ r.value.revoked_certs = << >>
       \/ /\ 6 \in DOMAIN tbs /\ tbs[6].tag = "Sequence"
          /\ r.value.revoked_certs = tbs[6].content
  BY <1>8, <1>12, FieldsOfCrl DEF list
<1>14. CASE Len(tbs) < 7 /\ r.value.revoked_certs = << >>
  <2>1. Reader2(<< >>)
    BY DEF Reader2, ReaderOf, IsSeq
  <2> QED
    BY <1>12, <1>14, <2>1 DEF r
<1>15. CASE 6 \in DOMAIN tbs /\ tbs[6].tag = "Sequence" /\ r.value.revoked_certs = tbs[6].content
  BY <1>12, <1>15 DEF r, Reader3, ReaderOf
<1> QED
  BY <1>13, <1>14, <1>15

-----------------------------------------------------------------------------
(* The issuing distribution point of a CRL.                                *)

\* The fields of an issuing distribution point.
IdpNames == {"only_contains_user_certs", "only_contains_ca_certs", "indirect_crl",
             "only_contains_attribute_certs", "distribution_point", "only_some_reasons"}

\* The flags have names and tags of their own.
LEMMA FlagNames ==
    /\ DOMAIN IdpFlags = Flags
    /\ IdpFlags["ContextSpecific1"] = "only_contains_user_certs"
    /\ IdpFlags["ContextSpecific2"] = "only_contains_ca_certs"
    /\ IdpFlags["ContextSpecific4"] = "indirect_crl"
    /\ IdpFlags["ContextSpecific5"] = "only_contains_attribute_certs"
  BY DEF IdpFlags, Flags

Updated(h, f, v) == [h EXCEPT ![f] = v]

\* A field that is set, and the others.
LEMMA UpdatedFields ==
    ASSUME NEW h, NEW f \in DOMAIN h, NEW v
    PROVE  /\ DOMAIN Updated(h, f, v) = DOMAIN h
           /\ Updated(h, f, v)[f] = v
           /\ \A x \in DOMAIN h : x # f => Updated(h, f, v)[x] = h[x]
  BY DEF Updated

\* set_extension_once: the field was empty and the value is read.
LEMMA OnceRead ==
    ASSUME NEW h, NEW f, NEW parsed
    PROVE  /\ set_extension_once(h, f, parsed).result = "Ok" <=>
                  ~IsSome(h[f]) /\ parsed.result = "Ok"
           /\ set_extension_once(h, f, parsed).result = "Ok" =>
                  set_extension_once(h, f, parsed).value = Updated(h, f, Some(parsed.value))
<1> DEFINE r == set_extension_once(h, f, parsed)
           set == IsSome(h[f])
           v == Updated(h, f, Some(parsed.value))
<1>1. r = IF set THEN Err("ExtensionValueInvalid")
          ELSE IF parsed.result = "Ok" THEN Ok(v) ELSE parsed
  BY DEF set_extension_once, AndThen, Updated
<1> HIDE DEF r, set, v
<1>2. Err("ExtensionValueInvalid").result # "Ok"
  BY DEF Err
<1>3. /\ r.result = "Ok" <=> ~set /\ parsed.result = "Ok"
      /\ r.result = "Ok" => r.value = v
  BY <1>1, <1>2, ResultFacts
<1> QED
  BY <1>3 DEF r, set, v

\* One round of the loop over the fields.
LEMMA IdpFieldRead ==
    ASSUME NEW h, NEW e
    PROVE  LET r == idp_field(h, e)
           IN  /\ r.result = "Ok" =>
                      e.tag \in Flags \cup {"ContextSpecificConstructed0", "ContextSpecific3"}
               /\ e.tag \in Flags =>
                      /\ r.result = "Ok" <=> e.content \in {<< 0 >>, << 255 >>}
                      /\ r.result = "Ok" =>
                             r.value = Updated(h, IdpFlags[e.tag], e.content = << 255 >>)
               /\ e.tag = "ContextSpecificConstructed0" =>
                      /\ r.result = "Ok" <=> ~IsSome(h.distribution_point)
                      /\ r.result = "Ok" =>
                             r.value = Updated(h, "distribution_point", Some(e.content))
               /\ e.tag = "ContextSpecific3" /\ r.result = "Ok" =>
                      \E v : r.value = Updated(h, "only_some_reasons", Some(v))
<1> DEFINE r == idp_field(h, e)
           flag == decode_bool(e.content)
           set == e.content = << 255 >>
<1>1. Err("BadDer").result # "Ok"
  BY DEF Err
<1>2. CASE e.tag \in Flags
  <2>1. r = IF flag.result = "Ok" THEN Ok(Updated(h, IdpFlags[e.tag], flag.value)) ELSE flag
    BY <1>2, FlagNames DEF idp_field, AndThen, Updated
  <2>2. flag = IF e.content \in {<< 255 >>, << 0 >>} THEN Ok(set) ELSE Err("BadDer")
    BY DEF decode_bool
  <2> DEFINE ok == e.content \in {<< 255 >>, << 0 >>}
             v == Updated(h, IdpFlags[e.tag], flag.value)
  <2>3. e.tag \notin {"ContextSpecificConstructed0", "ContextSpecific3"}
    BY <1>2 DEF Flags
  <2> HIDE DEF r, flag, set, ok
  <2>4. (flag.result = "Ok" <=> ok) /\ (ok => flag.value = set)
    BY <1>1, <2>2, ResultFacts DEF ok
  <2> HIDE DEF v
  <2>5. (r.result = "Ok" <=> flag.result = "Ok") /\ (r.result = "Ok" => r.value = v)
    BY <2>1, ResultFacts DEF v
  <2>6. r.result = "Ok" <=> e.content \in {<< 0 >>, << 255 >>}
    BY <2>4, <2>5, Zenon DEF ok
  <2>7. r.result = "Ok" => r.value = Updated(h, IdpFlags[e.tag], e.content = << 255 >>)
    BY <2>4, <2>5, Zenon DEF v, set
  <2> QED
    BY <1>2, <2>3, <2>6, <2>7, Zenon DEF r
<1>3. CASE e.tag = "ContextSpecificConstructed0"
  <2>1. e.tag \notin Flags /\ e.tag # "ContextSpecific3"
    BY <1>3 DEF Flags
  <2>2. r = set_extension_once(h, "distribution_point", Ok(e.content))
    BY <1>3, <2>1, FlagNames DEF idp_field
  <2> DEFINE p == Ok(e.content)
             f == "distribution_point"
  <2>3. p.result = "Ok" /\ p.value = e.content
    BY DEF Ok
  <2> HIDE DEF p, r, f
  <2>4. r = set_extension_once(h, f, p)
    BY <2>2 DEF p, f
  <2>5. /\ r.result = "Ok" <=> ~IsSome(h[f]) /\ p.result = "Ok"
        /\ r.result = "Ok" => r.value = Updated(h, f, Some(p.value))
    BY <2>4, OnceRead, Zenon
  <2>6. /\ r.result = "Ok" <=> ~IsSome(h["distribution_point"])
        /\ r.result = "Ok" => r.value = Updated(h, "distribution_point", Some(e.content))
    BY <2>3, <2>5 DEF f
  <2> QED
    BY <1>3, <2>1, <2>6 DEF r
<1>4. CASE e.tag = "ContextSpecific3"
  <2>1. e.tag \notin Flags /\ e.tag # "ContextSpecificConstructed0"
    BY <1>4 DEF Flags
  <2>2. r = set_extension_once(h, "only_some_reasons", bit_string_flags(e.content))
    BY <1>4, <2>1, FlagNames DEF idp_field
  <2> DEFINE p == bit_string_flags(e.content)
             f == "only_some_reasons"
  <2> HIDE DEF p, r, f
  <2>4. r = set_extension_once(h, f, p)
    BY <2>2 DEF p, f
  <2>5. r.result = "Ok" => r.value = Updated(h, f, Some(p.value))
    BY <2>4, OnceRead, Zenon
  <2>3. r.result = "Ok" => r.value = Updated(h, "only_some_reasons", Some(p.value))
    BY <2>5 DEF f
  <2> QED
    BY <1>4, <2>1, <2>3 DEF r
<1>5. CASE e.tag \notin Flags \cup {"ContextSpecificConstructed0", "ContextSpecific3"}
  <2>1. r = Err("BadDer")
    BY <1>5, FlagNames DEF idp_field
  <2> QED
    BY <1>1, <1>5, <2>1
<1> QED
  BY <1>2, <1>3, <1>4, <1>5

\* The first k fields are of known kinds, flags are DER, and there is at most one name.
IdpFine(fields, k) ==
    /\ \A i \in 1..k : \/ fields[i].tag \in {"ContextSpecificConstructed0", "ContextSpecific3"}
                       \/ /\ fields[i].tag \in Flags
                          /\ fields[i].content \in {<< 0 >>, << 255 >>}
    /\ \A i, j \in 1..k :
           {fields[i].tag, fields[j].tag} = {"ContextSpecificConstructed0"} => i = j

\* The last of the first k fields with this tag is TRUE.
LastSet(fields, k, tag) ==
    \E i \in 1..k : /\ fields[i].tag = tag /\ fields[i].content = << 255 >>
                    /\ \A j \in 1..k : fields[j].tag = tag => j <= i

\* What is remembered of the first k fields.
IdpState(fields, k, h) ==
    /\ DOMAIN h = IdpNames
    /\ (\A i \in 1..k : fields[i].tag # "ContextSpecificConstructed0") =>
           h["distribution_point"] = None
    /\ \A i \in 1..k : fields[i].tag = "ContextSpecificConstructed0" =>
           h["distribution_point"] = Some(fields[i].content)
    /\ (\E i \in 1..k : fields[i].tag = "ContextSpecific3") => IsSome(h["only_some_reasons"])
    /\ (\A i \in 1..k : fields[i].tag # "ContextSpecific3") => h["only_some_reasons"] = None
    /\ \A tag \in {"ContextSpecific4", "ContextSpecific5"} :
           /\ LastSet(fields, k, tag) => h[IdpFlags[tag]] = TRUE
           /\ ~LastSet(fields, k, tag) => h[IdpFlags[tag]] = FALSE

\* The last flag of a kind, with a field more.
LEMMA LastSetStep ==
    ASSUME NEW fields, NEW k \in Nat, k > 0, NEW tag
    PROVE  /\ fields[k].tag = tag =>
                  (LastSet(fields, k, tag) <=> fields[k].content = << 255 >>)
           /\ fields[k].tag # tag => (LastSet(fields, k, tag) <=> LastSet(fields, k - 1, tag))
<1> DEFINE is(i) == fields[i].tag = tag
           set(i) == fields[i].content = << 255 >>
<1>1. \A m : LastSet(fields, m, tag) <=>
                 \E i \in 1..m : is(i) /\ set(i) /\ \A j \in 1..m : is(j) => j <= i
  BY DEF LastSet
<1> HIDE DEF is, set
<1>2. k \in 1..k /\ \A i \in 1..k : i <= k /\ i \in Int
  OBVIOUS
<1>3. ASSUME is(k) PROVE LastSet(fields, k, tag) <=> set(k)
  <2>1. LastSet(fields, k, tag) => set(k)
    <3> SUFFICES ASSUME NEW i \in 1..k, is(i), set(i), \A j \in 1..k : is(j) => j <= i
                 PROVE  set(k)
      BY <1>1
    <3>1. k <= i
      BY <1>2, <1>3
    <3>2. i = k
      BY <3>1
    <3> QED
      BY <3>2
  <2>2. set(k) => LastSet(fields, k, tag)
    BY <1>1, <1>2, <1>3
  <2> QED
    BY <2>1, <2>2
<1>4. ASSUME ~is(k) PROVE LastSet(fields, k, tag) <=> LastSet(fields, k - 1, tag)
  <2>1. \A i \in 1..k : i # k <=> i \in 1..(k - 1)
    OBVIOUS
  <2>2. 1..(k - 1) \subseteq 1..k
    OBVIOUS
  <2>3. LastSet(fields, k, tag) => LastSet(fields, k - 1, tag)
    <3> SUFFICES ASSUME NEW i \in 1..k, is(i), set(i), \A j \in 1..k : is(j) => j <= i
                 PROVE  LastSet(fields, k - 1, tag)
      BY <1>1
    <3>1. i \in 1..(k - 1)
      BY <1>4, <2>1
    <3>2. \A j \in 1..(k - 1) : is(j) => j <= i
      BY <2>2
    <3> QED
      BY <1>1, <3>1, <3>2
  <2>4. LastSet(fields, k - 1, tag) => LastSet(fields, k, tag)
    <3> SUFFICES ASSUME NEW i \in 1..(k - 1), is(i), set(i),
                        \A j \in 1..(k - 1) : is(j) => j <= i
                 PROVE  LastSet(fields, k, tag)
      BY <1>1
    <3>1. i \in 1..k
      BY <2>2
    <3>2. \A j \in 1..k : is(j) => j <= i
      BY <1>4, <2>1
    <3> QED
      BY <1>1, <3>1, <3>2
  <2> QED
    BY <2>3, <2>4
<1> QED
  BY <1>3, <1>4 DEF is, set

\* A field more.
LEMMA IdpStep ==
    ASSUME NEW fields, NEW k \in Nat, k > 0, NEW h,
           IdpFine(fields, k - 1), IdpState(fields, k - 1, h)
    PROVE  LET r == idp_field(h, fields[k])
           IN  /\ r.result = "Ok" => IdpFine(fields, k) /\ IdpState(fields, k, r.value)
               /\ IdpFine(fields, k) /\ fields[k].tag # "ContextSpecific3" => r.result = "Ok"
<1> DEFINE e == fields[k]
           r == idp_field(h, e)
           w == r.value
           name(i) == fields[i].tag = "ContextSpecificConstructed0"
           partial(i) == fields[i].tag = "ContextSpecific3"
           good(i) == \/ fields[i].tag \in {"ContextSpecificConstructed0", "ContextSpecific3"}
                      \/ /\ fields[i].tag \in Flags
                         /\ fields[i].content \in {<< 0 >>, << 255 >>}
<1>1. k \in 1..k /\ 1..(k - 1) \subseteq 1..k /\ \A i \in 1..k : i # k => i \in 1..(k - 1)
  OBVIOUS
<1>2. \A m : IdpFine(fields, m) <=> /\ \A i \in 1..m : good(i)
                                    /\ \A i, j \in 1..m : name(i) /\ name(j) => i = j
  BY ZenonT(60) DEF IdpFine
<1>3. \A m, x : IdpState(fields, m, x) <=>
          /\ DOMAIN x = IdpNames
          /\ (\A i \in 1..m : ~name(i)) => x["distribution_point"] = None
          /\ \A i \in 1..m : name(i) => x["distribution_point"] = Some(fields[i].content)
          /\ (\E i \in 1..m : partial(i)) => IsSome(x["only_some_reasons"])
          /\ (\A i \in 1..m : ~partial(i)) => x["only_some_reasons"] = None
          /\ \A tag \in {"ContextSpecific4", "ContextSpecific5"} :
                 /\ LastSet(fields, m, tag) => x[IdpFlags[tag]] = TRUE
                 /\ ~LastSet(fields, m, tag) => x[IdpFlags[tag]] = FALSE
  BY DEF IdpState
<1>4. /\ r.result = "Ok" =>
             e.tag \in Flags \cup {"ContextSpecificConstructed0", "ContextSpecific3"}
      /\ e.tag \in Flags =>
             /\ r.result = "Ok" <=> e.content \in {<< 0 >>, << 255 >>}
             /\ r.result = "Ok" => w = Updated(h, IdpFlags[e.tag], e.content = << 255 >>)
      /\ e.tag = "ContextSpecificConstructed0" =>
             /\ r.result = "Ok" <=> ~IsSome(h.distribution_point)
             /\ r.result = "Ok" => w = Updated(h, "distribution_point", Some(e.content))
      /\ e.tag = "ContextSpecific3" /\ r.result = "Ok" =>
             \E v : w = Updated(h, "only_some_reasons", Some(v))
  BY IdpFieldRead
<1>5. IsSome(Some(e.content)) /\ ~IsSome(None) /\ \A v : IsSome(Some(v))
  BY DEF IsSome, Some, None
<1> HIDE DEF r, w
<1>6. r.result = "Ok" => good(k)
  BY <1>4
<1> HIDE DEF name, partial, good
<1>7. /\ DOMAIN h = IdpNames
      /\ (\A i \in 1..(k - 1) : ~name(i)) => h["distribution_point"] = None
      /\ \A i \in 1..(k - 1) : name(i) => h["distribution_point"] = Some(fields[i].content)
      /\ (\E i \in 1..(k - 1) : partial(i)) => IsSome(h["only_some_reasons"])
      /\ (\A i \in 1..(k - 1) : ~partial(i)) => h["only_some_reasons"] = None
      /\ \A tag \in {"ContextSpecific4", "ContextSpecific5"} :
                 /\ LastSet(fields, k - 1, tag) => h[IdpFlags[tag]] = TRUE
                 /\ ~LastSet(fields, k - 1, tag) => h[IdpFlags[tag]] = FALSE
  BY <1>3
<1>8. /\ \A i \in 1..(k - 1) : good(i)
      /\ \A i, j \in 1..(k - 1) : name(i) /\ name(j) => i = j
  BY <1>2
<1>9. \A tag \in {"ContextSpecific4", "ContextSpecific5"} :
          /\ e.tag = tag => (LastSet(fields, k, tag) <=> e.content = << 255 >>)
          /\ e.tag # tag => (LastSet(fields, k, tag) <=> LastSet(fields, k - 1, tag))
  BY LastSetStep
<1>10. name(k) => (IsSome(h["distribution_point"]) <=> \E i \in 1..(k - 1) : name(i))
  BY <1>5, <1>7 DEF IsSome, Some
<1>11. ASSUME r.result = "Ok" PROVE IdpFine(fields, k)
  <2>1. \A i \in 1..k : good(i)
    BY <1>1, <1>6, <1>8, <1>11
  <2>2. name(k) => \A i \in 1..(k - 1) : ~name(i)
    BY <1>4, <1>10, <1>11 DEF name
  <2>3. \A i, j \in 1..k : name(i) /\ name(j) => i = j
    BY <1>1, <1>8, <2>2
  <2> QED
    BY <1>2, <2>1, <2>3
<1>12. ASSUME IdpFine(fields, k), e.tag # "ContextSpecific3" PROVE r.result = "Ok"
  <2>1. good(k)
    BY <1>1, <1>2, <1>12
  <2>2. CASE e.tag \in Flags
    BY <1>4, <1>12, <2>1, <2>2 DEF good, Flags
  <2>3. CASE e.tag = "ContextSpecificConstructed0"
    <3>1. name(k)
      BY <2>3 DEF name
    <3>2. \A i \in 1..(k - 1) : ~name(i)
      <4>1. \A i \in 1..(k - 1) : i # k /\ i \in 1..k
        OBVIOUS
      <4> QED
        BY <1>1, <1>2, <1>12, <3>1, <4>1
    <3> QED
      BY <1>4, <1>10, <2>3, <3>1, <3>2
  <2> QED
    BY <1>12, <2>1, <2>2, <2>3 DEF good
<1> HIDE DEF e
<1>13. ASSUME r.result = "Ok" PROVE IdpState(fields, k, w)
  <2>1. /\ "distribution_point" \in IdpNames /\ "only_some_reasons" \in IdpNames
        /\ \A tag \in Flags : IdpFlags[tag] \in
               IdpNames \ {"distribution_point", "only_some_reasons"}
    BY FlagNames DEF IdpNames, Flags
  <2>2. CASE e.tag \in Flags
    <3> DEFINE f == IdpFlags[e.tag]
               b == e.content = << 255 >>
    <3>1. w = Updated(h, f, b)
      BY <1>4, <1>13, <2>2
    <3>2. f \in DOMAIN h /\ f # "distribution_point" /\ f # "only_some_reasons"
      BY <1>7, <2>1, <2>2
    <3> HIDE DEF f, b
    <3>3. /\ DOMAIN w = DOMAIN h /\ w[f] = b
          /\ \A x \in DOMAIN h : x # f => w[x] = h[x]
      BY <3>1, <3>2, UpdatedFields
    <3>4. ~name(k) /\ ~partial(k)
      BY <2>2 DEF name, partial, e, Flags
    <3>5. /\ w["distribution_point"] = h["distribution_point"]
          /\ w["only_some_reasons"] = h["only_some_reasons"]
      BY <1>7, <2>1, <3>2, <3>3
    <3>6. ASSUME NEW tag \in {"ContextSpecific4", "ContextSpecific5"}
          PROVE  /\ LastSet(fields, k, tag) => w[IdpFlags[tag]] = TRUE
                 /\ ~LastSet(fields, k, tag) => w[IdpFlags[tag]] = FALSE
      <4>1. CASE e.tag = tag
        <5>1. f = IdpFlags[tag]
          BY <4>1 DEF f
        <5>2. LastSet(fields, k, tag) <=> b
          BY <1>9, <4>1 DEF b
        <5>3. b \in BOOLEAN
          BY DEF b
        <5> QED
          BY <3>3, <5>1, <5>2, <5>3
      <4>2. CASE e.tag # tag
        <5>1. IdpFlags[tag] # f /\ IdpFlags[tag] \in DOMAIN h
          BY <1>7, <2>2, <4>2, FlagNames DEF f, Flags, IdpNames
        <5> QED
          BY <1>7, <1>9, <3>3, <4>2, <5>1
      <4> QED
        BY <4>1, <4>2
    <3>7. (\A i \in 1..k : ~name(i)) => w["distribution_point"] = None
      BY <1>1, <1>7, <3>5
    <3>8. \A i \in 1..k : name(i) => w["distribution_point"] = Some(fields[i].content)
      BY <1>1, <1>7, <3>4, <3>5
    <3>9. (\E i \in 1..k : partial(i)) => IsSome(w["only_some_reasons"])
      BY <1>1, <1>7, <3>4, <3>5
    <3>10. (\A i \in 1..k : ~partial(i)) => w["only_some_reasons"] = None
      BY <1>1, <1>7, <3>5
    <3> QED
      BY <1>3, <1>7, <3>3, <3>6, <3>7, <3>8, <3>9, <3>10
  <2>3. CASE e.tag = "ContextSpecificConstructed0"
    <3>1. w = Updated(h, "distribution_point", Some(e.content))
      BY <1>4, <1>13, <2>3
    <3>2. /\ DOMAIN w = DOMAIN h /\ w["distribution_point"] = Some(e.content)
          /\ \A x \in DOMAIN h : x # "distribution_point" => w[x] = h[x]
      BY <1>7, <2>1, <3>1, UpdatedFields
    <3>3. name(k) /\ ~partial(k) /\ \A i \in 1..(k - 1) : ~name(i)
      BY <1>4, <1>10, <1>13, <2>3 DEF name, partial, e
    <3>4. w["only_some_reasons"] = h["only_some_reasons"]
      BY <1>7, <2>1, <3>2
    <3>5. ASSUME NEW tag \in {"ContextSpecific4", "ContextSpecific5"}
          PROVE  /\ LastSet(fields, k, tag) => w[IdpFlags[tag]] = TRUE
                 /\ ~LastSet(fields, k, tag) => w[IdpFlags[tag]] = FALSE
      <4>1. tag \in Flags /\ e.tag # tag
        BY <2>3 DEF Flags
      <4>2. w[IdpFlags[tag]] = h[IdpFlags[tag]]
        BY <1>7, <2>1, <3>2, <4>1
      <4> QED
        BY <1>7, <1>9, <4>1, <4>2
    <3>6. (\A i \in 1..k : ~name(i)) => w["distribution_point"] = None
      BY <1>1, <3>3
    <3>7. \A i \in 1..k : name(i) => w["distribution_point"] = Some(fields[i].content)
      <4> SUFFICES ASSUME NEW i \in 1..k, name(i)
                   PROVE  w["distribution_point"] = Some(fields[i].content)
        OBVIOUS
      <4>1. i = k
        BY <1>1, <3>3
      <4> QED
        BY <3>2, <4>1 DEF e
    <3>8. (\E i \in 1..k : partial(i)) => IsSome(w["only_some_reasons"])
      BY <1>1, <1>7, <3>3, <3>4
    <3>9. (\A i \in 1..k : ~partial(i)) => w["only_some_reasons"] = None
      BY <1>1, <1>7, <3>4
    <3> QED
      BY <1>3, <1>7, <3>2, <3>5, <3>6, <3>7, <3>8, <3>9
  <2>4. CASE e.tag = "ContextSpecific3"
    <3>1. PICK v : w = Updated(h, "only_some_reasons", Some(v))
      BY <1>4, <1>13, <2>4
    <3>2. /\ DOMAIN w = DOMAIN h /\ w["only_some_reasons"] = Some(v)
          /\ \A x \in DOMAIN h : x # "only_some_reasons" => w[x] = h[x]
      BY <1>7, <2>1, <3>1, UpdatedFields
    <3>3. ~name(k) /\ partial(k)
      BY <2>4 DEF name, partial, e
    <3>4. w["distribution_point"] = h["distribution_point"]
      BY <1>7, <2>1, <3>2
    <3>5. ASSUME NEW tag \in {"ContextSpecific4", "ContextSpecific5"}
          PROVE  /\ LastSet(fields, k, tag) => w[IdpFlags[tag]] = TRUE
                 /\ ~LastSet(fields, k, tag) => w[IdpFlags[tag]] = FALSE
      <4>1. tag \in Flags /\ e.tag # tag
        BY <2>4 DEF Flags
      <4>2. w[IdpFlags[tag]] = h[IdpFlags[tag]]
        BY <1>7, <2>1, <3>2, <4>1
      <4> QED
        BY <1>7, <1>9, <4>1, <4>2
    <3>6. (\A i \in 1..k : ~name(i)) => w["distribution_point"] = None
      BY <1>1, <1>7, <3>4
    <3>7. \A i \in 1..k : name(i) => w["distribution_point"] = Some(fields[i].content)
      BY <1>1, <1>7, <3>3, <3>4
    <3>8. IsSome(w["only_some_reasons"])
      BY <1>5, <3>2
    <3>9. ~(\A i \in 1..k : ~partial(i))
      BY <1>1, <3>3
    <3> QED
      BY <1>3, <1>7, <3>2, <3>5, <3>6, <3>7, <3>8, <3>9
  <2> QED
    BY <1>4, <1>13, <2>2, <2>3, <2>4
<1> QED
  BY <1>11, <1>12, <1>13 DEF r, w, e

\* The loop over the fields.
EmptyIdp ==
    [ only_contains_user_certs |-> FALSE, only_contains_ca_certs |-> FALSE,
      indirect_crl |-> FALSE, only_contains_attribute_certs |-> FALSE,
      distribution_point |-> None, only_some_reasons |-> None ]

LEMMA IdpLoop ==
    ASSUME NEW fields, IsSeq(fields)
    PROVE  LET loop == Loop(idp_field, EmptyIdp, fields)
               n == Len(fields)
           IN  /\ loop.result = "Ok" => IdpFine(fields, n) /\ IdpState(fields, n, loop.value)
               /\ IdpFine(fields, n) /\ (\A i \in 1..n : fields[i].tag # "ContextSpecific3") =>
                      loop.result = "Ok"
<1> DEFINE n == Len(fields)
           loop == Loop(idp_field, EmptyIdp, fields)
<1>1. n \in Nat
  BY ListFacts
<1>2. PICK g : Rounds("idp", EmptyIdp, fields, n, g) /\ loop = g[n]
  BY <1>1, LoopIsRounds
<1> HIDE DEF n, loop
<1>3. \A i \in 0..n : g[i] = IF i = 0 THEN Ok(EmptyIdp) ELSE Advance("idp", g[i - 1], fields[i])
  BY <1>2 DEF Rounds
<1> DEFINE Sound(k) == g[k].result = "Ok" => IdpFine(fields, k) /\ IdpState(fields, k, g[k].value)
           Total(k) == IdpFine(fields, k) /\ (\A i \in 1..k : fields[i].tag # "ContextSpecific3") =>
                           g[k].result = "Ok"
           G == {k \in Nat : Sound(k) /\ Total(k)}
<1>4. 0 \in G
  <2>1. g[0] = Ok(EmptyIdp)
    BY <1>1, <1>3
  <2>2. g[0].result = "Ok" /\ g[0].value = EmptyIdp
    BY <2>1, ResultFacts
  <2>3. 1..0 = {}
    OBVIOUS
  <2>4. IdpFine(fields, 0)
    BY <2>3 DEF IdpFine
  <2>5. \A tag : ~LastSet(fields, 0, tag)
    BY <2>3 DEF LastSet
  <2>6. /\ DOMAIN EmptyIdp = IdpNames
        /\ EmptyIdp["distribution_point"] = None /\ EmptyIdp["only_some_reasons"] = None
        /\ EmptyIdp["indirect_crl"] = FALSE /\ EmptyIdp["only_contains_attribute_certs"] = FALSE
    BY DEF EmptyIdp, IdpNames
  <2>7. IdpState(fields, 0, EmptyIdp)
    BY <2>3, <2>5, <2>6, FlagNames DEF IdpState
  <2> QED
    BY <2>2, <2>4, <2>7
<1>5. ASSUME NEW k \in 1..n, k - 1 \in G PROVE k \in G
  <2> DEFINE h == g[k - 1].value
             r == idp_field(h, fields[k])
  <2>1. Sound(k - 1) /\ Total(k - 1) /\ k \in Nat /\ k > 0
    BY <1>5
  <2>2. g[k] = Advance("idp", g[k - 1], fields[k])
    BY <1>3
  <2>3. 1..(k - 1) \subseteq 1..k /\ k \in 1..k
    OBVIOUS
  <2>4. CASE g[k - 1].result = "Ok"
    <3>1. g[k] = r
      BY <2>2, <2>4 DEF Advance, RoundFor
    <3>2. IdpFine(fields, k - 1) /\ IdpState(fields, k - 1, h)
      BY <2>1, <2>4
    <3>3. /\ r.result = "Ok" => IdpFine(fields, k) /\ IdpState(fields, k, r.value)
          /\ IdpFine(fields, k) /\ fields[k].tag # "ContextSpecific3" => r.result = "Ok"
      BY <2>1, <3>2, IdpStep
    <3> QED
      BY <2>1, <2>3, <3>1, <3>3
  <2>5. CASE g[k - 1].result # "Ok"
    <3>1. g[k] = g[k - 1]
      BY <2>2, <2>5 DEF Advance
    <3>2. IdpFine(fields, k) => IdpFine(fields, k - 1)
      BY <2>3 DEF IdpFine
    <3>3. Total(k)
      BY <2>1, <2>3, <2>5, <3>2
    <3>4. Sound(k)
      BY <2>5, <3>1
    <3> QED
      BY <2>1, <3>3, <3>4
  <2> QED
    BY <2>4, <2>5
<1> HIDE DEF G
<1>6. n \in G
  <2>1. \A i \in 0..n : i \in G
    BY <1>1, <1>4, <1>5, IndexInduction
  <2> QED
    BY <1>1, <2>1
<1> QED
  BY <1>2, <1>6 DEF G, n, loop

\* The checks after the loop.
LEMMA IdpChecks ==
    ASSUME NEW h, NEW indirect \in BOOLEAN, h["indirect_crl"] = indirect,
           NEW attributes \in BOOLEAN, h["only_contains_attribute_certs"] = attributes
    PROVE  LET r == idp_supported(h)
               dp == The(h["distribution_point"])
           IN  /\ r.result = "Ok" <=> /\ ~attributes /\ ~indirect
                                      /\ ~IsSome(h["only_some_reasons"])
                                      /\ IsSome(h["distribution_point"])
                                      /\ peek(dp, "ContextSpecificConstructed0")
               /\ r.result = "Ok" => /\ r.value = h
                                     /\ The(names(h).value).names = Head(dp).content
<1> DEFINE r == idp_supported(h)
           dp == The(h["distribution_point"])
           some == IsSome(h["distribution_point"])
           partial == IsSome(h["only_some_reasons"])
           attr == h["only_contains_attribute_certs"]
           ind == h["indirect_crl"]
           d == DistributionPointName_from_der(dp)
           ns == names(h)
           full == IsSome(ns.value) /\ The(ns.value).type = "FullName"
<1>1. r = IF attr THEN Err("MalformedExtensions")
          ELSE IF ind THEN Err("UnsupportedIndirectCrl")
          ELSE IF partial THEN Err("UnsupportedRevocationReasonsPartitioning")
          ELSE IF ns.result # "Ok" THEN Err("MalformedExtensions")
          ELSE IF full THEN Ok(h)
          ELSE Err("UnsupportedCrlIssuingDistributionPoint")
  BY DEF idp_supported
<1>2. /\ Err("MalformedExtensions").result # "Ok" /\ Err("UnsupportedIndirectCrl").result # "Ok"
      /\ Err("UnsupportedRevocationReasonsPartitioning").result # "Ok"
      /\ Err("UnsupportedCrlIssuingDistributionPoint").result # "Ok"
      /\ Err("BadDer").result # "Ok"
  BY DEF Err
<1>3. ns = IF ~some THEN Ok(None) ELSE IF d.result = "Ok" THEN Ok(Some(d.value)) ELSE d
  BY DEF names, AndThen
<1> HIDE DEF r, some, partial, attr, ind, ns, full
<1>4. ASSUME some PROVE /\ ns.result = "Ok" <=> d.result = "Ok"
                        /\ d.result = "Ok" => IsSome(ns.value) /\ The(ns.value) = d.value
  <2> HIDE DEF d
  <2>1. /\ ns.result = "Ok" <=> d.result = "Ok"
        /\ d.result = "Ok" => ns.value = Some(d.value)
    BY <1>3, <1>4, ResultFacts
  <2>2. \A v : IsSome(Some(v)) /\ The(Some(v)) = v
    BY DEF IsSome, Some, The
  <2> QED
    BY <2>1, <2>2
<1>5. ~some => ns.value = None /\ ~IsSome(ns.value)
  BY <1>3, ResultFacts DEF IsSome, None
<1>6. /\ peek(dp, "ContextSpecificConstructed0") =>
             /\ d.result = "Ok" /\ d.value.type = "FullName"
             /\ d.value.names = Head(dp).content
      /\ ~peek(dp, "ContextSpecificConstructed0") /\ d.result = "Ok" => d.value.type # "FullName"
  <2> DEFINE tag == Head(dp).tag
             f == [type |-> "FullName", names |-> Head(dp).content]
             o == [type |-> "NameRelativeToCrlIssuer"]
  <2>1. d = IF dp = << >> THEN Err("BadDer")
            ELSE IF tag = "ContextSpecificConstructed0" THEN Ok(f)
            ELSE IF tag = "ContextSpecificConstructed1" THEN Ok(o)
            ELSE Err("BadDer")
    BY DEF DistributionPointName_from_der
  <2>2. f.type = "FullName" /\ f.names = Head(dp).content /\ o.type # "FullName"
    OBVIOUS
  <2> HIDE DEF d, f, o, dp
  <2>3. CASE peek(dp, "ContextSpecificConstructed0")
    <3>1. d = Ok(f)
      BY <2>1, <2>3 DEF peek
    <3> QED
      BY <2>2, <2>3, <3>1, ResultFacts
  <2>4. CASE ~peek(dp, "ContextSpecificConstructed0")
    <3>1. d = Err("BadDer") \/ d = Ok(o)
      BY <2>1, <2>4 DEF peek
    <3> QED
      BY <1>2, <2>2, <2>4, <3>1, ResultFacts
  <2> QED
    BY <2>3, <2>4
<1> HIDE DEF d, dp
<1>7. full /\ ns.result = "Ok" <=> some /\ peek(dp, "ContextSpecificConstructed0")
  BY <1>4, <1>5, <1>6 DEF full
<1>8. /\ r.result = "Ok" <=> attr = FALSE /\ ind = FALSE /\ ~partial /\ ns.result = "Ok" /\ full
      /\ r.result = "Ok" => r.value = h
  <2>1. attr \in BOOLEAN /\ ind \in BOOLEAN
    BY DEF attr, ind
  <2> QED
    BY <1>1, <1>2, <2>1, ResultFacts
<1>9. r.result = "Ok" => The(ns.value).names = Head(dp).content
  BY <1>4, <1>6, <1>7, <1>8
<1> QED
  BY <1>7, <1>8, <1>9 DEF r, dp, some, partial, attr, ind, ns

\* A set with one index.
LEMMA OneIndex ==
    ASSUME NEW n \in Nat, NEW I, I \subseteq 1..n
    PROVE  Cardinality(I) = 1 <=> I # {} /\ \A i, j \in I : i = j
<1>1. IsFiniteSet(I)
  <2>1. IsFiniteSet(1..n)
    <3>1. 1 \in Int /\ n \in Int
      OBVIOUS
    <3> QED
      BY <3>1, FS_Interval
  <2> QED
    BY <2>1, FS_Subset
<1>2. Cardinality(I) = 1 <=> \E x : I = {x}
  BY <1>1, FS_Singleton
<1>3. (\E x : I = {x}) <=> I # {} /\ \A i, j \in I : i = j
  <2>1. ASSUME NEW x \in I, \A i, j \in I : i = j PROVE I = {x}
    BY <2>1
  <2>2. ASSUME NEW x, I = {x} PROVE I # {} /\ \A i, j \in I : i = j
    BY <2>2
  <2> QED
    BY <2>1, <2>2
<1> QED
  BY <1>2, <1>3

\* The fields that make the checks of an issuing distribution point pass.
TakenIdp(fields) ==
    LET n == Len(fields)
        name(i) == fields[i].tag = "ContextSpecificConstructed0"
    IN  /\ \E i \in 1..n : name(i)
        /\ \A i, j \in 1..n : name(i) /\ name(j) => i = j
        /\ \A i \in 1..n : name(i) => peek(fields[i].content, "ContextSpecificConstructed0")
        /\ \A i \in 1..n : name(i) \/ (fields[i].tag \in Flags
                                       /\ fields[i].content \in {<< 0 >>, << 255 >>})
        /\ ~LastSet(fields, n, "ContextSpecific4")
        /\ ~LastSet(fields, n, "ContextSpecific5")

\* The order of the fields is strict.
LEMMA PrecedesStrict ==
    ASSUME NEW tag
    PROVE  ~Precedes(tag, tag)
<1>1. \A m, n \in DOMAIN IdpFieldTags : IdpFieldTags[m] = IdpFieldTags[n] => m = n
  BY DEF IdpFieldTags
<1>2. \A m \in DOMAIN IdpFieldTags : ~(m < m)
  BY DEF IdpFieldTags
<1> QED
  BY <1>1, <1>2, Zenon DEF Precedes

\* What is supported is taken.
LEMMA SupportedIdpTaken ==
    ASSUME NEW value, Reader3(value), SupportedIdp(value)
    PROVE  peek(value, "Sequence") /\ TakenIdp(Head(value).content)
<1> DEFINE fields == Head(value).content
           n == Len(fields)
           name(i) == fields[i].tag = "ContextSpecificConstructed0"
           zero(i) == fields[i].tag \in Flags /\ fields[i].content = << 0 >>
           set(i) == fields[i].tag \in Flags \ UnsupportedFlags /\ fields[i].content = << 255 >>
           only(i) == Tags(fields[i].content) = << "ContextSpecificConstructed0" >>
<1>1. IsSeq(value) /\ Tags(value) = << "Sequence" >>
  BY DEF Reader3, ReaderOf, SupportedIdp
<1>2. peek(value, "Sequence")
  BY <1>1, OnlyElement
<1>3. 1 \in DOMAIN value /\ Head(value) = value[1] /\ value[1].tag = "Sequence"
  BY <1>1, <1>2, PeekFirst
<1>4. Reader2(fields)
  BY <1>3 DEF Reader3, ReaderOf
<1>5. /\ \A f \in Range(fields) :
            \/ /\ f.tag = "ContextSpecificConstructed0"
               /\ Tags(f.content) = << "ContextSpecificConstructed0" >>
            \/ f.tag \in Flags /\ f.content = << 0 >>
            \/ f.tag \in Flags \ UnsupportedFlags /\ f.content = << 255 >>
      /\ \E f \in Range(fields) : f.tag = "ContextSpecificConstructed0"
      /\ \A i, j \in DOMAIN fields : i < j => Precedes(fields[i].tag, fields[j].tag)
  BY Zenon DEF SupportedIdp
<1> HIDE DEF fields
<1>6. IsSeq(fields)
  BY <1>4 DEF Reader2, ReaderOf
<1>7. n \in Nat /\ DOMAIN fields = 1..n
  BY <1>6, ListFacts
<1>8. /\ \A i \in 1..n : (name(i) /\ only(i)) \/ zero(i) \/ set(i)
      /\ \E i \in 1..n : name(i)
      /\ \A i, j \in 1..n : i < j => Precedes(fields[i].tag, fields[j].tag)
  BY <1>5, <1>7 DEF Range
<1>9. \A i, j \in 1..n : name(i) /\ name(j) => i = j
  <2> SUFFICES ASSUME NEW i \in 1..n, NEW j \in 1..n, name(i), name(j), i # j PROVE FALSE
    OBVIOUS
  <2>1. i < j \/ j < i
    BY <1>7
  <2> HIDE DEF n
  <2> QED
    BY <1>8, <2>1, PrecedesStrict
<1>10. \A i \in 1..n : name(i) => peek(fields[i].content, "ContextSpecificConstructed0")
  <2> SUFFICES ASSUME NEW i \in 1..n, name(i)
               PROVE  peek(fields[i].content, "ContextSpecificConstructed0")
    OBVIOUS
  <2>1. only(i)
    BY <1>8 DEF Flags
  <2>2. Reader1(fields[i].content)
    BY <1>4, <1>7 DEF Reader2, ReaderOf
  <2>3. IsSeq(fields[i].content)
    BY <2>2 DEF Reader1, ReaderOf
  <2> QED
    BY <2>1, <2>3, OnlyElement
<1>11. \A i \in 1..n : name(i) \/ (fields[i].tag \in Flags
                                   /\ fields[i].content \in {<< 0 >>, << 255 >>})
  BY <1>8
<1>12. \A tag \in UnsupportedFlags : ~LastSet(fields, n, tag)
  <2> SUFFICES ASSUME NEW tag \in UnsupportedFlags, NEW i \in 1..n,
                      fields[i].tag = tag, fields[i].content = << 255 >>
               PROVE  FALSE
    BY DEF LastSet
  <2>1. << 0 >> # << 255 >>
    OBVIOUS
  <2>2. ~zero(i) /\ ~set(i)
    BY <2>1
  <2>3. ~name(i)
    BY DEF UnsupportedFlags
  <2> QED
    BY <1>8, <2>2, <2>3
<1>13. ~LastSet(fields, n, "ContextSpecific4") /\ ~LastSet(fields, n, "ContextSpecific5")
  BY <1>12 DEF UnsupportedFlags
<1>14. TakenIdp(fields)
  BY <1>8, <1>9, <1>10, <1>11, <1>13, Zenon DEF TakenIdp
<1> QED
  BY <1>2, <1>14 DEF fields

\* What is taken is tolerated.
LEMMA TakenIdpTolerated ==
    ASSUME NEW value, Reader3(value), peek(value, "Sequence"), TakenIdp(Head(value).content)
    PROVE  ToleratedIdp(value)
<1> DEFINE fields == Head(value).content
           n == Len(fields)
           With(tag) == {i \in DOMAIN fields : fields[i].tag = tag}
           dp == "ContextSpecificConstructed0"
<1>1. IsSeq(value)
  BY DEF Reader3, ReaderOf
<1>2. 1 \in DOMAIN value /\ Head(value) = value[1] /\ value[1].tag = "Sequence"
  BY <1>1, PeekFirst
<1>3. Reader2(fields)
  BY <1>2 DEF Reader3, ReaderOf
<1>4. /\ \E i \in 1..n : fields[i].tag = dp
      /\ \A i, j \in 1..n : fields[i].tag = dp /\ fields[j].tag = dp => i = j
      /\ \A i \in 1..n : fields[i].tag = dp => peek(fields[i].content, dp)
      /\ \A i \in 1..n : fields[i].tag = dp \/ (fields[i].tag \in Flags
                                               /\ fields[i].content \in {<< 0 >>, << 255 >>})
      /\ ~LastSet(fields, n, "ContextSpecific4")
      /\ ~LastSet(fields, n, "ContextSpecific5")
  BY Zenon DEF TakenIdp
<1> HIDE DEF fields
<1>5. IsSeq(fields)
  BY <1>3 DEF Reader2, ReaderOf
<1>6. n \in Nat /\ DOMAIN fields = 1..n
  BY <1>5, ListFacts
<1>7. \A f \in Range(fields) :
          \/ f.tag = dp /\ peek(f.content, dp)
          \/ f.tag \in Flags /\ f.content \in {<< 0 >>, << 255 >>}
  BY <1>4, <1>6 DEF Range
<1>8. Cardinality(With(dp)) = 1
  <2> DEFINE I == With(dp)
  <2>1. I \subseteq 1..n /\ I # {} /\ \A i, j \in I : i = j
    BY <1>4, <1>6
  <2> HIDE DEF I, n
  <2>2. Cardinality(I) = 1
    BY <1>6, <2>1, OneIndex
  <2> QED
    BY <2>2 DEF I
<1>9. \A tag \in UnsupportedFlags : With(tag) # {} => \E i \in With(tag) : fields[i].content = << 0 >>
  <2> SUFFICES ASSUME NEW tag \in UnsupportedFlags, With(tag) # {}
               PROVE  \E i \in With(tag) : fields[i].content = << 0 >>
    OBVIOUS
  <2> DEFINE I == With(tag)
  <2>1. I \in SUBSET (1..n) /\ I # {} /\ \A i \in 1..n : i \in I <=> fields[i].tag = tag
    BY <1>6
  <2> HIDE DEF I, n
  <2>2. PICK k \in I : \A i \in I : i <= k
    BY <1>6, <2>1, GreatestIndex
  <2>3. ~LastSet(fields, n, tag)
    BY <1>4 DEF UnsupportedFlags
  <2>4. fields[k].tag = tag /\ k \in 1..n
    BY <2>1
  <2>5. fields[k].content # << 255 >>
    BY <2>1, <2>2, <2>3, <2>4 DEF LastSet
  <2>6. fields[k].tag # dp
    BY <2>4 DEF UnsupportedFlags
  <2>7. fields[k].content = << 0 >>
    BY <1>4, <2>4, <2>5, <2>6
  <2> QED
    BY <2>7 DEF I
<1> QED
  BY <1>7, <1>8, <1>9, Zenon DEF ToleratedIdp, fields

\* IssuingDistributionPoint::from_der takes exactly the distribution points with such fields,
\* and the name of one that it takes is a list of names.
LEMMA IdpRead ==
    ASSUME NEW value, Reader3(value)
    PROVE  LET r == IssuingDistributionPoint_from_der(value)
           IN  /\ r.result = "Ok" <=> peek(value, "Sequence") /\ TakenIdp(Head(value).content)
               /\ r.result = "Ok" => IsSeq(idp_view(r.value).names)
<1> DEFINE r == IssuingDistributionPoint_from_der(value)
           outer == expect_tag(value, "Sequence")
           items == outer.value.value
           loop == Loop(idp_field, EmptyIdp, items)
           fields == Head(value).content
           h == loop.value
           s == idp_supported(h)
<1>1. r = IF outer.result # "Ok" THEN Err("TrailingData")
          ELSE IF loop.result = "Ok" THEN s ELSE loop
  BY DEF IssuingDistributionPoint_from_der, AndThen, EmptyIdp
<1>2. Err("TrailingData").result # "Ok"
  BY DEF Err
<1>3. /\ outer.result = "Ok" <=> peek(value, "Sequence")
      /\ outer.result = "Ok" => items = fields
  BY Expected
<1> HIDE DEF r, outer
<1>4. CASE ~peek(value, "Sequence")
  BY <1>1, <1>2, <1>3, <1>4 DEF r
<1>5. CASE peek(value, "Sequence")
  <2>1. IsSeq(value)
    BY DEF Reader3, ReaderOf
  <2>2. 1 \in DOMAIN value /\ Head(value) = value[1] /\ value[1].tag = "Sequence"
    BY <1>5, <2>1, PeekFirst
  <2>3. Reader2(fields)
    BY <2>2 DEF Reader3, ReaderOf
  <2>4. items = fields
    BY <1>3, <1>5
  <2> HIDE DEF items
  <2>5. loop = Loop(idp_field, EmptyIdp, fields)
    BY <2>4
  <2> DEFINE n == Len(fields)
             name(i) == fields[i].tag = "ContextSpecificConstructed0"
             full(i) == peek(fields[i].content, "ContextSpecificConstructed0")
             flag(i) == /\ fields[i].tag \in Flags
                        /\ fields[i].content \in {<< 0 >>, << 255 >>}
             partial(i) == fields[i].tag = "ContextSpecific3"
             attr == LastSet(fields, n, "ContextSpecific5")
             ind == LastSet(fields, n, "ContextSpecific4")
  <2>6. IsSeq(fields)
    BY <2>3 DEF Reader2, ReaderOf
  <2>7. n \in Nat /\ DOMAIN fields = 1..n
    BY <2>6, ListFacts
  <2>8. /\ loop.result = "Ok" => IdpFine(fields, n) /\ IdpState(fields, n, h)
        /\ IdpFine(fields, n) /\ (\A i \in 1..n : ~partial(i)) => loop.result = "Ok"
    BY <2>5, <2>6, IdpLoop
  <2>9. IdpFine(fields, n) <=> /\ \A i \in 1..n : name(i) \/ partial(i) \/ flag(i)
                               /\ \A i, j \in 1..n : name(i) /\ name(j) => i = j
    BY ZenonT(60) DEF IdpFine
  <2>10. \A i \in 1..n : ~(flag(i) /\ name(i)) /\ ~(flag(i) /\ partial(i)) /\ ~(name(i) /\ partial(i))
    BY DEF Flags
  <2>11. ASSUME IdpState(fields, n, h)
         PROVE  /\ s.result = "Ok" <=>
                       /\ ~attr /\ ~ind
                       /\ \A i \in 1..n : ~partial(i)
                       /\ \E i \in 1..n : name(i)
                       /\ \A i \in 1..n : name(i) => full(i)
                /\ s.result = "Ok" => /\ s.value = h
                                      /\ \E i \in 1..n : name(i) /\
                                           The(names(h).value).names = Head(fields[i].content).content
    <3> DEFINE dp == The(h["distribution_point"])
    <3>1. /\ (\A i \in 1..n : ~name(i)) => h["distribution_point"] = None
          /\ \A i \in 1..n : name(i) => h["distribution_point"] = Some(fields[i].content)
          /\ (\E i \in 1..n : partial(i)) => IsSome(h["only_some_reasons"])
          /\ (\A i \in 1..n : ~partial(i)) => h["only_some_reasons"] = None
          /\ ind => h["indirect_crl"] = TRUE
          /\ ~ind => h["indirect_crl"] = FALSE
          /\ attr => h["only_contains_attribute_certs"] = TRUE
          /\ ~attr => h["only_contains_attribute_certs"] = FALSE
      BY <2>11, FlagNames DEF IdpState
    <3> HIDE DEF name, partial, attr, ind, n, h, full
    <3>2. PICK d \in BOOLEAN, a \in BOOLEAN :
              /\ h["indirect_crl"] = d /\ (d <=> ind)
              /\ h["only_contains_attribute_certs"] = a /\ (a <=> attr)
      <4>1. CASE ind /\ attr
        BY <3>1, <4>1
      <4>2. CASE ind /\ ~attr
        BY <3>1, <4>2
      <4>3. CASE ~ind /\ attr
        BY <3>1, <4>3
      <4>4. CASE ~ind /\ ~attr
        BY <3>1, <4>4
      <4> QED
        BY <4>1, <4>2, <4>3, <4>4
    <3>3. /\ s.result = "Ok" <=> /\ ~a /\ ~d
                                 /\ ~IsSome(h["only_some_reasons"])
                                 /\ IsSome(h["distribution_point"])
                                 /\ peek(dp, "ContextSpecificConstructed0")
          /\ s.result = "Ok" => /\ s.value = h
                                /\ The(names(h).value).names = Head(dp).content
      BY <3>2, IdpChecks
    <3>4. ~IsSome(None) /\ \A v : IsSome(Some(v)) /\ The(Some(v)) = v
      BY DEF IsSome, Some, None, The
    <3>5. /\ IsSome(h["only_some_reasons"]) <=> \E i \in 1..n : partial(i)
          /\ IsSome(h["distribution_point"]) <=> \E i \in 1..n : name(i)
          /\ \A i \in 1..n : name(i) => dp = fields[i].content
      BY <3>1, <3>4
    <3> HIDE DEF s, dp
    <3>6. \A i \in 1..n : name(i) => (peek(dp, "ContextSpecificConstructed0") <=> full(i))
      BY <3>5 DEF full
    <3>7. s.result = "Ok" <=>
                       /\ ~attr /\ ~ind
                       /\ \A i \in 1..n : ~partial(i)
                       /\ \E i \in 1..n : name(i)
                       /\ \A i \in 1..n : name(i) => full(i)
      BY <3>2, <3>3, <3>5, <3>6
    <3>8. s.result = "Ok" => \E i \in 1..n : name(i) /\
                                The(names(h).value).names = Head(fields[i].content).content
      BY <3>3, <3>5
    <3> QED
      BY <3>3, <3>7, <3>8 DEF s, name, partial, attr, ind, n, h, full
  <2>12. r.result = "Ok" <=> loop.result = "Ok" /\ s.result = "Ok"
    BY <1>1, <1>3, <1>5
  <2>13. TakenIdp(fields) <=>
            /\ \E i \in 1..n : name(i)
            /\ \A i, j \in 1..n : name(i) /\ name(j) => i = j
            /\ \A i \in 1..n : name(i) => full(i)
            /\ \A i \in 1..n : name(i) \/ flag(i)
            /\ ~ind /\ ~attr
    BY Zenon DEF TakenIdp
  <2> HIDE DEF name, flag, full, ind, attr, n, partial, loop, h, s
  <2>14. r.result = "Ok" => TakenIdp(fields)
    BY <2>8, <2>9, <2>11, <2>12, <2>13
  <2>15. TakenIdp(fields) => r.result = "Ok"
    <3> SUFFICES ASSUME TakenIdp(fields) PROVE r.result = "Ok"
      OBVIOUS
    <3>1. \A i \in 1..n : ~partial(i)
      BY <2>10, <2>13
    <3>2. IdpFine(fields, n)
      BY <2>9, <2>13
    <3> QED
      BY <2>8, <2>11, <2>12, <2>13, <3>1, <3>2
  <2>16. ASSUME r.result = "Ok" PROVE IsSeq(idp_view(r.value).names)
    <3>1. r = s /\ loop.result = "Ok" /\ s.result = "Ok" /\ IdpState(fields, n, h)
      BY <1>1, <1>3, <1>5, <2>8, <2>12, <2>16
    <3>2. PICK i \in 1..n : name(i) /\ The(names(h).value).names = Head(fields[i].content).content
      BY <2>11, <3>1
    <3>3. s.value = h /\ full(i)
      BY <2>11, <3>1, <3>2
    <3> DEFINE c == fields[i].content
               ns == Head(c).content
    <3>4. Reader1(c)
      BY <2>3, <2>7, <3>2 DEF Reader2, ReaderOf, name
    <3>5. peek(c, "ContextSpecificConstructed0")
      BY <3>3 DEF full
    <3> HIDE DEF c
    <3>6. IsSeq(ns)
      BY <3>4, <3>5, FirstElement
    <3>7. idp_view(r.value).names = General(ns)
      BY <3>1, <3>2, <3>3 DEF idp_view, c
    <3> HIDE DEF ns
    <3>8. IsSeq(General(ns))
      <4>1. Len(ns) \in Nat /\ DOMAIN ns = 1..Len(ns)
        BY <3>6, ListFacts
      <4>2. General(ns) = [j \in 1..Len(ns) |-> GeneralName_from_der(ns[j])]
        BY <4>1 DEF General
      <4> QED
        BY <4>1, <4>2 DEF IsSeq
    <3> QED
      BY <3>7, <3>8
  <2> QED
    BY <1>5, <2>14, <2>15, <2>16 DEF r
<1> QED
  BY <1>4, <1>5

LoadableIdp(value) == IssuingDistributionPoint_from_der(value).result = "Ok"

\* It takes what is supported, and only what is tolerated.
LEMMA IdpBounds ==
    ASSUME NEW value, Reader3(value)
    PROVE  /\ SupportedIdp(value) => LoadableIdp(value)
           /\ LoadableIdp(value) => ToleratedIdp(value)
  BY IdpRead, SupportedIdpTaken, TakenIdpTolerated DEF LoadableIdp

-----------------------------------------------------------------------------
(* The extensions of a CRL.                                                *)

\* A number of at most 20 octets, without the one that only keeps it positive.
Sensible(value) ==
    /\ Tags(value) = << "Integer" >>
    /\ LET v == Head(value).content
       IN  /\ Len(v) \in 1..21 /\ v[1] < 128
           /\ Len(v) > 1 => (v[1] # 0 \/ v[2] >= 128)
           /\ Len(v) = 21 => v[1] = 0

\* crl_number, as nonnegative_integer reads it.
LEMMA CrlNumberRead ==
    ASSUME NEW value, Reader1(value)
    PROVE  crl_number_sensible(value) <=> Sensible(value)
<1> DEFINE e == expect_tag(value, "Integer")
           v == e.value.value
           n == Len(v)
           bad == v = << >> \/ v[1] >= 128 \/ (v[1] = 0 /\ n > 1 /\ v[2] < 128)
           strip == v[1] = 0 /\ n > 1
           w == IF strip THEN Tail(v) ELSE v
           m == IF e.result = "Ok"
                THEN IF bad THEN Err("BadDer") ELSE Read(w, e.value.rest)
                ELSE e
<1>1. crl_number_sensible(value) <=>
          m.result = "Ok" /\ m.value.rest = << >> /\ Len(m.value.value) <= 20
  BY DEF crl_number_sensible, nonnegative_integer, AndThen
<1>2. Err("BadDer").result # "Ok"
  BY DEF Err
<1>3. /\ e.result = "Ok" <=> peek(value, "Integer")
      /\ e.result = "Ok" => v = Head(value).content /\ e.value.rest = Tail(value)
  BY Expected
<1> HIDE DEF e, v, bad, w
<1>4. /\ m.result = "Ok" <=> e.result = "Ok" /\ ~bad
      /\ m.result = "Ok" => m.value.value = w /\ m.value.rest = e.value.rest
  BY <1>2, ResultFacts DEF m
<1> HIDE DEF m
<1>5. Tags(value) = << "Integer" >> <=> peek(value, "Integer") /\ Tail(value) = << >>
  BY OnlyElement DEF Reader1, ReaderOf
<1>6. Sensible(value) => peek(value, "Integer")
  BY <1>5 DEF Sensible
<1>7. CASE ~peek(value, "Integer")
  BY <1>1, <1>3, <1>4, <1>6, <1>7
<1>8. CASE peek(value, "Integer")
  <2>1. Octets(v)
    BY <1>3, <1>8, FirstElement
  <2>2. IsSeq(v)
    BY <2>1 DEF Octets
  <2>3. n \in Nat /\ DOMAIN v = 1..n /\ (v = << >> <=> n = 0)
    BY <2>2, ListFacts
  <2>4. n # 0 => Len(Tail(v)) = n - 1
    BY <2>2, <2>3, ListConsumed
  <2> DEFINE a == v[1]
             b == v[2]
  <2>5. (n # 0 => a \in Nat) /\ (n > 1 => b \in Nat)
    <3> HIDE DEF n
    <3>1. \A i \in 1..n : v[i] \in 0..255
      BY <2>1, <2>3 DEF Octets
    <3>2. \A i \in 1..n : v[i] \in Nat
      BY <3>1
    <3>3. (n # 0 => 1 \in 1..n) /\ (n > 1 => 2 \in 1..n)
      BY <2>3
    <3> QED
      BY <3>2, <3>3, Zenon
  <2>6. bad <=> n = 0 \/ a >= 128 \/ (a = 0 /\ n > 1 /\ b < 128)
    BY <2>3 DEF bad
  <2>7. n # 0 => Len(w) = IF a = 0 /\ n > 1 THEN n - 1 ELSE n
    BY <2>4 DEF w
  <2>8. Sensible(value) <=> /\ Tail(value) = << >>
                            /\ n \in 1..21 /\ a < 128
                            /\ n > 1 => (a # 0 \/ b >= 128)
                            /\ n = 21 => a = 0
    BY <1>3, <1>5, <1>8 DEF Sensible
  <2>9. crl_number_sensible(value) <=> Tail(value) = << >> /\ ~bad /\ Len(w) <= 20
    BY <1>1, <1>3, <1>4, <1>8
  <2> DEFINE l == Len(w)
  <2> HIDE DEF a, b, n, l
  <2>10. ~bad /\ l <= 20 <=> /\ n \in 1..21 /\ a < 128
                             /\ n > 1 => (a # 0 \/ b >= 128)
                             /\ n = 21 => a = 0
    <3>1. n # 0 => l = IF a = 0 /\ n > 1 THEN n - 1 ELSE n
      BY <2>7 DEF l
    <3> QED
      BY <2>3, <2>5, <2>6, <3>1
  <2> QED
    BY <2>8, <2>9, <2>10 DEF l
<1> QED
  BY <1>7, <1>8

\* The extensions that the parser of a CRL has a case for.
CrlKnown == {"cRLNumber", "issuingDistributionPoint", "authorityKeyIdentifier",
             "deltaCRLIndicator"}

\* The arcs of the extensions.
LEMMA CrlArcs ==
    ASSUME NEW id \in DOMAIN ID_CE
    PROVE  /\ ID_CE[id] = 20 <=> id = "cRLNumber"
           /\ ID_CE[id] = 27 <=> id = "deltaCRLIndicator"
           /\ ID_CE[id] = 28 <=> id = "issuingDistributionPoint"
           /\ ID_CE[id] = 35 <=> id = "authorityKeyIdentifier"
           /\ CrlKnown \subseteq DOMAIN ID_CE
  BY DEF ID_CE, CrlKnown

FineCrlExtension(e) ==
    /\ WellFormedExtension(e)
    /\ Id(e) = "cRLNumber" => Sensible(Content(e))
    /\ Id(e) # "deltaCRLIndicator"
    /\ Id(e) \notin CrlKnown => ~Critical(e)

\* BorrowedCertRevocationList::remember_extension.
LEMMA CrlExtensionRemembered ==
    ASSUME NEW h, NEW x, Reader1(x.value)
    PROVE  LET m == remember_crl_extension(h, x)
               f == "issuing_distribution_point"
           IN  /\ m.result = "Ok" <=>
                      /\ x.id = "cRLNumber" => Sensible(x.value)
                      /\ x.id # "deltaCRLIndicator"
                      /\ x.id = "issuingDistributionPoint" => ~IsSome(h[f])
                      /\ x.id \notin CrlKnown => ~x.critical
               /\ m.result = "Ok" =>
                      m.value = IF x.id = "issuingDistributionPoint"
                                THEN Updated(h, f, Some(x.value)) ELSE h
<1> DEFINE m == remember_crl_extension(h, x)
           f == "issuing_distribution_point"
           p == Ok(x.value)
           set == set_extension_once(h, f, p)
           un == unsupported(x, h)
           ok == crl_number_sensible(x.value)
           arc == ID_CE[x.id]
<1>1. m = IF x.id \in DOMAIN ID_CE
          THEN CASE arc = 20 -> IF ok THEN Ok(h) ELSE Err("InvalidCrlNumber")
                 [] arc = 27 -> Err("UnsupportedDeltaCrl")
                 [] arc = 28 -> set
                 [] arc = 35 -> Ok(h)
                 [] OTHER -> un
          ELSE un
  BY DEF remember_crl_extension, remember_extension
<1>2. ok <=> Sensible(x.value)
  BY CrlNumberRead
<1>3. un = IF x.critical THEN Err("UnsupportedCriticalExtension") ELSE Ok(h)
  BY DEF unsupported
<1>4. /\ Err("UnsupportedCriticalExtension").result # "Ok"
      /\ Err("InvalidCrlNumber").result # "Ok" /\ Err("UnsupportedDeltaCrl").result # "Ok"
  BY DEF Err
<1>5. p.result = "Ok" /\ p.value = x.value
  BY ResultFacts
<1> HIDE DEF m, f, p
<1>6. /\ set.result = "Ok" <=> ~IsSome(h[f])
      /\ set.result = "Ok" => set.value = Updated(h, f, Some(x.value))
  BY <1>5, OnceRead
<1> HIDE DEF set, un, ok, arc
<1>7. (un.result = "Ok" <=> ~x.critical) /\ (un.result = "Ok" => un.value = h)
  BY <1>3, <1>4, ResultFacts
<1>8. x.id \in DOMAIN ID_CE =>
          /\ arc = 20 <=> x.id = "cRLNumber"
          /\ arc = 27 <=> x.id = "deltaCRLIndicator"
          /\ arc = 28 <=> x.id = "issuingDistributionPoint"
          /\ arc = 35 <=> x.id = "authorityKeyIdentifier"
  BY CrlArcs DEF arc
<1>9. CrlKnown \subseteq DOMAIN ID_CE
  BY DEF CrlKnown, ID_CE
<1>10. CASE x.id \notin CrlKnown
  <2>1. m = un
    BY <1>1, <1>8, <1>10 DEF CrlKnown
  <2>2. x.id \notin {"cRLNumber", "deltaCRLIndicator", "issuingDistributionPoint"}
    BY <1>10 DEF CrlKnown
  <2> QED
    BY <1>7, <1>10, <2>1, <2>2 DEF m
<1>11. CASE x.id \in CrlKnown
  <2>1. x.id \in DOMAIN ID_CE
    BY <1>9, <1>11
  <2>2. CASE x.id = "cRLNumber"
    <3>1. m = IF ok THEN Ok(h) ELSE Err("InvalidCrlNumber")
      BY <1>1, <1>8, <2>1, <2>2
    <3>2. (m.result = "Ok" <=> ok) /\ (m.result = "Ok" => m.value = h)
      BY <1>4, <3>1, ResultFacts
    <3> QED
      BY <1>2, <1>11, <2>2, <3>2 DEF m
  <2>3. CASE x.id = "deltaCRLIndicator"
    <3>1. m = Err("UnsupportedDeltaCrl")
      BY <1>1, <1>8, <2>1, <2>3
    <3> QED
      BY <1>4, <2>3, <3>1 DEF m
  <2>4. CASE x.id = "issuingDistributionPoint"
    <3>1. m = set
      BY <1>1, <1>8, <2>1, <2>4
    <3> QED
      BY <1>6, <1>11, <2>4, <3>1 DEF m, f
  <2>5. CASE x.id = "authorityKeyIdentifier"
    <3>1. m = Ok(h)
      BY <1>1, <1>8, <2>1, <2>5
    <3>2. m.result = "Ok" /\ m.value = h
      BY <3>1, ResultFacts
    <3> QED
      BY <1>11, <2>5, <3>2 DEF m
  <2> QED
    BY <1>11, <2>2, <2>3, <2>4, <2>5 DEF CrlKnown
<1> QED
  BY <1>10, <1>11

\* A round of the loop over the extensions of a CRL: the extension is fine and, if it is
\* an issuing distribution point, the first.
LEMMA CrlRoundRead ==
    ASSUME NEW h, NEW e, e.tag = "Sequence" => Reader2(e.content)
    PROVE  LET r == RoundFor("crl", h, e)
               f == "issuing_distribution_point"
           IN  /\ r.result = "Ok" <=>
                      /\ FineCrlExtension(e)
                      /\ Id(e) = "issuingDistributionPoint" => ~IsSome(h[f])
               /\ r.result = "Ok" =>
                      r.value = IF Id(e) = "issuingDistributionPoint"
                                THEN Updated(h, f, Some(Content(e))) ELSE h
<1> DEFINE r == RoundFor("crl", h, e)
           f == "issuing_distribution_point"
           reader == << e >>
           outer == expect_tag(reader, "Sequence")
           c == outer.value.value
           ext == Extension_from_der(c)
           x == ext.value.value
           m == remember_crl_extension(h, x)
           d == IF ext.result = "Ok"
                THEN IF m.result = "Ok" THEN Read(m.value, ext.value.rest) ELSE m
                ELSE ext
           whole == IF d.result # "Ok" THEN d
                    ELSE IF d.value.rest # << >> THEN Err("TrailingData")
                    ELSE Ok(d.value.value)
           n == IF outer.result # "Ok" THEN Err("TrailingData")
                ELSE IF whole.result = "Ok" THEN Read(whole.value, outer.value.rest) ELSE whole
<1>1. r = IF n.result = "Ok" THEN Ok(n.value.value) ELSE n
  BY DEF RoundFor, nested_extension, nested, read_to_end, AndThen
<1>2. Err("TrailingData").result # "Ok"
  BY DEF Err
<1>3. /\ outer.result = "Ok" <=> e.tag = "Sequence"
      /\ outer.result = "Ok" => c = e.content
  <2>1. reader # << >> /\ Head(reader) = e
    OBVIOUS
  <2> HIDE DEF reader
  <2> QED
    BY <2>1, Expected DEF peek
<1> HIDE DEF r, outer, c, ext, x, m, d, whole
<1>4. /\ d.result = "Ok" <=> ext.result = "Ok" /\ m.result = "Ok"
      /\ d.result = "Ok" => d.value.value = m.value /\ d.value.rest = ext.value.rest
  BY ResultFacts DEF d
<1>5. /\ whole.result = "Ok" <=> d.result = "Ok" /\ d.value.rest = << >>
      /\ whole.result = "Ok" => whole.value = d.value.value
  BY <1>2, ResultFacts DEF whole
<1>6. /\ n.result = "Ok" <=> outer.result = "Ok" /\ whole.result = "Ok"
      /\ n.result = "Ok" => n.value.value = whole.value
  BY <1>2, ResultFacts
<1> HIDE DEF n
<1>7. /\ r.result = "Ok" <=> n.result = "Ok"
      /\ r.result = "Ok" => r.value = n.value.value
  BY <1>1, ResultFacts
<1>8. /\ r.result = "Ok" <=> /\ e.tag = "Sequence" /\ ext.result = "Ok"
                             /\ ext.value.rest = << >> /\ m.result = "Ok"
      /\ r.result = "Ok" => r.value = m.value
  BY <1>3, <1>4, <1>5, <1>6, <1>7
<1>9. WellFormedExtension(e) <=> e.tag = "Sequence" /\ Shape(e.content)
  BY DEF WellFormedExtension, Shape
<1>10. ASSUME e.tag = "Sequence"
       PROVE  /\ ext.result = "Ok" /\ ext.value.rest = << >> <=> Shape(e.content)
              /\ Shape(e.content) => /\ x.id = Id(e) /\ x.value = Content(e)
                                     /\ x.critical <=> Critical(e)
                                     /\ Reader1(x.value)
  <2>1. c = e.content /\ Reader2(e.content)
    BY <1>3, <1>10
  <2> QED
    BY <2>1, ExtensionOf DEF ext, x
<1>11. ASSUME Reader1(x.value)
       PROVE  /\ m.result = "Ok" <=>
                      /\ x.id = "cRLNumber" => Sensible(x.value)
                      /\ x.id # "deltaCRLIndicator"
                      /\ x.id = "issuingDistributionPoint" => ~IsSome(h[f])
                      /\ x.id \notin CrlKnown => ~x.critical
              /\ m.result = "Ok" =>
                      m.value = IF x.id = "issuingDistributionPoint"
                                THEN Updated(h, f, Some(x.value)) ELSE h
  BY <1>11, CrlExtensionRemembered DEF m
<1> HIDE DEF f
<1>12. ASSUME WellFormedExtension(e)
       PROVE  /\ m.result = "Ok" <=>
                     /\ FineCrlExtension(e)
                     /\ Id(e) = "issuingDistributionPoint" => ~IsSome(h[f])
              /\ m.result = "Ok" =>
                     m.value = IF Id(e) = "issuingDistributionPoint"
                               THEN Updated(h, f, Some(Content(e))) ELSE h
  <2>1. /\ x.id = Id(e) /\ x.value = Content(e)
        /\ x.critical <=> Critical(e)
        /\ Reader1(x.value)
    BY <1>9, <1>10, <1>12
  <2> QED
    BY <1>11, <1>12, <2>1 DEF FineCrlExtension
<1>13. FineCrlExtension(e) => WellFormedExtension(e)
  BY DEF FineCrlExtension
<1>14. r.result = "Ok" <=> WellFormedExtension(e) /\ m.result = "Ok"
  BY <1>8, <1>9, <1>10
<1> QED
  BY <1>8, <1>12, <1>13, <1>14 DEF r, f

\* The first k extensions are fine and at most one of them is an issuing distribution point.
TakenByCrl(list, k) ==
    \A i \in 1..k : /\ FineCrlExtension(list[i])
                    /\ Id(list[i]) = "issuingDistributionPoint" =>
                           \A j \in 1..k : Id(list[j]) = Id(list[i]) => j = i

\* What is remembered of them.
CrlRemembers(list, k, h) ==
    /\ "issuing_distribution_point" \in DOMAIN h
    /\ (\A i \in 1..k : Id(list[i]) # "issuingDistributionPoint") =>
           h["issuing_distribution_point"] = None
    /\ \A i \in 1..k : Id(list[i]) = "issuingDistributionPoint" =>
           h["issuing_distribution_point"] = Some(Content(list[i]))

\* An extension more.
LEMMA CrlStep ==
    ASSUME NEW list, NEW k \in Nat, k > 0, NEW h,
           list[k].tag = "Sequence" => Reader2(list[k].content),
           TakenByCrl(list, k - 1), CrlRemembers(list, k - 1, h)
    PROVE  LET r == RoundFor("crl", h, list[k])
           IN  /\ r.result = "Ok" <=> TakenByCrl(list, k)
               /\ r.result = "Ok" => CrlRemembers(list, k, r.value)
<1> DEFINE e == list[k]
           r == RoundFor("crl", h, e)
           f == "issuing_distribution_point"
           is(i) == Id(list[i]) = "issuingDistributionPoint"
           fine(i) == FineCrlExtension(list[i])
           some == IsSome(h[f])
<1>1. k \in 1..k /\ 1..(k - 1) \subseteq 1..k /\ \A i \in 1..k : i # k <=> i \in 1..(k - 1)
  OBVIOUS
<1>2. \A m : TakenByCrl(list, m) <=> /\ \A i \in 1..m : fine(i)
                                     /\ \A i, j \in 1..m : is(i) /\ is(j) => i = j
  <2> SUFFICES ASSUME NEW m PROVE TakenByCrl(list, m) <=>
                                     /\ \A i \in 1..m : fine(i)
                                     /\ \A i, j \in 1..m : is(i) /\ is(j) => i = j
    OBVIOUS
  <2>1. TakenByCrl(list, m) <=>
            \A i \in 1..m : fine(i) /\ (is(i) => \A j \in 1..m : Id(list[j]) = Id(list[i]) => j = i)
    BY DEF TakenByCrl
  <2>2. \A i, j : is(i) => (Id(list[j]) = Id(list[i]) <=> is(j))
    OBVIOUS
  <2> HIDE DEF is, fine
  <2> QED
    BY <2>1, <2>2
<1>3. \A m, x : CrlRemembers(list, m, x) <=>
          /\ f \in DOMAIN x
          /\ (\A i \in 1..m : ~is(i)) => x[f] = None
          /\ \A i \in 1..m : is(i) => x[f] = Some(Content(list[i]))
  BY DEF CrlRemembers
<1>4. /\ r.result = "Ok" <=> fine(k) /\ (is(k) => ~some)
      /\ r.result = "Ok" => r.value = IF is(k) THEN Updated(h, f, Some(Content(e))) ELSE h
  BY CrlRoundRead
<1> HIDE DEF r, f, is, fine
<1>5. some <=> \E i \in 1..(k - 1) : is(i)
  <2>1. ~IsSome(None) /\ \A v : IsSome(Some(v))
    BY DEF IsSome, Some, None
  <2> QED
    BY <1>3, <2>1
<1> HIDE DEF some
<1>6. r.result = "Ok" <=> TakenByCrl(list, k)
  <2>1. (\A i \in 1..(k - 1) : fine(i)) /\ \A i, j \in 1..(k - 1) : is(i) /\ is(j) => i = j
    BY <1>2
  <2>2. TakenByCrl(list, k) <=> fine(k) /\ (is(k) => \A i \in 1..(k - 1) : ~is(i))
    BY <1>1, <1>2, <2>1
  <2> QED
    BY <1>4, <1>5, <2>2
<1>7. ASSUME r.result = "Ok" PROVE CrlRemembers(list, k, r.value)
  <2> DEFINE w == r.value
  <2>1. /\ f \in DOMAIN h
        /\ (\A i \in 1..(k - 1) : ~is(i)) => h[f] = None
        /\ \A i \in 1..(k - 1) : is(i) => h[f] = Some(Content(list[i]))
    BY <1>3
  <2>2. CASE is(k)
    <3>1. w = Updated(h, f, Some(Content(e)))
      BY <1>4, <1>7, <2>2
    <3> HIDE DEF w
    <3>2. f \in DOMAIN w /\ w[f] = Some(Content(e))
      BY <2>1, <3>1, UpdatedFields
    <3>3. \A i \in 1..k : is(i) => i = k
      BY <1>1, <1>4, <1>5, <1>7, <2>2
    <3>4. CrlRemembers(list, k, w)
      BY <1>1, <1>3, <2>2, <3>2, <3>3
    <3> QED
      BY <3>4 DEF w
  <2>3. CASE ~is(k)
    <3>1. w = h
      BY <1>4, <1>7, <2>3
    <3> QED
      BY <1>1, <1>3, <2>1, <2>3, <3>1
  <2> QED
    BY <2>2, <2>3
<1> QED
  BY <1>6, <1>7 DEF r

\* The loop over the extensions of a CRL.
LEMMA CrlLoop ==
    ASSUME NEW list, IsSeq(list),
           \A i \in DOMAIN list : list[i].tag = "Sequence" => Reader2(list[i].content),
           NEW h, "issuing_distribution_point" \in DOMAIN h,
           h["issuing_distribution_point"] = None,
           NEW g, Rounds("crl", h, list, Len(list), g)
    PROVE  LET last == g[Len(list)]
           IN  /\ last.result = "Ok" <=> TakenByCrl(list, Len(list))
               /\ last.result = "Ok" => CrlRemembers(list, Len(list), last.value)
<1> DEFINE n == Len(list)
<1>1. n \in Nat /\ DOMAIN list = 1..n
  BY ListFacts
<1> HIDE DEF n
<1>2. \A i \in 0..n : g[i] = IF i = 0 THEN Ok(h) ELSE Advance("crl", g[i - 1], list[i])
  BY DEF Rounds, n
<1> DEFINE Step(k) == /\ g[k].result = "Ok" <=> TakenByCrl(list, k)
                      /\ g[k].result = "Ok" => CrlRemembers(list, k, g[k].value)
           G == {k \in Nat : Step(k)}
<1>3. 0 \in G
  <2>1. g[0] = Ok(h)
    BY <1>1, <1>2
  <2>2. g[0].result = "Ok" /\ g[0].value = h
    BY <2>1, ResultFacts
  <2>3. 1..0 = {}
    OBVIOUS
  <2>4. TakenByCrl(list, 0) /\ CrlRemembers(list, 0, h)
    BY <2>3 DEF TakenByCrl, CrlRemembers
  <2> QED
    BY <2>2, <2>4
<1>4. ASSUME NEW k \in 1..n, k - 1 \in G PROVE k \in G
  <2>1. Step(k - 1) /\ k \in Nat /\ k > 0
    BY <1>4
  <2>2. g[k] = Advance("crl", g[k - 1], list[k])
    BY <1>2
  <2>3. list[k].tag = "Sequence" => Reader2(list[k].content)
    BY <1>1
  <2>4. CASE g[k - 1].result = "Ok"
    <3> DEFINE w == g[k - 1].value
    <3>1. g[k] = RoundFor("crl", w, list[k])
      BY <2>2, <2>4 DEF Advance
    <3>2. TakenByCrl(list, k - 1) /\ CrlRemembers(list, k - 1, w)
      BY <2>1, <2>4
    <3> HIDE DEF w
    <3>3. Step(k)
      BY <2>1, <2>3, <3>1, <3>2, CrlStep
    <3> QED
      BY <2>1, <3>3
  <2>5. CASE g[k - 1].result # "Ok"
    <3>1. g[k] = g[k - 1]
      BY <2>2, <2>5 DEF Advance
    <3>2. 1..(k - 1) \subseteq 1..k
      OBVIOUS
    <3>3. TakenByCrl(list, k) => TakenByCrl(list, k - 1)
      BY <3>2 DEF TakenByCrl
    <3>4. Step(k)
      BY <2>1, <2>5, <3>1, <3>3
    <3> QED
      BY <2>1, <3>4
  <2> QED
    BY <2>4, <2>5
<1> HIDE DEF G
<1>5. n \in G
  <2>1. \A i \in 0..n : i \in G
    BY <1>1, <1>3, <1>4, IndexInduction
  <2> QED
    BY <1>1, <2>1
<1> QED
  BY <1>5 DEF G, n

\* The extensions of a CRL as the specification has them.
LEMMA SupportedIsTaken ==
    ASSUME NEW list, IsSeq(list)
    PROVE  SupportedExtensions(list) <=>
               list # << >> /\ TakenByCrl(list, Len(list))
<1> DEFINE n == Len(list)
           Number(i) == LET v == Head(Content(list[i])).content
                        IN  /\ Len(v) \in 1..21 /\ v[1] < 128
                            /\ Len(v) > 1 => (v[1] # 0 \/ v[2] >= 128)
                            /\ Len(v) = 21 => v[1] = 0
           Integer(i) == Tags(Content(list[i])) = << "Integer" >>
           Alone(i) == \A j \in 1..n \ {i} : Id(list[j]) # Id(list[i])
           Case(i) == CASE Id(list[i]) = "cRLNumber" -> Integer(i) /\ Number(i)
                        [] Id(list[i]) = "issuingDistributionPoint" ->
                               Alone(i)
                        [] Id(list[i]) = "authorityKeyIdentifier" -> TRUE
                        [] Id(list[i]) = "deltaCRLIndicator" -> FALSE
                        [] OTHER -> ~Critical(list[i])
           is(i) == Id(list[i]) = "issuingDistributionPoint"
           Once(i) == \A j \in 1..n : Id(list[j]) = Id(list[i]) => j = i
<1>1. DOMAIN list = 1..n
  BY ListFacts
<1>2. SupportedExtensions(list) <=> /\ list # << >>
                                    /\ \A i \in 1..n : WellFormedExtension(list[i])
                                    /\ \A i \in 1..n : Case(i)
  BY <1>1, Zenon DEF SupportedExtensions
<1>3. TakenByCrl(list, n) <=> \A i \in 1..n : FineCrlExtension(list[i]) /\ (is(i) => Once(i))
  BY DEF TakenByCrl
<1>4. \A i \in 1..n : Integer(i) /\ Number(i) <=> Sensible(Content(list[i]))
  BY Zenon DEF Sensible
<1>5. \A i \in 1..n : Alone(i) <=> Once(i)
  BY Zenon
<1> HIDE DEF Number, Integer, Alone, Once
<1>6. ASSUME NEW i \in 1..n
      PROVE  WellFormedExtension(list[i]) /\ Case(i) <=>
                 FineCrlExtension(list[i]) /\ (is(i) => Once(i))
  <2> DEFINE e == list[i]
             a == Integer(i) /\ Number(i)
             c == Content(e)
             critical == Critical(e)
             well == WellFormedExtension(e)
             id == Id(e)
             sens == Sensible(c)
  <2>1. FineCrlExtension(e) <=> /\ well /\ (id = "cRLNumber" => sens)
                                /\ id # "deltaCRLIndicator"
                                /\ id \notin CrlKnown => ~critical
    BY DEF FineCrlExtension
  <2>2. a <=> sens
    BY <1>4
  <2>3. Alone(i) <=> Once(i)
    BY <1>5
  <2>4. Case(i) <=> CASE id = "cRLNumber" -> a
                      [] id = "issuingDistributionPoint" -> Alone(i)
                      [] id = "authorityKeyIdentifier" -> TRUE
                      [] id = "deltaCRLIndicator" -> FALSE
                      [] OTHER -> ~critical
    OBVIOUS
  <2>5. is(i) <=> id = "issuingDistributionPoint"
    OBVIOUS
  <2> HIDE DEF e, a, c, critical, well, id, sens, Case, is
  <2>6. CASE id = "cRLNumber"
    <3>1. Case(i) <=> a
      BY <2>4, <2>6
    <3> QED
      BY <2>1, <2>2, <2>5, <2>6, <3>1 DEF CrlKnown, e, well
  <2>7. CASE id = "issuingDistributionPoint"
    <3>1. Case(i) <=> Alone(i)
      BY <2>4, <2>7
    <3> QED
      BY <2>1, <2>3, <2>5, <2>7, <3>1 DEF CrlKnown, e, well
  <2>8. CASE id = "authorityKeyIdentifier"
    <3>1. Case(i)
      BY <2>4, <2>8
    <3> QED
      BY <2>1, <2>5, <2>8, <3>1 DEF CrlKnown, e, well
  <2>9. CASE id = "deltaCRLIndicator"
    <3>1. ~Case(i)
      BY <2>4, <2>9
    <3> QED
      BY <2>1, <2>5, <2>9, <3>1 DEF CrlKnown, e, well
  <2>10. CASE id \notin CrlKnown
    <3>1. Case(i) <=> ~critical
      BY <2>4, <2>10 DEF CrlKnown
    <3> QED
      BY <2>1, <2>5, <2>10, <3>1 DEF CrlKnown, e, well
  <2> QED
    BY <2>6, <2>7, <2>8, <2>9, <2>10 DEF CrlKnown
<1> HIDE DEF Case, n
<1> QED
  BY <1>2, <1>3, <1>6 DEF n

\* der::nested_of_mut over the extensions of a CRL.
LEMMA CrlExtensionsRead ==
    ASSUME NEW tagged, Reader4(tagged), NEW h, "issuing_distribution_point" \in DOMAIN h,
           h["issuing_distribution_point"] = None
    PROVE  LET r == nested_extensions(tagged, h, remember_crl_extension)
               list == tagged[1].content
           IN  /\ r.result = "Ok" /\ r.value.rest = << >> <=>
                      /\ Tags(tagged) = << "Sequence" >>
                      /\ list # << >> /\ TakenByCrl(list, Len(list))
               /\ r.result = "Ok" => CrlRemembers(list, Len(list), r.value.value)
<1> DEFINE r == nested_extensions(tagged, h, remember_crl_extension)
           list == tagged[1].content
           n == Len(list)
           outer == expect_tag(tagged, "Sequence")
           items == outer.value.value
           loop == Loop(LAMBDA c, e : AndThen(
                            nested_extension(<< e >>, LAMBDA x : remember_crl_extension(c, x)),
                            LAMBDA q : Ok(q.value)), h, items)
           d == IF items = << >> THEN Err("TrailingData")
                ELSE IF loop.result = "Ok" THEN Read(loop.value, << >>) ELSE loop
           t == IF d.result # "Ok" THEN d
                ELSE IF d.value.rest # << >> THEN Err("TrailingData")
                ELSE Ok(d.value.value)
<1>1. r = IF outer.result # "Ok" THEN Err("TrailingData")
          ELSE IF t.result = "Ok" THEN Read(t.value, outer.value.rest) ELSE t
  BY DEF nested_extensions, nested, read_to_end, AndThen
<1>2. Err("TrailingData").result # "Ok"
  BY DEF Err
<1>3. /\ outer.result = "Ok" <=> peek(tagged, "Sequence")
      /\ outer.result = "Ok" => items = Head(tagged).content /\ outer.value.rest = Tail(tagged)
  BY Expected
<1>4. IsSeq(tagged)
  BY DEF Reader4, ReaderOf
<1>5. Tags(tagged) = << "Sequence" >> <=> peek(tagged, "Sequence") /\ Tail(tagged) = << >>
  BY <1>4, OnlyElement
<1> HIDE DEF r, outer, loop
<1>6. /\ d.result = "Ok" <=> items # << >> /\ loop.result = "Ok"
      /\ d.result = "Ok" => d.value.value = loop.value /\ d.value.rest = << >>
  BY <1>2, ResultFacts
<1> HIDE DEF d
<1>7. /\ t.result = "Ok" <=> d.result = "Ok"
      /\ t.result = "Ok" => t.value = d.value.value
  BY <1>2, <1>6, ResultFacts
<1> HIDE DEF t
<1>8. /\ r.result = "Ok" <=> outer.result = "Ok" /\ t.result = "Ok"
      /\ r.result = "Ok" => r.value.value = t.value /\ r.value.rest = outer.value.rest
  BY <1>1, <1>2, ResultFacts
<1>9. CASE ~peek(tagged, "Sequence")
  BY <1>3, <1>5, <1>8, <1>9 DEF r
<1>10. CASE peek(tagged, "Sequence")
  <2>1. 1 \in DOMAIN tagged /\ Head(tagged) = tagged[1] /\ tagged[1].tag = "Sequence"
    BY <1>4, <1>10, PeekFirst
  <2>2. Reader3(list)
    BY <2>1 DEF Reader4, ReaderOf
  <2>3. items = list /\ outer.value.rest = Tail(tagged) /\ outer.result = "Ok"
    BY <1>3, <1>10, <2>1
  <2> HIDE DEF list, items
  <2>4. IsSeq(list)
    BY <2>2 DEF Reader3, ReaderOf
  <2>5. \A i \in DOMAIN list : list[i].tag = "Sequence" => Reader2(list[i].content)
    BY <2>2 DEF Reader3, ReaderOf
  <2>6. n \in Nat
    BY <2>4, ListFacts
  <2>7. PICK g : Rounds("crl", h, list, n, g) /\ loop = g[n]
    BY <2>3, <2>6, LoopIsRounds DEF loop
  <2> HIDE DEF n
  <2>8. /\ loop.result = "Ok" <=> TakenByCrl(list, n)
        /\ loop.result = "Ok" => CrlRemembers(list, n, loop.value)
    BY <2>4, <2>5, <2>7, CrlLoop DEF n
  <2>9. /\ r.result = "Ok" <=> list # << >> /\ TakenByCrl(list, n)
        /\ r.result = "Ok" => r.value.value = loop.value /\ r.value.rest = Tail(tagged)
    BY <1>6, <1>7, <1>8, <2>3, <2>8
  <2>10. r.result = "Ok" /\ r.value.rest = << >> <=>
            /\ Tags(tagged) = << "Sequence" >> /\ list # << >> /\ TakenByCrl(list, n)
    BY <1>5, <1>10, <2>9
  <2>11. r.result = "Ok" => CrlRemembers(list, n, r.value.value)
    BY <2>8, <2>9
  <2> QED
    BY <2>10, <2>11 DEF r, n, list
<1> QED
  BY <1>9, <1>10

\* Time_from_der, both ways.
LEMMA TimeReadIf ==
    ASSUME NEW reader
    PROVE  LET r == Time_from_der(reader)
           IN  /\ r.result = "Ok" <=> /\ peek(reader, "UTCTime") \/ peek(reader, "GeneralizedTime")
                                      /\ Head(reader).content # "malformed"
               /\ r.result = "Ok" => r.value.rest = Tail(reader)
<1> DEFINE r == Time_from_der(reader)
           tag == IF peek(reader, "UTCTime") THEN "UTCTime" ELSE "GeneralizedTime"
           outer == expect_tag(reader, tag)
           bad == outer.value.value = "malformed"
<1>1. r = IF outer.result # "Ok" THEN Err("TrailingData")
          ELSE IF bad THEN Err("BadDerTime") ELSE outer
  BY DEF Time_from_der
<1>2. Err("TrailingData").result # "Ok" /\ Err("BadDerTime").result # "Ok"
  BY DEF Err
<1>3. peek(reader, tag) <=> peek(reader, "UTCTime") \/ peek(reader, "GeneralizedTime")
  OBVIOUS
<1> HIDE DEF tag
<1>4. /\ outer.result = "Ok" <=> peek(reader, tag)
      /\ outer.result = "Ok" => /\ outer.value.value = Head(reader).content
                                /\ outer.value.rest = Tail(reader)
  BY Expected
<1> HIDE DEF r, outer, bad
<1>5. /\ r.result = "Ok" <=> outer.result = "Ok" /\ ~bad
      /\ r.result = "Ok" => r = outer
  BY <1>1, <1>2
<1> QED
  BY <1>3, <1>4, <1>5 DEF r, bad

\* Looking at the element after the first k.
LEMMA Walk ==
    ASSUME NEW t, IsSeq(t), NEW k \in Nat, NEW s, k <= Len(t) => Rest(t, k, s)
    PROVE  /\ k <= Len(t) => /\ s = << >> <=> Len(t) = k
                             /\ \A tag : peek(s, tag) <=> k + 1 <= Len(t) /\ t[k + 1].tag = tag
           /\ k + 1 <= Len(t) => /\ Head(s) = t[k + 1] /\ k + 1 \in DOMAIN t
                                 /\ Rest(t, k + 1, Tail(s))
<1> DEFINE n == Len(t)
<1>1. n \in Nat
  BY ListFacts
<1>2. k <= n => /\ s = << >> <=> k = n
                /\ s # << >> => /\ k + 1 \in DOMAIN t /\ Head(s) = t[k + 1]
                                /\ Rest(t, k + 1, Tail(s))
  BY RestConsumed
<1> HIDE DEF n
<1>3. (k + 1 <= n => k <= n /\ k # n) /\ (k <= n /\ k # n => k + 1 <= n)
  BY <1>1
<1> QED
  BY <1>2, <1>3 DEF n, peek

-----------------------------------------------------------------------------
(* The to-be-signed part, element by element.                              *)

ExtensionsOf(t) == t[Len(t)].content[1].content

IsTime(e) == e.tag \in Times /\ e.content # "malformed"

TbsFine(t, algorithm) ==
    /\ Len(t) \in {6, 7}
    /\ t[1].tag = "Integer" /\ t[1].content = << 1 >>
    /\ t[2].tag = "Sequence" /\ t[2].content = algorithm
    /\ t[3].tag = "Sequence"
    /\ IsTime(t[4]) /\ IsTime(t[5])
    /\ Len(t) = 7 => t[6].tag = "Sequence"
    /\ t[Len(t)].tag = "ContextSpecificConstructed0"
    /\ Tags(t[Len(t)].content) = << "Sequence" >>
    /\ ExtensionsOf(t) # << >>
    /\ TakenByCrl(ExtensionsOf(t), Len(ExtensionsOf(t)))

\* The five fields before the entries.
LEMMA HeadOfTbs ==
    ASSUME NEW t, Reader1(t), NEW algorithm
    PROVE  LET version == u8_from_der(t)
               signature == expect_tag(version.value.rest, "Sequence")
               issuer == expect_tag(signature.value.rest, "Sequence")
               this_update == Time_from_der(issuer.value.rest)
               next_update == Time_from_der(this_update.value.rest)
               fine == /\ version.result = "Ok" /\ version.value.value = 1
                       /\ signature.result = "Ok" /\ signature.value.value = algorithm
                       /\ issuer.result = "Ok"
                       /\ this_update.result = "Ok" /\ next_update.result = "Ok"
           IN  /\ fine <=> /\ Len(t) >= 5
                           /\ t[1].tag = "Integer" /\ t[1].content = << 1 >>
                           /\ t[2].tag = "Sequence" /\ t[2].content = algorithm
                           /\ t[3].tag = "Sequence"
                           /\ IsTime(t[4]) /\ IsTime(t[5])
               /\ fine => Rest(t, 5, next_update.value.rest)
<1> DEFINE version == u8_from_der(t)
           signature == expect_tag(version.value.rest, "Sequence")
           issuer == expect_tag(signature.value.rest, "Sequence")
           this == Time_from_der(issuer.value.rest)
           next == Time_from_der(this.value.rest)
<1> HIDE DEF version, signature, issuer, this, next
<1> DEFINE n == Len(t)
           t1 == Tail(t)
           t2 == Tail(t1)
           t3 == Tail(t2)
           t4 == Tail(t3)
           t5 == Tail(t4)
<1>1. IsSeq(t) /\ n \in Nat
  BY ListFacts DEF Reader1, ReaderOf
<1>2. Rest(t, 0, t)
  BY <1>1, RestOfAll
<1>3. /\ \A tag : peek(t, tag) <=> 1 <= n /\ t[1].tag = tag
      /\ 1 <= n => Head(t) = t[1] /\ Rest(t, 1, t1)
  <2>1. 0 \in Nat /\ 0 <= n /\ 0 + 1 = 1
    BY <1>1
  <2>2. /\ 0 <= Len(t) => \A tag : peek(t, tag) <=> 0 + 1 <= Len(t) /\ t[0 + 1].tag = tag
        /\ 0 + 1 <= Len(t) => Head(t) = t[0 + 1] /\ Rest(t, 0 + 1, Tail(t))
    BY <1>1, <1>2, <2>1, Walk
  <2> HIDE DEF t1
  <2> QED
    BY <2>1, <2>2 DEF t1
<1> HIDE DEF t1
<1>4. /\ 1 <= n => \A tag : peek(t1, tag) <=> 2 <= n /\ t[2].tag = tag
      /\ 2 <= n => Head(t1) = t[2] /\ Rest(t, 2, t2)
  <2>1. 1 \in Nat /\ 1 + 1 = 2
    OBVIOUS
  <2>2. /\ 1 <= n => \A tag : peek(t1, tag) <=> 1 + 1 <= n /\ t[1 + 1].tag = tag
        /\ 1 + 1 <= n => Head(t1) = t[1 + 1] /\ Rest(t, 1 + 1, t2)
    BY <1>1, <1>3, <2>1, Walk
  <2> QED
    BY <2>1, <2>2
<1> HIDE DEF t2
<1>5. /\ 2 <= n => \A tag : peek(t2, tag) <=> 3 <= n /\ t[3].tag = tag
      /\ 3 <= n => Head(t2) = t[3] /\ Rest(t, 3, t3)
  <2>1. 2 \in Nat /\ 2 + 1 = 3
    OBVIOUS
  <2>2. /\ 2 <= n => \A tag : peek(t2, tag) <=> 2 + 1 <= n /\ t[2 + 1].tag = tag
        /\ 2 + 1 <= n => Head(t2) = t[2 + 1] /\ Rest(t, 2 + 1, t3)
    BY <1>1, <1>4, <2>1, Walk
  <2> QED
    BY <2>1, <2>2
<1> HIDE DEF t3
<1>6. /\ 3 <= n => \A tag : peek(t3, tag) <=> 4 <= n /\ t[4].tag = tag
      /\ 4 <= n => Head(t3) = t[4] /\ Rest(t, 4, t4)
  <2>1. 3 \in Nat /\ 3 + 1 = 4
    OBVIOUS
  <2>2. /\ 3 <= n => \A tag : peek(t3, tag) <=> 3 + 1 <= n /\ t[3 + 1].tag = tag
        /\ 3 + 1 <= n => Head(t3) = t[3 + 1] /\ Rest(t, 3 + 1, t4)
    BY <1>1, <1>5, <2>1, Walk
  <2> QED
    BY <2>1, <2>2
<1> HIDE DEF t4
<1>7. /\ 4 <= n => \A tag : peek(t4, tag) <=> 5 <= n /\ t[5].tag = tag
      /\ 5 <= n => Head(t4) = t[5] /\ Rest(t, 5, t5)
  <2>1. 4 \in Nat /\ 4 + 1 = 5
    OBVIOUS
  <2>2. /\ 4 <= n => \A tag : peek(t4, tag) <=> 4 + 1 <= n /\ t[4 + 1].tag = tag
        /\ 4 + 1 <= n => Head(t4) = t[4 + 1] /\ Rest(t, 4 + 1, t5)
    BY <1>1, <1>6, <2>1, Walk
  <2> QED
    BY <2>1, <2>2
<1> HIDE DEF t5, n
<1> DEFINE V == version.result = "Ok" /\ version.value.value = 1
           is1 == t[1].tag = "Integer" /\ t[1].content = << 1 >>
<1>8. (V <=> 1 <= n /\ is1) /\ (V => version.value.rest = t1)
  <2>1. 1 \in 0..127
    OBVIOUS
  <2>2. /\ V <=> peek(t, "Integer") /\ Head(t).content = << 1 >>
        /\ V => version.value.rest = Tail(t)
    BY <2>1, SmallNumberRead DEF version
  <2> QED
    BY <1>3, <2>2 DEF t1
<1> HIDE DEF V, is1
<1>9. V => /\ signature.result = "Ok" <=> 2 <= n /\ t[2].tag = "Sequence"
           /\ signature.result = "Ok" =>
                  signature.value.value = t[2].content /\ signature.value.rest = t2
  <2> SUFFICES ASSUME V PROVE /\ signature.result = "Ok" <=> 2 <= n /\ t[2].tag = "Sequence"
                              /\ signature.result = "Ok" => /\ signature.value.value = t[2].content
                                                            /\ signature.value.rest = t2
    OBVIOUS
  <2>1. signature = expect_tag(t1, "Sequence") /\ 1 <= n
    BY <1>8 DEF signature
  <2> QED
    BY <1>4, <2>1, Expected DEF t2
<1>10. V /\ signature.result = "Ok" =>
           /\ issuer.result = "Ok" <=> 3 <= n /\ t[3].tag = "Sequence"
           /\ issuer.result = "Ok" => issuer.value.rest = t3
  <2> SUFFICES ASSUME V, signature.result = "Ok"
               PROVE /\ issuer.result = "Ok" <=> 3 <= n /\ t[3].tag = "Sequence"
                     /\ issuer.result = "Ok" => issuer.value.rest = t3
    OBVIOUS
  <2>1. issuer = expect_tag(t2, "Sequence") /\ 2 <= n
    BY <1>9 DEF issuer
  <2> QED
    BY <1>5, <2>1, Expected DEF t3
<1>11. V /\ signature.result = "Ok" /\ issuer.result = "Ok" =>
           /\ this.result = "Ok" <=> 4 <= n /\ IsTime(t[4])
           /\ this.result = "Ok" => this.value.rest = t4
  <2> SUFFICES ASSUME V, signature.result = "Ok", issuer.result = "Ok"
               PROVE /\ this.result = "Ok" <=> 4 <= n /\ IsTime(t[4])
                     /\ this.result = "Ok" => this.value.rest = t4
    OBVIOUS
  <2>1. this = Time_from_der(t3) /\ 3 <= n
    BY <1>9, <1>10 DEF this
  <2> QED
    BY <1>6, <2>1, TimeReadIf DEF t4, IsTime, Times
<1>12. V /\ signature.result = "Ok" /\ issuer.result = "Ok" /\ this.result = "Ok" =>
           /\ next.result = "Ok" <=> 5 <= n /\ IsTime(t[5])
           /\ next.result = "Ok" => next.value.rest = t5
  <2> SUFFICES ASSUME V, signature.result = "Ok", issuer.result = "Ok", this.result = "Ok"
               PROVE /\ next.result = "Ok" <=> 5 <= n /\ IsTime(t[5])
                     /\ next.result = "Ok" => next.value.rest = t5
    OBVIOUS
  <2>1. next = Time_from_der(t4) /\ 4 <= n
    BY <1>9, <1>10, <1>11 DEF next
  <2> QED
    BY <1>7, <2>1, TimeReadIf DEF t5, IsTime, Times
<1> DEFINE same == signature.value.value = algorithm
           fine == /\ V /\ signature.result = "Ok" /\ same
                   /\ issuer.result = "Ok" /\ this.result = "Ok" /\ next.result = "Ok"
           parts == /\ n >= 5 /\ is1
                    /\ t[2].tag = "Sequence" /\ t[2].content = algorithm
                    /\ t[3].tag = "Sequence"
                    /\ IsTime(t[4]) /\ IsTime(t[5])
<1>13. fine => parts /\ Rest(t, 5, next.value.rest)
  BY <1>7, <1>8, <1>9, <1>10, <1>11, <1>12
<1>14. parts => fine
  <2>1. n >= 5 => 1 <= n /\ 2 <= n /\ 3 <= n /\ 4 <= n /\ 5 <= n
    BY <1>1 DEF n
  <2> QED
    BY <1>8, <1>9, <1>10, <1>11, <1>12, <2>1
<1> QED
  BY <1>13, <1>14 DEF V, n, is1, version, signature, issuer, this, next

\* The entries, which are optional, and the tag of the extensions after them.
LEMMA TailOfTbs ==
    ASSUME NEW t, Reader5(t), NEW s, Rest(t, 5, s)
    PROVE  LET revoked == revoked_certs(s)
               outer == expect_tag(revoked.value.rest, "ContextSpecificConstructed0")
               n == Len(t)
           IN  /\ revoked.result = "Ok"
               /\ outer.result = "Ok" /\ outer.value.rest = << >> <=>
                      /\ n \in {6, 7} /\ (n = 7 => t[6].tag = "Sequence")
                      /\ t[n].tag = "ContextSpecificConstructed0"
               /\ outer.result = "Ok" =>
                      /\ Reader4(outer.value.value)
                      /\ outer.value.rest = << >> => outer.value.value = t[n].content
<1> DEFINE revoked == revoked_certs(s)
           reader == revoked.value.rest
           outer == expect_tag(reader, "ContextSpecificConstructed0")
           n == Len(t)
           s6 == Tail(s)
           s7 == Tail(s6)
           seq == t[6].tag = "Sequence"
<1>1. IsSeq(t) /\ n \in Nat /\ n >= 5
  <2>1. IsSeq(t) /\ n \in Nat
    BY ListFacts DEF Reader5, ReaderOf
  <2>2. 5 \in 0..Len(t)
    BY DEF Rest
  <2> QED
    BY <2>1, <2>2
<1>2. \A i \in DOMAIN t : t[i].tag = "ContextSpecificConstructed0" => Reader4(t[i].content)
  BY DEF Reader5, ReaderOf
<1> HIDE DEF n
<1>3. /\ s = << >> <=> n = 5
      /\ \A tag : peek(s, tag) <=> 6 <= n /\ t[6].tag = tag
      /\ 6 <= n => Head(s) = t[6] /\ 6 \in DOMAIN t /\ Rest(t, 6, s6)
  <2>1. 5 \in Nat /\ 5 + 1 = 6 /\ 5 <= n
    BY <1>1
  <2>2. /\ 5 <= n => /\ s = << >> <=> n = 5
                     /\ \A tag : peek(s, tag) <=> 5 + 1 <= n /\ t[5 + 1].tag = tag
        /\ 5 + 1 <= n => Head(s) = t[5 + 1] /\ 5 + 1 \in DOMAIN t /\ Rest(t, 5 + 1, s6)
    BY <1>1, <2>1, Walk DEF n
  <2> QED
    BY <2>1, <2>2
<1> HIDE DEF s6
<1>4. /\ 6 <= n => /\ s6 = << >> <=> n = 6
                   /\ \A tag : peek(s6, tag) <=> 7 <= n /\ t[7].tag = tag
      /\ 7 <= n => Head(s6) = t[7] /\ 7 \in DOMAIN t /\ Rest(t, 7, s7)
  <2>1. 6 \in Nat /\ 6 + 1 = 7
    OBVIOUS
  <2>2. /\ 6 <= n => /\ s6 = << >> <=> n = 6
                     /\ \A tag : peek(s6, tag) <=> 6 + 1 <= n /\ t[6 + 1].tag = tag
        /\ 6 + 1 <= n => Head(s6) = t[6 + 1] /\ 6 + 1 \in DOMAIN t /\ Rest(t, 6 + 1, s7)
    BY <1>1, <1>3, <2>1, Walk DEF n
  <2> QED
    BY <2>1, <2>2
<1> HIDE DEF s7
<1>5. 7 <= n => (s7 = << >> <=> n = 7)
  <2> SUFFICES ASSUME 7 <= n PROVE s7 = << >> <=> n = 7
    OBVIOUS
  <2>1. Rest(t, 7, s7)
    BY <1>4
  <2>2. s7 = << >> <=> 7 = Len(t)
    BY <2>1, RestConsumed
  <2> QED
    BY <2>2 DEF n
<1>6. /\ outer.result = "Ok" <=> peek(reader, "ContextSpecificConstructed0")
      /\ outer.result = "Ok" => /\ outer.value.value = Head(reader).content
                                /\ outer.value.rest = Tail(reader)
  BY Expected
<1> HIDE DEF outer
<1>7. CASE 6 <= n /\ seq
  <2>1. peek(s, "Sequence")
    BY <1>3, <1>7
  <2>2. revoked = expect_tag(s, "Sequence")
    BY <2>1 DEF revoked_certs
  <2> HIDE DEF revoked
  <2>3. revoked.result = "Ok" /\ reader = s6
    BY <2>1, <2>2, Expected DEF s6
  <2> HIDE DEF reader
  <2>4. outer.result = "Ok" <=> 7 <= n /\ t[7].tag = "ContextSpecificConstructed0"
    BY <1>4, <1>6, <1>7, <2>3
  <2>5. outer.result = "Ok" => /\ outer.value.value = t[7].content /\ 7 \in DOMAIN t
                               /\ outer.value.rest = s7
    BY <1>4, <1>6, <2>3, <2>4 DEF s7
  <2>6. outer.result = "Ok" /\ outer.value.rest = << >> <=>
            n = 7 /\ t[7].tag = "ContextSpecificConstructed0"
    BY <1>1, <1>5, <2>4, <2>5
  <2>7. n = 6 => t[n].tag # "ContextSpecificConstructed0"
    BY <1>7
  <2>8. n = 7 <=> n \in {6, 7} /\ n # 6
    BY <1>1
  <2>9. outer.result = "Ok" /\ outer.value.rest = << >> <=>
            /\ n \in {6, 7} /\ (n = 7 => seq)
            /\ t[n].tag = "ContextSpecificConstructed0"
    BY <1>7, <2>6, <2>7, <2>8
  <2>10. outer.result = "Ok" => Reader4(outer.value.value)
    BY <1>2, <2>4, <2>5
  <2> QED
    BY <2>3, <2>5, <2>6, <2>9, <2>10 DEF revoked, outer, n, reader
<1>8. CASE ~(6 <= n /\ seq)
  <2>1. ~peek(s, "Sequence")
    BY <1>3, <1>8
  <2>2. revoked = Read(<< >>, s)
    BY <2>1 DEF revoked_certs
  <2> HIDE DEF revoked
  <2>3. revoked.result = "Ok" /\ reader = s
    BY <2>2, ResultFacts
  <2> HIDE DEF reader
  <2>4. outer.result = "Ok" <=> 6 <= n /\ t[6].tag = "ContextSpecificConstructed0"
    BY <1>3, <1>6, <2>3
  <2>5. outer.result = "Ok" => /\ outer.value.value = t[6].content /\ 6 \in DOMAIN t
                               /\ outer.value.rest = s6
    BY <1>3, <1>6, <2>3, <2>4 DEF s6
  <2>6. outer.result = "Ok" /\ outer.value.rest = << >> <=>
            n = 6 /\ t[6].tag = "ContextSpecificConstructed0"
    BY <1>1, <1>4, <2>4, <2>5
  <2>7. n = 7 => ~seq
    BY <1>8
  <2>8. n = 6 <=> n \in {6, 7} /\ n # 7
    BY <1>1
  <2>9. outer.result = "Ok" /\ outer.value.rest = << >> <=>
            /\ n \in {6, 7} /\ (n = 7 => seq)
            /\ t[n].tag = "ContextSpecificConstructed0"
    BY <2>6, <2>7, <2>8
  <2>10. outer.result = "Ok" => Reader4(outer.value.value)
    BY <1>2, <2>4, <2>5
  <2> QED
    BY <2>3, <2>5, <2>6, <2>9, <2>10 DEF revoked, outer, n, reader
<1> QED
  BY <1>7, <1>8

\* BorrowedCertRevocationList::from_der up to the check of the distribution point.
LEMMA TbsRead ==
    ASSUME NEW t, Reader5(t), NEW sd
    PROVE  LET r == tbs_cert_list(t, sd)
               list == ExtensionsOf(t)
           IN  /\ r.result = "Ok" /\ r.value.rest = << >> <=> TbsFine(t, sd.algorithm)
               /\ r.result = "Ok" /\ r.value.rest = << >> =>
                      CrlRemembers(list, Len(list), r.value.value)
<1> DEFINE r == tbs_cert_list(t, sd)
           version == u8_from_der(t)
           signature == expect_tag(version.value.rest, "Sequence")
           issuer == expect_tag(signature.value.rest, "Sequence")
           this_update == Time_from_der(issuer.value.rest)
           next_update == Time_from_der(this_update.value.rest)
           s == next_update.value.rest
           revoked == revoked_certs(s)
           h == [ signed_data |-> sd, issuer |-> issuer.value.value,
                  revoked_certs |-> revoked.value.value, issuing_distribution_point |-> None ]
           outer == expect_tag(revoked.value.rest, "ContextSpecificConstructed0")
           ext == nested_extensions(outer.value.value, h, remember_crl_extension)
           all == IF ext.result # "Ok" THEN ext
                  ELSE IF ext.value.rest # << >> THEN Err("MalformedExtensions")
                  ELSE Ok(ext.value.value)
           last == IF outer.result # "Ok" THEN Err("MalformedExtensions")
                   ELSE IF all.result = "Ok" THEN Read(all.value, outer.value.rest) ELSE all
           at6 == IF revoked.result = "Ok" THEN last ELSE revoked
           at5 == IF next_update.result = "Ok" THEN at6 ELSE next_update
           at4 == IF this_update.result = "Ok" THEN at5 ELSE this_update
           at3 == IF issuer.result = "Ok" THEN at4 ELSE issuer
           at2 == IF signature.result = "Ok"
                  THEN IF signature.value.value # sd.algorithm
                       THEN Err("SignatureAlgorithmMismatch") ELSE at3
                  ELSE signature
           at1 == IF version.result = "Ok"
                  THEN IF version.value.value # 1 THEN Err("UnsupportedCrlVersion") ELSE at2
                  ELSE version
           fine == /\ version.result = "Ok" /\ version.value.value = 1
                   /\ signature.result = "Ok" /\ signature.value.value = sd.algorithm
                   /\ issuer.result = "Ok"
                   /\ this_update.result = "Ok" /\ next_update.result = "Ok"
           n == Len(t)
           list == ExtensionsOf(t)
           parts == /\ n >= 5
                    /\ t[1].tag = "Integer" /\ t[1].content = << 1 >>
                    /\ t[2].tag = "Sequence" /\ t[2].content = sd.algorithm
                    /\ t[3].tag = "Sequence"
                    /\ IsTime(t[4]) /\ IsTime(t[5])
           ends == /\ n \in {6, 7} /\ (n = 7 => t[6].tag = "Sequence")
                   /\ t[n].tag = "ContextSpecificConstructed0"
           taken == /\ Tags(t[n].content) = << "Sequence" >>
                    /\ list # << >> /\ TakenByCrl(list, Len(list))
<1>1. r = at1
  BY DEF tbs_cert_list, AndThen, nested, read_to_end
<1>2. /\ Err("MalformedExtensions").result # "Ok"
      /\ Err("SignatureAlgorithmMismatch").result # "Ok"
      /\ Err("UnsupportedCrlVersion").result # "Ok"
  BY ResultFacts
<1>3. "issuing_distribution_point" \in DOMAIN h /\ h["issuing_distribution_point"] = None
  OBVIOUS
<1>4. (fine <=> parts) /\ (fine => Rest(t, 5, s))
  <2>1. Reader1(t)
    BY ReaderWeaker
  <2>2. LET a == sd.algorithm
            g == /\ version.result = "Ok" /\ version.value.value = 1
                 /\ signature.result = "Ok" /\ signature.value.value = a
                 /\ issuer.result = "Ok"
                 /\ this_update.result = "Ok" /\ next_update.result = "Ok"
        IN  /\ g <=> /\ Len(t) >= 5
                     /\ t[1].tag = "Integer" /\ t[1].content = << 1 >>
                     /\ t[2].tag = "Sequence" /\ t[2].content = a
                     /\ t[3].tag = "Sequence"
                     /\ IsTime(t[4]) /\ IsTime(t[5])
            /\ g => Rest(t, 5, next_update.value.rest)
    BY <2>1, HeadOfTbs, ZenonT(30)
  <2> QED
    BY <2>2
<1>5. fine => /\ revoked.result = "Ok"
              /\ outer.result = "Ok" /\ outer.value.rest = << >> <=> ends
              /\ outer.result = "Ok" =>
                     /\ Reader4(outer.value.value)
                     /\ outer.value.rest = << >> => outer.value.value = t[n].content
  <2> SUFFICES ASSUME Rest(t, 5, s)
               PROVE  /\ revoked.result = "Ok"
                      /\ outer.result = "Ok" /\ outer.value.rest = << >> <=> ends
                      /\ outer.result = "Ok" =>
                             /\ Reader4(outer.value.value)
                             /\ outer.value.rest = << >> => outer.value.value = t[n].content
    <3> HIDE DEF fine, s, revoked, outer, ends, n
    <3> QED
      BY <1>4
  <2> HIDE DEF s
  <2> QED
    BY TailOfTbs
<1> HIDE DEF version, signature, issuer, this_update, next_update, s, revoked, h, outer, r
<1>6. Reader4(outer.value.value) =>
          LET l == outer.value.value[1].content
          IN  /\ ext.result = "Ok" /\ ext.value.rest = << >> <=>
                     /\ Tags(outer.value.value) = << "Sequence" >>
                     /\ l # << >> /\ TakenByCrl(l, Len(l))
              /\ ext.result = "Ok" => CrlRemembers(l, Len(l), ext.value.value)
  BY <1>3, CrlExtensionsRead
<1> HIDE DEF ext
<1>7. /\ all.result = "Ok" <=> ext.result = "Ok" /\ ext.value.rest = << >>
      /\ all.result = "Ok" => all.value = ext.value.value
  BY <1>2, ResultFacts
<1> HIDE DEF all
<1>8. /\ last.result = "Ok" <=> outer.result = "Ok" /\ all.result = "Ok"
      /\ last.result = "Ok" => last.value.value = all.value /\ last.value.rest = outer.value.rest
  BY <1>2, ResultFacts
<1> HIDE DEF last
<1>9. r.result = "Ok" <=> fine /\ revoked.result = "Ok" /\ last.result = "Ok"
  BY <1>1, <1>2
<1>10. r.result = "Ok" => r = last
  BY <1>1, <1>2
<1>11. list = t[n].content[1].content
  BY DEF ExtensionsOf
<1>12. TbsFine(t, sd.algorithm) <=> parts /\ ends /\ taken
  <2>1. n \in {6, 7} => n >= 5
    OBVIOUS
  <2>2. TbsFine(t, sd.algorithm) <=>
            /\ n \in {6, 7}
            /\ t[1].tag = "Integer" /\ t[1].content = << 1 >>
            /\ t[2].tag = "Sequence" /\ t[2].content = sd.algorithm
            /\ t[3].tag = "Sequence"
            /\ IsTime(t[4]) /\ IsTime(t[5])
            /\ n = 7 => t[6].tag = "Sequence"
            /\ t[n].tag = "ContextSpecificConstructed0"
            /\ Tags(t[n].content) = << "Sequence" >>
            /\ list # << >> /\ TakenByCrl(list, Len(list))
    BY DEF TbsFine
  <2> HIDE DEF n, list
  <2> QED
    BY <2>1, <2>2
<1> HIDE DEF fine, parts, ends, list
<1>13. outer.result = "Ok" /\ outer.value.rest = << >> /\ fine =>
           /\ ext.result = "Ok" /\ ext.value.rest = << >> <=> taken
           /\ ext.result = "Ok" => CrlRemembers(list, Len(list), ext.value.value)
  <2> HIDE DEF n
  <2> QED
    BY <1>5, <1>6, <1>11
<1> HIDE DEF taken
<1>14. r.result = "Ok" /\ r.value.rest = << >> <=>
           fine /\ outer.result = "Ok" /\ outer.value.rest = << >>
           /\ ext.result = "Ok" /\ ext.value.rest = << >>
  BY <1>5, <1>7, <1>8, <1>9, <1>10
<1>15. r.result = "Ok" /\ r.value.rest = << >> <=> parts /\ ends /\ taken
  BY <1>4, <1>5, <1>13, <1>14
<1>16. r.result = "Ok" /\ r.value.rest = << >> => CrlRemembers(list, Len(list), r.value.value)
  BY <1>7, <1>8, <1>10, <1>13, <1>14
<1> QED
  BY <1>12, <1>15, <1>16 DEF r, list

\* The specification of a CRL, in the order in which the parser finds out.
LEMMA SupportedParts ==
    ASSUME NEW der
    PROVE  LET body == der[1].content
               t == body[1].content
           IN  SupportedApartFromIdp(der) <=>
                   /\ Tags(der) = << "Sequence" >>
                   /\ Tags(body) = << "Sequence", "Sequence", "BitString" >>
                   /\ body[3].content # << >> /\ Head(body[3].content) = 0
                   /\ Len(t) \in {6, 7}
                   /\ Tags(SubSeq(t, 1, 3)) = << "Integer", "Sequence", "Sequence" >>
                   /\ t[1].content = << 1 >> /\ t[2].content = body[2].content
                   /\ IsTime(t[4]) /\ IsTime(t[5])
                   /\ Len(t) = 7 => t[6].tag = "Sequence"
                   /\ t[Len(t)].tag = "ContextSpecificConstructed0"
                   /\ Tags(t[Len(t)].content) = << "Sequence" >>
                   /\ SupportedExtensions(ExtensionsOf(t))
<1> DEFINE body == der[1].content
           t == body[1].content
           times == \A i \in {4, 5} : t[i].tag \in Times /\ t[i].content # "malformed"
           exts == SupportedExtensions(t[Len(t)].content[1].content)
<1>1. times <=> IsTime(t[4]) /\ IsTime(t[5])
  BY DEF IsTime
<1>2. exts <=> SupportedExtensions(ExtensionsOf(t))
  BY DEF ExtensionsOf
<1>3. SupportedApartFromIdp(der) <=>
                   /\ Tags(der) = << "Sequence" >>
                   /\ Tags(body) = << "Sequence", "Sequence", "BitString" >>
                   /\ body[3].content # << >> /\ Head(body[3].content) = 0
                   /\ Len(t) \in {6, 7}
                   /\ Tags(SubSeq(t, 1, 3)) = << "Integer", "Sequence", "Sequence" >>
                   /\ t[1].content = << 1 >> /\ t[2].content = body[2].content
                   /\ times
                   /\ Len(t) = 7 => t[6].tag = "Sequence"
                   /\ t[Len(t)].tag = "ContextSpecificConstructed0"
                   /\ Tags(t[Len(t)].content) = << "Sequence" >>
                   /\ exts
  BY Zenon DEF SupportedApartFromIdp
<1> HIDE DEF times, exts
<1> QED
  BY <1>1, <1>2, <1>3, Zenon

\* The first three tags.
LEMMA ThreeTags ==
    ASSUME NEW t, IsSeq(t), Len(t) >= 3
    PROVE  Tags(SubSeq(t, 1, 3)) = << "Integer", "Sequence", "Sequence" >> <=>
               t[1].tag = "Integer" /\ t[2].tag = "Sequence" /\ t[3].tag = "Sequence"
<1> DEFINE s == SubSeq(t, 1, 3)
           want == << "Integer", "Sequence", "Sequence" >>
<1>1. s = [i \in 1..3 |-> t[i]]
  BY DEF IsSeq
<1>2. Tags(s) = [i \in 1..3 |-> t[i].tag]
  BY <1>1 DEF Tags
<1>3. /\ DOMAIN want = 1..3 /\ want[1] = "Integer"
      /\ want[2] = "Sequence" /\ want[3] = "Sequence"
      /\ want = [i \in 1..3 |-> want[i]]
  OBVIOUS
<1> HIDE DEF s, want
<1>4. Tags(s) = want <=> \A i \in 1..3 : t[i].tag = want[i]
  BY <1>2, <1>3
<1>5. (\A i \in 1..3 : t[i].tag = want[i]) <=>
          t[1].tag = "Integer" /\ t[2].tag = "Sequence" /\ t[3].tag = "Sequence"
  BY <1>3
<1> QED
  BY <1>4, <1>5 DEF s, want

\* Extensions that are taken have the distribution point in a reader.
LEMMA TakenContent ==
    ASSUME NEW list, Reader5(list), NEW i \in DOMAIN list, FineCrlExtension(list[i])
    PROVE  Reader3(Content(list[i]))
<1> DEFINE b == list[i].content
<1>1. list[i].tag = "Sequence" /\ Shape(b)
  BY DEF FineCrlExtension, WellFormedExtension, Shape
<1>2. Reader4(b)
  BY <1>1 DEF Reader5, ReaderOf
<1>3. Content(list[i]) = b[Len(b)].content
  BY DEF Content
<1> HIDE DEF b
<1>4. IsSeq(b)
  BY <1>2 DEF Reader4, ReaderOf
<1>5. b[Len(b)].tag = "OctetString" /\ Len(b) \in DOMAIN b
  BY <1>1, <1>4, ShapeEnds
<1> QED
  BY <1>2, <1>3, <1>5 DEF Reader4, ReaderOf

\* What is loaded.
Loadable(der) == SupportedApartFromIdp(der) /\ \A v \in Idps(der) : LoadableIdp(v)

\* The issuing distribution points, by their places in the list.
LEMMA IdpsOfList ==
    ASSUME NEW der, NEW list, list = ExtensionsOf(der[1].content[1].content), IsSeq(list)
    PROVE  \A v : v \in Idps(der) <=>
                      \E i \in 1..Len(list) : /\ Id(list[i]) = "issuingDistributionPoint"
                                              /\ v = Content(list[i])
<1>1. DOMAIN list = 1..Len(list)
  BY ListFacts
<1>2. Idps(der) = {Content(e) : e \in {x \in Range(list) : Id(x) = "issuingDistributionPoint"}}
  BY Zenon DEF Idps, ExtensionsOf
<1> QED
  BY <1>1, <1>2, Zenon DEF Range

\* BorrowedCertRevocationList::from_der loads these CRLs; their issuing distribution points
\* are readers, and the names of one that it loads are a list.
LEMMA CrlRead ==
    ASSUME NEW der, Reader9(der)
    PROVE  LET r == crl_from_der(der)
           IN  /\ r.result = "Ok" <=> Loadable(der)
               /\ SupportedApartFromIdp(der) => \A v \in Idps(der) : Reader3(v)
               /\ r.result = "Ok" /\ IsSome(r.value.issuing_distribution_point) =>
                      IsSeq(loaded_idp(r.value).names)
<1> DEFINE r == crl_from_der(der)
           s == expect_tag(der, "Sequence")
           body == der[1].content
           sd == SignedData_from_der(s.value.value)
           whole == IF sd.result # "Ok" THEN sd
                    ELSE IF sd.value.rest # << >> THEN Err("TrailingData")
                    ELSE Ok(sd.value.value)
           outer == IF s.result # "Ok" THEN Err("TrailingData")
                    ELSE IF whole.result = "Ok" THEN Read(whole.value, s.value.rest) ELSE whole
           list == tbs_cert_list(outer.value.value.tbs, outer.value.value.signed_data)
           crl == IF list.result # "Ok" THEN list
                  ELSE IF list.value.rest # << >> THEN Err("BadDer")
                  ELSE Ok(list.value.value)
           checked == idp_checked(crl.value)
           end == IF outer.value.rest = << >> THEN Ok(checked.value) ELSE Err("TrailingData")
           at2 == IF checked.result = "Ok" THEN end ELSE checked
           at1 == IF crl.result = "Ok" THEN at2 ELSE crl
           t == body[1].content
           exts == ExtensionsOf(t)
           bits == body[3].content
<1>1. r = IF outer.result = "Ok" THEN at1 ELSE outer
  BY DEF crl_from_der, AndThen, nested, read_to_end
<1>2. Err("BadDer").result # "Ok" /\ Err("TrailingData").result # "Ok"
  BY DEF Err
<1>3. /\ s.result = "Ok" <=> peek(der, "Sequence")
      /\ s.result = "Ok" => s.value.value = Head(der).content /\ s.value.rest = Tail(der)
  BY Expected
<1> HIDE DEF r, s
<1>4. /\ whole.result = "Ok" <=> sd.result = "Ok" /\ sd.value.rest = << >>
      /\ whole.result = "Ok" => whole.value = sd.value.value
  <2> HIDE DEF sd
  <2> QED
    BY <1>2, ResultFacts
<1> HIDE DEF whole, sd
<1>5. /\ outer.result = "Ok" <=> s.result = "Ok" /\ whole.result = "Ok"
      /\ outer.result = "Ok" => outer.value.value = whole.value /\ outer.value.rest = s.value.rest
  BY <1>2, ResultFacts
<1> HIDE DEF outer, list
<1>6. /\ crl.result = "Ok" <=> list.result = "Ok" /\ list.value.rest = << >>
      /\ crl.result = "Ok" => crl.value = list.value.value
  BY <1>2, ResultFacts
<1> DEFINE c == crl.value
           f == c.issuing_distribution_point
           idp == IssuingDistributionPoint_from_der(The(f))
<1>7. /\ checked.result = "Ok" <=> (IsSome(f) => idp.result = "Ok")
      /\ checked.result = "Ok" => checked.value = c
  <2>1. checked = IF ~IsSome(f) THEN Ok(c) ELSE IF idp.result = "Ok" THEN Ok(c) ELSE idp
    BY DEF idp_checked, AndThen
  <2> HIDE DEF checked, f, c, idp
  <2> QED
    BY <2>1, ResultFacts
<1> HIDE DEF checked, crl
<1>8. /\ r.result = "Ok" <=> /\ outer.result = "Ok" /\ crl.result = "Ok"
                             /\ checked.result = "Ok" /\ outer.value.rest = << >>
      /\ r.result = "Ok" => r.value = checked.value
  BY <1>1, <1>2, ResultFacts
<1> HIDE DEF at1, at2, end
<1>9. IsSeq(der)
  BY DEF Reader9, ReaderOf
<1>10. Tags(der) = << "Sequence" >> <=> peek(der, "Sequence") /\ Tail(der) = << >>
  BY <1>9, OnlyElement
<1>11. SupportedApartFromIdp(der) <=>
                   /\ Tags(der) = << "Sequence" >>
                   /\ Tags(body) = << "Sequence", "Sequence", "BitString" >>
                   /\ bits # << >> /\ Head(bits) = 0
                   /\ Len(t) \in {6, 7}
                   /\ Tags(SubSeq(t, 1, 3)) = << "Integer", "Sequence", "Sequence" >>
                   /\ t[1].content = << 1 >> /\ t[2].content = body[2].content
                   /\ IsTime(t[4]) /\ IsTime(t[5])
                   /\ Len(t) = 7 => t[6].tag = "Sequence"
                   /\ t[Len(t)].tag = "ContextSpecificConstructed0"
                   /\ Tags(t[Len(t)].content) = << "Sequence" >>
                   /\ SupportedExtensions(exts)
  BY SupportedParts, Zenon
<1>12. CASE ~peek(der, "Sequence")
  BY <1>3, <1>5, <1>8, <1>10, <1>11, <1>12 DEF r, Loadable
<1>13. CASE peek(der, "Sequence")
  <2>1. 1 \in DOMAIN der /\ Head(der) = der[1] /\ der[1].tag = "Sequence"
    BY <1>9, <1>13, PeekFirst
  <2>2. Reader8(body)
    BY <2>1 DEF Reader9, ReaderOf
  <2>3. s.value.value = body /\ s.result = "Ok" /\ s.value.rest = Tail(der)
    BY <1>3, <1>13, <2>1
  <2> DEFINE signed == /\ Tags(body) = << "Sequence", "Sequence", "BitString" >>
                       /\ bits # << >> /\ bits[1] = 0
  <2> HIDE DEF body
  <2>4. IsSeq(body)
    BY <2>2 DEF Reader8, ReaderOf
  <2>5. /\ sd.result = "Ok" /\ sd.value.rest = << >> <=> signed
        /\ sd.result = "Ok" => /\ sd.value.value.tbs = t
                               /\ sd.value.value.signed_data.algorithm = body[2].content
    BY <2>3, <2>4, SignedParts DEF sd
  <2>6. Tags(body) = << "Sequence", "Sequence", "BitString" >> =>
            /\ 1 \in DOMAIN body /\ body[1].tag = "Sequence"
            /\ 3 \in DOMAIN body /\ body[3].tag = "BitString"
    <3>1. DOMAIN body = 1..Len(body)
      BY <2>4, ListFacts
    <3>2. Tags(body) = << "Sequence", "Sequence", "BitString" >> =>
              Len(body) = 3 /\ body[1].tag = "Sequence" /\ body[3].tag = "BitString"
      BY <2>4, TagsOfThree
    <3> QED
      BY <3>1, <3>2
  <2>7. signed <=> /\ Tags(body) = << "Sequence", "Sequence", "BitString" >>
                   /\ bits # << >> /\ Head(bits) = 0
    <3> SUFFICES ASSUME Tags(body) = << "Sequence", "Sequence", "BitString" >>, bits # << >>
                 PROVE  Head(bits) = bits[1]
      OBVIOUS
    <3>1. Octets(bits)
      BY <2>2, <2>6 DEF Reader8, ReaderOf
    <3> HIDE DEF bits
    <3>2. IsSeq(bits)
      BY <3>1 DEF Octets
    <3> QED
      BY <3>2, ListConsumed
  <2>8. CASE ~signed
    <3>1. r.result # "Ok"
      BY <1>4, <1>5, <1>8, <2>5, <2>8
    <3>2. ~SupportedApartFromIdp(der)
      <4> HIDE DEF signed, t, exts, bits
      <4> QED
        BY <1>11, <2>7, <2>8
    <3> QED
      BY <3>1, <3>2 DEF r, Loadable
  <2>9. CASE signed
    <3>1. Reader7(t)
      BY <2>2, <2>6, <2>9 DEF Reader8, ReaderOf
    <3> DEFINE data == sd.value.value.signed_data
               q == tbs_cert_list(t, data)
    <3>2. outer.result = "Ok" /\ outer.value.rest = Tail(der)
      BY <1>4, <1>5, <2>3, <2>5, <2>9
    <3>3. outer.value.value = sd.value.value /\ sd.value.value.tbs = t
      BY <1>4, <1>5, <2>5, <2>9, <3>2
    <3>4. list = q /\ data.algorithm = body[2].content
      BY <2>5, <2>9, <3>3 DEF list
    <3> HIDE DEF t, data
    <3>5. Reader5(t) /\ IsSeq(t)
      BY <3>1, ReaderWeaker
    <3>6. /\ q.result = "Ok" /\ q.value.rest = << >> <=> TbsFine(t, data.algorithm)
          /\ q.result = "Ok" /\ q.value.rest = << >> => CrlRemembers(exts, Len(exts), q.value.value)
      BY <3>5, TbsRead
    <3> HIDE DEF q
    <3>7. /\ crl.result = "Ok" <=> TbsFine(t, body[2].content)
          /\ crl.result = "Ok" => CrlRemembers(exts, Len(exts), c)
      BY <1>6, <3>4, <3>6
    <3> DEFINE n == Len(t)
               okidp == \A i \in 1..Len(exts) : Id(exts[i]) = "issuingDistributionPoint" =>
                            LoadableIdp(Content(exts[i]))
    <3>8. n \in {6, 7} /\ t[n].tag = "ContextSpecificConstructed0"
          /\ Tags(t[n].content) = << "Sequence" >> => Reader5(exts)
      <4> SUFFICES ASSUME n \in {6, 7}, t[n].tag = "ContextSpecificConstructed0",
                          Tags(t[n].content) = << "Sequence" >>
                   PROVE  Reader5(exts)
        OBVIOUS
      <4>1. DOMAIN t = 1..n
        BY <3>5, ListFacts
      <4> DEFINE tagged == t[n].content
      <4>2. exts = tagged[1].content
        BY DEF ExtensionsOf
      <4> HIDE DEF n, exts
      <4>3. n \in DOMAIN t
        BY <4>1
      <4>4. Reader6(tagged)
        BY <3>1, <4>3 DEF Reader7, ReaderOf
      <4> HIDE DEF tagged
      <4>5. IsSeq(tagged)
        BY <4>4 DEF Reader6, ReaderOf
      <4>6. Tags(tagged) = << "Sequence" >>
        BY DEF tagged
      <4>7. peek(tagged, "Sequence")
        BY <4>5, <4>6, OnlyElement
      <4>8. 1 \in DOMAIN tagged /\ tagged[1].tag = "Sequence"
        BY <4>5, <4>7, PeekFirst
      <4> QED
        BY <4>2, <4>4, <4>8 DEF Reader6, ReaderOf
    <3>9. TbsFine(t, body[2].content) =>
              /\ Reader5(exts) /\ IsSeq(exts) /\ exts # << >>
              /\ TakenByCrl(exts, Len(exts))
      <4>1. TbsFine(t, body[2].content) =>
                /\ n \in {6, 7} /\ t[n].tag = "ContextSpecificConstructed0"
                /\ Tags(t[n].content) = << "Sequence" >>
                /\ exts # << >> /\ TakenByCrl(exts, Len(exts))
        BY DEF TbsFine
      <4> HIDE DEF n, exts
      <4> QED
        BY <3>8, <4>1, ReaderWeaker
    <3>10. ASSUME crl.result = "Ok"
           PROVE  /\ checked.result = "Ok" <=> okidp
                  /\ checked.result = "Ok" /\ IsSome(f) => IsSeq(idp_view(idp.value).names)
      <4> DEFINE m == Len(exts)
                 is(i) == Id(exts[i]) = "issuingDistributionPoint"
      <4>1. /\ Reader5(exts) /\ IsSeq(exts) /\ TakenByCrl(exts, m) /\ CrlRemembers(exts, m, c)
        BY <3>7, <3>9, <3>10
      <4>2. DOMAIN exts = 1..m
        BY <4>1, ListFacts
      <4>3. /\ (\A i \in 1..m : ~is(i)) => f = None
            /\ \A i \in 1..m : is(i) => f = Some(Content(exts[i]))
        BY <4>1 DEF CrlRemembers
      <4>4. \A i \in 1..m : FineCrlExtension(exts[i])
        BY <4>1 DEF TakenByCrl
      <4> HIDE DEF exts, f, m
      <4>5. \A i \in 1..m : Reader3(Content(exts[i]))
        BY <4>1, <4>2, <4>4, TakenContent
      <4>6. ~IsSome(None) /\ \A v : IsSome(Some(v)) /\ The(Some(v)) = v
        BY DEF IsSome, Some, None, The
      <4>7. CASE \A i \in 1..m : ~is(i)
        <5>1. ~IsSome(f)
          BY <4>3, <4>6, <4>7
        <5>2. okidp
          BY <4>7 DEF m
        <5> QED
          BY <1>7, <5>1, <5>2
      <4>8. CASE \E i \in 1..m : is(i)
        <5>1. PICK i \in 1..m : is(i)
          BY <4>8
        <5> DEFINE v == Content(exts[i])
        <5>2. f = Some(v) /\ Reader3(v) /\ IsSome(f) /\ The(f) = v
          BY <4>3, <4>5, <4>6, <5>1
        <5>3. /\ idp.result = "Ok" <=> LoadableIdp(v)
              /\ idp.result = "Ok" => IsSeq(idp_view(idp.value).names)
          <6>1. idp = IssuingDistributionPoint_from_der(v)
            BY <5>2
          <6> HIDE DEF idp, v
          <6> QED
            BY <5>2, <6>1, IdpRead DEF LoadableIdp
        <5>4. \A j \in 1..m : is(j) => Content(exts[j]) = v
          <6> SUFFICES ASSUME NEW j \in 1..m, is(j) PROVE Content(exts[j]) = v
            OBVIOUS
          <6>1. Some(Content(exts[j])) = Some(v)
            BY <4>3, <5>2
          <6> HIDE DEF v
          <6> QED
            BY <4>6, <6>1
        <5>5. okidp <=> LoadableIdp(v)
          BY <5>1, <5>4 DEF m
        <5> HIDE DEF idp
        <5> QED
          BY <1>7, <5>2, <5>3, <5>5
      <4> QED
        BY <4>7, <4>8
    <3>11. TbsFine(t, body[2].content) <=>
               /\ n \in {6, 7}
               /\ Tags(SubSeq(t, 1, 3)) = << "Integer", "Sequence", "Sequence" >>
               /\ t[1].content = << 1 >> /\ t[2].content = body[2].content
               /\ IsTime(t[4]) /\ IsTime(t[5])
               /\ n = 7 => t[6].tag = "Sequence"
               /\ t[n].tag = "ContextSpecificConstructed0"
               /\ Tags(t[n].content) = << "Sequence" >>
               /\ SupportedExtensions(exts)
      <4> DEFINE tags == t[1].tag = "Integer" /\ t[2].tag = "Sequence" /\ t[3].tag = "Sequence"
                 algorithm == body[2].content
                 others == /\ t[1].content = << 1 >> /\ t[2].content = algorithm
                           /\ IsTime(t[4]) /\ IsTime(t[5])
                           /\ n = 7 => t[6].tag = "Sequence"
                           /\ t[n].tag = "ContextSpecificConstructed0"
                           /\ Tags(t[n].content) = << "Sequence" >>
                 first == Tags(SubSeq(t, 1, 3)) = << "Integer", "Sequence", "Sequence" >>
                 some == exts # << >> /\ TakenByCrl(exts, Len(exts))
      <4>1. n \in {6, 7} => n >= 3
        OBVIOUS
      <4>2. n \in {6, 7} => (first <=> tags)
        BY <3>5, <4>1, ThreeTags
      <4>3. TbsFine(t, algorithm) <=> n \in {6, 7} /\ tags /\ others /\ some
        BY DEF TbsFine
      <4>4. n \in {6, 7} /\ others => IsSeq(exts)
        <5> HIDE DEF n
        <5> QED
          BY <3>8, ReaderWeaker
      <4>5. IsSeq(exts) => (SupportedExtensions(exts) <=> some)
        <5> HIDE DEF exts
        <5> QED
          BY SupportedIsTaken
      <4> HIDE DEF n, first, tags, others, some, okidp, exts, algorithm
      <4>6. TbsFine(t, algorithm) <=>
                n \in {6, 7} /\ first /\ others /\ SupportedExtensions(exts)
        BY <4>2, <4>3, <4>4, <4>5
      <4> QED
        BY <4>6 DEF first, others, algorithm
    <3>12. exts = ExtensionsOf(der[1].content[1].content)
      BY DEF exts, t, body
    <3> HIDE DEF n, okidp, exts, idp
    <3>13. r.result = "Ok" <=> Tail(der) = << >> /\ TbsFine(t, body[2].content) /\ okidp
      BY <1>8, <3>2, <3>7, <3>10
    <3>14. SupportedApartFromIdp(der) <=> Tail(der) = << >> /\ TbsFine(t, body[2].content)
      BY <1>10, <1>11, <1>13, <2>7, <2>9, <3>11 DEF n
    <3>15. TbsFine(t, body[2].content) =>
              \A v : v \in Idps(der) <=>
                         \E i \in 1..Len(exts) : /\ Id(exts[i]) = "issuingDistributionPoint"
                                                 /\ v = Content(exts[i])
      BY <3>9, <3>12, IdpsOfList
    <3>16. TbsFine(t, body[2].content) => (okidp <=> \A v \in Idps(der) : LoadableIdp(v))
      BY <3>15, Zenon DEF okidp
    <3>17. SupportedApartFromIdp(der) => \A v \in Idps(der) : Reader3(v)
      <4> SUFFICES ASSUME SupportedApartFromIdp(der), NEW v \in Idps(der) PROVE Reader3(v)
        OBVIOUS
      <4>1. Reader5(exts) /\ IsSeq(exts) /\ TakenByCrl(exts, Len(exts))
        BY <3>9, <3>14
      <4>2. PICK i \in 1..Len(exts) : v = Content(exts[i])
        BY <3>14, <3>15
      <4>3. i \in DOMAIN exts /\ FineCrlExtension(exts[i])
        BY <4>1, ListFacts DEF TakenByCrl
      <4> QED
        BY <4>1, <4>2, <4>3, TakenContent
    <3>18. r.result = "Ok" <=> Loadable(der)
      BY <3>13, <3>14, <3>16 DEF Loadable
    <3>19. ASSUME r.result = "Ok", IsSome(r.value.issuing_distribution_point)
           PROVE  IsSeq(loaded_idp(r.value).names)
      <4>1. checked.result = "Ok" /\ crl.result = "Ok" /\ r.value = c
        BY <1>7, <1>8, <3>19
      <4>2. IsSome(f)
        BY <3>19, <4>1
      <4>3. loaded_idp(r.value) = idp_view(idp.value)
        BY <4>1 DEF loaded_idp, idp
      <4> QED
        BY <3>10, <4>1, <4>2, <4>3
    <3> QED
      BY <3>18, <3>19, <3>17 DEF r
  <2> QED
    BY <2>8, <2>9
<1> QED
  BY <1>12, <1>13

-----------------------------------------------------------------------------
(* The names of distribution points that an iterator consumes.             *)

\* The first URI of a list, as a value.
FirstUri(list) ==
    IF first_uri(list) = 0 THEN None ELSE Some(list[first_uri(list)].value.value)

\* The URI is named in the list.
Names(list, u) == \E n \in DOMAIN list : names_uri(list[n], u)

LEMMA FirstUriIndex ==
    ASSUME NEW s, IsSeq(s)
    PROVE  \/ first_uri(s) = 0 /\ \A i \in 1..Len(s) : ~IsUri(s[i])
           \/ /\ first_uri(s) \in 1..Len(s) /\ IsUri(s[first_uri(s)])
              /\ \A i \in 1..Len(s) : IsUri(s[i]) => first_uri(s) <= i
<1> DEFINE I == {i \in 1..Len(s) : IsUri(s[i])}
<1>1. first_uri(s) = IF I # {} THEN Min(I) ELSE 0
  BY DEF first_uri, SelectInSeq
<1>2. Len(s) \in Nat /\ I \in SUBSET Nat
  BY ListFacts
<1>3. I # {} => Min(I) \in I /\ \A i \in I : Min(I) <= i
  BY <1>2, MinOfIndices
<1> QED
  BY <1>1, <1>3

\* What consuming a name that is no URI, or finding one, means for the first URI.
LEMMA FirstUriConsumed ==
    ASSUME NEW s, IsSeq(s)
    PROVE  /\ s = << >> => FirstUri(s) = None
           /\ s # << >> /\ IsUri(Head(s)) => FirstUri(s) = Some(Head(s).value.value)
           /\ s # << >> /\ ~IsUri(Head(s)) => FirstUri(Tail(s)) = FirstUri(s)
<1> DEFINE k == first_uri(s)
           l == first_uri(Tail(s))
<1>1. \/ k = 0 /\ \A i \in 1..Len(s) : ~IsUri(s[i])
      \/ /\ k \in 1..Len(s) /\ IsUri(s[k])
         /\ \A i \in 1..Len(s) : IsUri(s[i]) => k <= i
  BY FirstUriIndex
<1>2. ASSUME s = << >> PROVE FirstUri(s) = None
  <2>1. Len(s) = 0
    BY <1>2, ListFacts
  <2>2. k = 0
    BY <1>1, <2>1
  <2> QED
    BY <2>2 DEF FirstUri
<1>3. ASSUME s # << >>, IsUri(Head(s)) PROVE FirstUri(s) = Some(Head(s).value.value)
  <2>1. Head(s) = s[1] /\ 1 \in 1..Len(s)
    BY <1>3, ListConsumed
  <2>2. k = 1
    BY <1>1, <1>3, <2>1
  <2> QED
    BY <2>1, <2>2 DEF FirstUri
<1>4. ASSUME s # << >>, ~IsUri(Head(s)) PROVE FirstUri(Tail(s)) = FirstUri(s)
  <2> DEFINE n == Len(s)
             t == Tail(s)
  <2>1. /\ IsSeq(t) /\ Len(t) = n - 1 /\ n \in Nat /\ n > 0
        /\ ~IsUri(s[1]) /\ \A i \in 1..(n - 1) : t[i] = s[i + 1]
    BY <1>4, ListConsumed
  <2> HIDE DEF t, n
  <2>2. \/ l = 0 /\ \A i \in 1..(n - 1) : ~IsUri(t[i])
        \/ /\ l \in 1..(n - 1) /\ IsUri(t[l])
           /\ \A i \in 1..(n - 1) : IsUri(t[i]) => l <= i
    BY <2>1, FirstUriIndex DEF t
  <2>3. CASE k = 0
    <3>1. \A i \in 1..(n - 1) : i + 1 \in 1..n
      BY <2>1
    <3>2. \A i \in 1..n : ~IsUri(s[i])
      BY <1>1, <2>3 DEF n
    <3>3. \A i \in 1..(n - 1) : ~IsUri(t[i])
      BY <2>1, <3>1, <3>2
    <3>4. l = 0
      BY <2>2, <3>3
    <3> QED
      BY <2>3, <3>4 DEF FirstUri, t
  <2>4. CASE k # 0
    <3>1. k \in 1..n /\ IsUri(s[k]) /\ \A i \in 1..n : IsUri(s[i]) => k <= i
      BY <1>1, <2>4 DEF n
    <3>2. k # 1
      BY <2>1, <3>1
    <3> HIDE DEF k, l
    <3>3. k - 1 \in 1..(n - 1) /\ (k - 1) + 1 = k
      BY <2>1, <3>1, <3>2
    <3>4. t[k - 1] = s[k]
      BY <2>1, <3>3
    <3>5. l \in 1..(n - 1) /\ IsUri(t[l]) /\ l <= k - 1
      BY <2>2, <3>1, <3>3, <3>4
    <3>6. l + 1 \in 1..n /\ t[l] = s[l + 1]
      BY <2>1, <3>5
    <3>7. k <= l + 1
      BY <3>1, <3>5, <3>6
    <3>8. l + 1 = k
      BY <2>1, <3>1, <3>5, <3>7
    <3>9. l # 0 /\ t[l] = s[k]
      BY <2>1, <3>5, <3>6, <3>8
    <3> QED
      BY <2>4, <3>9 DEF FirstUri, k, l, t
  <2> QED
    BY <2>3, <2>4
<1> QED
  BY <1>2, <1>3, <1>4

\* What consuming a name means for the names that are left.
LEMMA NamesConsumed ==
    ASSUME NEW s, IsSeq(s), NEW u
    PROVE  /\ s = << >> => ~Names(s, u)
           /\ s # << >> => (Names(s, u) <=> names_uri(Head(s), u) \/ Names(Tail(s), u))
<1>1. Len(s) \in Nat /\ DOMAIN s = 1..Len(s) /\ (s = << >> => Len(s) = 0)
  BY ListFacts
<1>2. s = << >> => ~Names(s, u)
  BY <1>1 DEF Names
<1>3. ASSUME s # << >>
      PROVE  Names(s, u) <=> names_uri(Head(s), u) \/ Names(Tail(s), u)
  <2> DEFINE n == Len(s)
             t == Tail(s)
  <2>1. /\ IsSeq(t) /\ Len(t) = n - 1 /\ n \in Nat /\ n > 0
        /\ Head(s) = s[1] /\ \A i \in 1..(n - 1) : t[i] = s[i + 1]
    BY <1>3, ListConsumed
  <2> HIDE DEF t, n
  <2>2. DOMAIN t = 1..(n - 1)
    BY <2>1, ListFacts
  <2>3. \A i \in 1..n : i = 1 \/ (i - 1 \in 1..(n - 1) /\ (i - 1) + 1 = i)
    BY <2>1
  <2>4. 1 \in 1..n /\ \A i \in 1..(n - 1) : i + 1 \in 1..n
    BY <2>1
  <2>5. \A i \in 1..n : i = 1 \/ (i - 1 \in 1..(n - 1) /\ t[i - 1] = s[i])
    BY <2>1, <2>3
  <2>6. Names(s, u) <=> \E i \in 1..n : names_uri(s[i], u)
    BY <1>1 DEF Names, n
  <2>7. Names(t, u) <=> \E i \in 1..(n - 1) : names_uri(t[i], u)
    BY <2>2 DEF Names
  <2>8. Names(s, u) => names_uri(Head(s), u) \/ Names(t, u)
    BY <2>1, <2>5, <2>6, <2>7, Zenon
  <2>9. names_uri(Head(s), u) \/ Names(t, u) => Names(s, u)
    BY <2>1, <2>4, <2>6, <2>7, Zenon
  <2> QED
    BY <2>8, <2>9 DEF t
<1> QED
  BY <1>2, <1>3

-----------------------------------------------------------------------------
(* The loops of authoritative_for.                                         *)

Points == The(args.cert.crl_distribution_points)

\* The names of the first distribution point, the only ones that are compared.
FirstNames == The(Points[1].value.full_name)

InScope == scope_includes(args.idp, args.is_ca) /\ IsSome(args.cert.crl_distribution_points)

\* authoritative_for in closed form, in terms of what the loops look for.
FirstPointUsable == Points # << >> /\ usable_dp(Points[1])

Shared == IsSome(FirstUri(args.idp.names)) /\ Names(FirstNames, The(FirstUri(args.idp.names)))

ArgsWellFormed ==
    /\ IsSeq(args.idp.names)
    /\ IsSome(args.cert.crl_distribution_points) => PointsWellFormed(Points)

(***************************************************************************)
(* Looking for the first URI of the CRL, in "idp_names"; comparing it with *)
(* the names of the first point, in "dp_names"; and afterwards, when one   *)
(* of the iterators is exhausted and no name can be compared any more.     *)
(***************************************************************************)
Unread == cert_dps = Points /\ idp_general_names = args.idp.names

Looking ==
    /\ FirstPointUsable
    /\ dp_general_names = FirstNames
    /\ FirstUri(idp_general_names) = FirstUri(args.idp.names)

Comparing ==
    /\ FirstPointUsable
    /\ uri = FirstUri(args.idp.names) /\ IsSome(uri)
    /\ Names(dp_general_names, The(uri)) <=> Names(FirstNames, The(uri))

NothingShared == ~(FirstPointUsable /\ Shared)

AuthorityInv ==
    /\ step \in {"idle", "scope", "points", "idp_names", "dp_names", "done"}
    /\ step # "idle" => ArgsWellFormed
    /\ step \in {"points", "idp_names", "dp_names"} =>
           /\ InScope /\ IsSeq(cert_dps) /\ IsSeq(idp_general_names)
           /\ \A i \in DOMAIN cert_dps :
                  usable_dp(cert_dps[i]) => IsSeq(The(cert_dps[i].value.full_name))
    /\ step \in {"idp_names", "dp_names"} => IsSeq(dp_general_names)
    /\ step = "points" => Unread \/ (NothingShared /\ idp_general_names = << >>)
    /\ step = "idp_names" =>
           \/ Looking
           \/ NothingShared /\ (dp_general_names = << >> \/ idp_general_names = << >>)
    /\ step = "dp_names" => Comparing \/ (NothingShared /\ dp_general_names = << >>)
    /\ ComputesClosedForm

\* The closed form that path building uses.
LEMMA ClosedForm ==
    authoritative_for(args.idp, args.cert, args.is_ca) <=>
        /\ scope_includes(args.idp, args.is_ca)
        /\ IsSome(args.cert.crl_distribution_points) => FirstPointUsable /\ Shared
<1> DEFINE list == args.idp.names
           k == first_uri(list)
<1>1. Shared <=> k # 0 /\ Names(FirstNames, list[k].value.value)
  BY DEF Shared, FirstUri, IsSome, None, Some, The
<1> QED
  BY <1>1 DEF authoritative_for, FirstPointUsable, Points, FirstNames, Names

\* Unless authoritative_for is called, what it was called with stays the same.
LEMMA ArgsUnchanged ==
    ASSUME case' = case
    PROVE  /\ args' = args /\ Points' = Points /\ FirstNames' = FirstNames
           /\ InScope' <=> InScope
           /\ ArgsWellFormed' <=> ArgsWellFormed
           /\ FirstPointUsable' <=> FirstPointUsable
           /\ Shared' <=> Shared
           /\ NothingShared' <=> NothingShared
<1>1. args' = args
  BY DEF args
<1>2. Points' = Points
  BY <1>1 DEF Points
<1>3. FirstNames' = FirstNames /\ (FirstPointUsable' <=> FirstPointUsable)
  BY <1>2 DEF FirstNames, FirstPointUsable
<1>4. Shared' <=> Shared
  BY <1>1, <1>3 DEF Shared
<1> QED
  BY <1>1, <1>2, <1>3, <1>4 DEF InScope, ArgsWellFormed, NothingShared

\* What is known while the loops run.
LEMMA LoopFacts ==
    ASSUME AuthorityInv, step \in {"points", "idp_names", "dp_names"}
    PROVE  /\ ArgsWellFormed /\ InScope /\ IsSeq(cert_dps) /\ IsSeq(idp_general_names)
           /\ \A i \in DOMAIN cert_dps :
                  usable_dp(cert_dps[i]) => IsSeq(The(cert_dps[i].value.full_name))
           /\ authoritative_for(args.idp, args.cert, args.is_ca) <=> ~NothingShared
<1>1. InScope
  BY DEF AuthorityInv
<1> QED
  BY <1>1, ClosedForm DEF AuthorityInv, InScope, NothingShared

\* The end of the loops, with the right answer.
LEMMA DecidedRightly ==
    ASSUME AuthorityInv, step # "idle", case' = case, NEW v, Decide(v),
           v <=> authoritative_for(args.idp, args.cert, args.is_ca)
    PROVE  AuthorityInv'
<1>1. step' = "done" /\ authoritative' = v
  BY DEF Decide
<1>2. ArgsWellFormed' /\ args' = args
  BY ArgsUnchanged DEF AuthorityInv
<1>3. ComputesClosedForm'
  BY <1>1, <1>2 DEF ComputesClosedForm
<1> QED
  BY <1>1, <1>2, <1>3 DEF AuthorityInv

LEMMA CheckScopeKeeps == AuthorityInv /\ CheckScope => AuthorityInv'
<1> SUFFICES ASSUME AuthorityInv, CheckScope PROVE AuthorityInv'
  OBVIOUS
<1>1. step = "scope" /\ case' = case
  BY DEF CheckScope
<1>2. ArgsWellFormed
  BY <1>1 DEF AuthorityInv
<1>3. CASE InScope
  <2>1. /\ step' = "points" /\ cert_dps' = Points /\ idp_general_names' = args.idp.names
    BY <1>3 DEF CheckScope, InScope, Points
  <2>2. PointsWellFormed(Points) /\ IsSeq(args.idp.names)
    BY <1>2, <1>3 DEF ArgsWellFormed, InScope
  <2>3. /\ args' = args /\ Points' = Points /\ InScope' /\ ArgsWellFormed'
    BY <1>1, <1>2, <1>3, ArgsUnchanged
  <2>4. Unread'
    BY <2>1, <2>3 DEF Unread
  <2>5. ComputesClosedForm'
    BY <2>1 DEF ComputesClosedForm
  <2> QED
    BY <2>1, <2>2, <2>3, <2>4, <2>5 DEF AuthorityInv, PointsWellFormed
<1>4. CASE ~InScope
  <2> DEFINE v == scope_includes(args.idp, args.is_ca)
  <2>1. Decide(v)
    BY <1>4 DEF CheckScope, InScope
  <2>2. v <=> authoritative_for(args.idp, args.cert, args.is_ca)
    BY <1>4, ClosedForm DEF InScope
  <2> HIDE DEF v
  <2> QED
    BY <1>1, <2>1, <2>2, DecidedRightly
<1> QED
  BY <1>3, <1>4

LEMMA NextPointKeeps == AuthorityInv /\ NextPoint => AuthorityInv'
<1> SUFFICES ASSUME AuthorityInv, NextPoint PROVE AuthorityInv'
  OBVIOUS
<1>1. /\ step = "points" /\ case' = case /\ cert_dps # << >>
      /\ cert_dps' = Tail(cert_dps) /\ idp_general_names' = idp_general_names
  BY DEF NextPoint, advance
<1>2. /\ ArgsWellFormed /\ InScope /\ IsSeq(cert_dps) /\ IsSeq(idp_general_names)
      /\ \A i \in DOMAIN cert_dps :
             usable_dp(cert_dps[i]) => IsSeq(The(cert_dps[i].value.full_name))
      /\ authoritative_for(args.idp, args.cert, args.is_ca) <=> ~NothingShared
  BY <1>1, LoopFacts
<1>3. /\ IsSeq(Tail(cert_dps)) /\ Head(cert_dps) = cert_dps[1]
      /\ Len(Tail(cert_dps)) = Len(cert_dps) - 1 /\ Len(cert_dps) \in Nat /\ Len(cert_dps) > 0
      /\ \A i \in 1..(Len(cert_dps) - 1) : Tail(cert_dps)[i] = cert_dps[i + 1]
  BY <1>1, <1>2, ListConsumed
<1>4. Unread \/ (NothingShared /\ idp_general_names = << >>)
  BY <1>1 DEF AuthorityInv
<1>5. CASE usable_dp(Head(cert_dps))
  <2>1. step' = "idp_names" /\ dp_general_names' = The(Head(cert_dps).value.full_name)
    BY <1>5 DEF NextPoint
  <2>2. DOMAIN cert_dps = 1..Len(cert_dps) /\ DOMAIN Tail(cert_dps) = 1..(Len(cert_dps) - 1)
    BY <1>2, <1>3, ListFacts
  <2>3. IsSeq(dp_general_names')
    <3>1. 1 \in DOMAIN cert_dps
      BY <1>3, <2>2
    <3> QED
      BY <1>2, <1>3, <1>5, <2>1, <3>1
  <2>4. \A i \in DOMAIN Tail(cert_dps) :
            usable_dp(Tail(cert_dps)[i]) => IsSeq(The(Tail(cert_dps)[i].value.full_name))
    <3>1. \A i \in 1..(Len(cert_dps) - 1) : i + 1 \in 1..Len(cert_dps)
      BY <1>3
    <3> QED
      BY <1>2, <1>3, <2>2, <3>1, Zenon
  <2>5. /\ args' = args /\ Points' = Points /\ InScope' /\ ArgsWellFormed'
        /\ FirstNames' = FirstNames
        /\ FirstPointUsable' <=> FirstPointUsable
        /\ NothingShared' <=> NothingShared
    BY <1>1, <1>2, ArgsUnchanged
  <2>6. \/ Looking'
        \/ (NothingShared /\ idp_general_names = << >>)'
    <3>1. CASE Unread
      <4>1. FirstPointUsable /\ dp_general_names' = FirstNames
        BY <1>1, <1>3, <1>5, <2>1, <3>1 DEF Unread, FirstPointUsable, FirstNames
      <4>2. FirstUri(idp_general_names') = FirstUri(args.idp.names)
        BY <1>1, <3>1 DEF Unread
      <4> QED
        BY <2>5, <4>1, <4>2 DEF Looking
    <3>2. CASE NothingShared /\ idp_general_names = << >>
      BY <1>1, <2>5, <3>2
    <3> QED
      BY <1>4, <3>1, <3>2
  <2>7. ComputesClosedForm'
    BY <2>1 DEF ComputesClosedForm
  <2> QED
    BY <1>1, <1>2, <1>3, <2>1, <2>3, <2>4, <2>5, <2>6, <2>7 DEF AuthorityInv
<1>6. CASE ~usable_dp(Head(cert_dps))
  <2>1. Decide(FALSE)
    BY <1>6 DEF NextPoint
  <2>2. NothingShared
    BY <1>3, <1>4, <1>6 DEF Unread, NothingShared, FirstPointUsable
  <2> QED
    BY <1>1, <1>2, <2>1, <2>2, DecidedRightly
<1> QED
  BY <1>5, <1>6

LEMMA PointsExhaustedKeeps == AuthorityInv /\ PointsExhausted => AuthorityInv'
<1> SUFFICES ASSUME AuthorityInv, PointsExhausted PROVE AuthorityInv'
  OBVIOUS
<1>1. step = "points" /\ case' = case /\ cert_dps = << >> /\ Decide(FALSE)
  BY DEF PointsExhausted
<1>2. NothingShared
  BY <1>1 DEF AuthorityInv, Unread, NothingShared, FirstPointUsable
<1>3. authoritative_for(args.idp, args.cert, args.is_ca) <=> ~NothingShared
  BY <1>1, LoopFacts
<1> QED
  BY <1>1, <1>2, <1>3, DecidedRightly

LEMMA NextIdpNameKeeps == AuthorityInv /\ NextIdpName => AuthorityInv'
<1> SUFFICES ASSUME AuthorityInv, NextIdpName PROVE AuthorityInv'
  OBVIOUS
<1> DEFINE s == idp_general_names
<1>1. /\ step = "idp_names" /\ case' = case /\ s # << >> /\ s' = Tail(s)
      /\ cert_dps' = cert_dps /\ dp_general_names' = dp_general_names
  BY DEF NextIdpName, advance
<1>2. /\ ArgsWellFormed /\ InScope /\ IsSeq(cert_dps) /\ IsSeq(s)
      /\ \A i \in DOMAIN cert_dps :
             usable_dp(cert_dps[i]) => IsSeq(The(cert_dps[i].value.full_name))
  BY <1>1, LoopFacts
<1>3. IsSeq(dp_general_names) /\ IsSeq(Tail(s))
  BY <1>1, <1>2, ListConsumed DEF AuthorityInv
<1>4. \/ Looking
      \/ NothingShared /\ dp_general_names = << >>
  BY <1>1 DEF AuthorityInv
<1>5. /\ args' = args /\ Points' = Points /\ InScope' /\ ArgsWellFormed'
      /\ FirstNames' = FirstNames
      /\ FirstPointUsable' <=> FirstPointUsable
      /\ NothingShared' <=> NothingShared
  BY <1>1, <1>2, ArgsUnchanged
<1>6. CASE IsUri(Head(s))
  <2>1. step' = "dp_names" /\ uri' = Some(Head(s).value.value)
    BY <1>6 DEF NextIdpName
  <2>2. uri' = FirstUri(s) /\ IsSome(uri')
    <3>1. FirstUri(s) = Some(Head(s).value.value)
      BY <1>1, <1>2, <1>6, FirstUriConsumed
    <3> QED
      BY <2>1, <3>1 DEF IsSome, Some
  <2>3. Comparing' \/ (NothingShared /\ dp_general_names = << >>)'
    <3>1. CASE Looking
      <4>1. /\ FirstPointUsable /\ dp_general_names = FirstNames
            /\ uri' = FirstUri(args.idp.names)
        BY <2>2, <3>1 DEF Looking
      <4> QED
        BY <1>1, <1>5, <2>2, <4>1 DEF Comparing
    <3>2. CASE NothingShared /\ dp_general_names = << >>
      BY <1>1, <1>5, <3>2
    <3> QED
      BY <1>4, <3>1, <3>2
  <2>4. ComputesClosedForm'
    BY <2>1 DEF ComputesClosedForm
  <2> QED
    BY <1>1, <1>2, <1>3, <1>5, <2>1, <2>3, <2>4 DEF AuthorityInv
<1>7. CASE ~IsUri(Head(s))
  <2>1. step' = "idp_names"
    BY <1>1, <1>7 DEF NextIdpName
  <2>2. Looking' \/ (NothingShared /\ dp_general_names = << >>)'
    <3>1. CASE Looking
      <4>1. FirstUri(Tail(s)) = FirstUri(args.idp.names)
        BY <1>1, <1>2, <1>7, <3>1, FirstUriConsumed DEF Looking
      <4> QED
        BY <1>1, <1>5, <3>1, <4>1 DEF Looking
    <3>2. CASE NothingShared /\ dp_general_names = << >>
      BY <1>1, <1>5, <3>2
    <3> QED
      BY <1>4, <3>1, <3>2
  <2>3. ComputesClosedForm'
    BY <2>1 DEF ComputesClosedForm
  <2> QED
    BY <1>1, <1>2, <1>3, <1>5, <2>1, <2>2, <2>3 DEF AuthorityInv
<1> QED
  BY <1>6, <1>7

LEMMA IdpNamesExhaustedKeeps == AuthorityInv /\ IdpNamesExhausted => AuthorityInv'
<1> SUFFICES ASSUME AuthorityInv, IdpNamesExhausted PROVE AuthorityInv'
  OBVIOUS
<1>1. /\ step = "idp_names" /\ step' = "points" /\ case' = case
      /\ idp_general_names = << >> /\ idp_general_names' = idp_general_names
      /\ cert_dps' = cert_dps
  BY DEF IdpNamesExhausted
<1>2. /\ ArgsWellFormed /\ InScope /\ IsSeq(cert_dps) /\ IsSeq(idp_general_names)
      /\ \A i \in DOMAIN cert_dps :
             usable_dp(cert_dps[i]) => IsSeq(The(cert_dps[i].value.full_name))
  BY <1>1, LoopFacts
<1>3. NothingShared
  <2>1. CASE Looking
    <3>1. FirstUri(args.idp.names) = None
      BY <1>1, <1>2, <2>1, FirstUriConsumed DEF Looking
    <3> QED
      BY <3>1 DEF NothingShared, Shared, IsSome, None
  <2> QED
    BY <1>1, <2>1 DEF AuthorityInv
<1>4. InScope' /\ ArgsWellFormed' /\ NothingShared'
  BY <1>1, <1>2, <1>3, ArgsUnchanged
<1>5. ComputesClosedForm'
  BY <1>1 DEF ComputesClosedForm
<1> QED
  BY <1>1, <1>2, <1>4, <1>5 DEF AuthorityInv

LEMMA NextDpNameKeeps == AuthorityInv /\ NextDpName => AuthorityInv'
<1> SUFFICES ASSUME AuthorityInv, NextDpName PROVE AuthorityInv'
  OBVIOUS
<1> DEFINE s == dp_general_names
           u == The(uri)
<1>1. /\ step = "dp_names" /\ case' = case /\ s # << >> /\ s' = Tail(s) /\ uri' = uri
      /\ cert_dps' = cert_dps /\ idp_general_names' = idp_general_names
  BY DEF NextDpName, advance
<1>2. /\ ArgsWellFormed /\ InScope /\ IsSeq(cert_dps) /\ IsSeq(idp_general_names)
      /\ \A i \in DOMAIN cert_dps :
             usable_dp(cert_dps[i]) => IsSeq(The(cert_dps[i].value.full_name))
      /\ authoritative_for(args.idp, args.cert, args.is_ca) <=> ~NothingShared
  BY <1>1, LoopFacts
<1>3. IsSeq(s)
  BY <1>1 DEF AuthorityInv
<1>4. Comparing
  BY <1>1 DEF AuthorityInv
<1>5. Names(s, u) <=> names_uri(Head(s), u) \/ Names(Tail(s), u)
  BY <1>1, <1>3, NamesConsumed
<1>6. CASE names_uri(Head(s), u)
  <2>1. Decide(TRUE)
    BY <1>6 DEF NextDpName
  <2>2. ~NothingShared
    BY <1>4, <1>5, <1>6 DEF Comparing, NothingShared, Shared
  <2> QED
    BY <1>1, <1>2, <2>1, <2>2, DecidedRightly
<1>7. CASE ~names_uri(Head(s), u)
  <2>1. step' = "dp_names"
    BY <1>1, <1>7 DEF NextDpName
  <2>2. Comparing'
    <3>1. /\ args' = args /\ FirstNames' = FirstNames
          /\ FirstPointUsable' <=> FirstPointUsable
      BY <1>1, ArgsUnchanged
    <3>2. Names(Tail(s), u) <=> Names(FirstNames, u)
      BY <1>4, <1>5, <1>7 DEF Comparing
    <3> QED
      BY <1>1, <1>4, <3>1, <3>2 DEF Comparing
  <2>3. IsSeq(s')
    BY <1>1, <1>3, ListConsumed
  <2>4. InScope' /\ ArgsWellFormed'
    BY <1>1, <1>2, ArgsUnchanged
  <2>5. ComputesClosedForm'
    BY <2>1 DEF ComputesClosedForm
  <2> QED
    BY <1>1, <1>2, <2>1, <2>2, <2>3, <2>4, <2>5 DEF AuthorityInv
<1> QED
  BY <1>6, <1>7

LEMMA DpNamesExhaustedKeeps == AuthorityInv /\ DpNamesExhausted => AuthorityInv'
<1> SUFFICES ASSUME AuthorityInv, DpNamesExhausted PROVE AuthorityInv'
  OBVIOUS
<1>1. /\ step = "dp_names" /\ step' = "idp_names" /\ case' = case
      /\ dp_general_names = << >> /\ dp_general_names' = dp_general_names
      /\ cert_dps' = cert_dps /\ idp_general_names' = idp_general_names
  BY DEF DpNamesExhausted
<1>2. /\ ArgsWellFormed /\ InScope /\ IsSeq(cert_dps) /\ IsSeq(idp_general_names)
      /\ \A i \in DOMAIN cert_dps :
             usable_dp(cert_dps[i]) => IsSeq(The(cert_dps[i].value.full_name))
  BY <1>1, LoopFacts
<1>3. IsSeq(dp_general_names)
  BY <1>1 DEF AuthorityInv
<1>4. NothingShared
  <2>1. CASE Comparing
    <3>1. ~Names(dp_general_names, The(uri))
      BY <1>1, <1>3, NamesConsumed
    <3> QED
      BY <2>1, <3>1 DEF Comparing, NothingShared, Shared
  <2> QED
    BY <1>1, <2>1 DEF AuthorityInv
<1>5. InScope' /\ ArgsWellFormed' /\ NothingShared'
  BY <1>1, <1>2, <1>4, ArgsUnchanged
<1>6. ComputesClosedForm'
  BY <1>1 DEF ComputesClosedForm
<1> QED
  BY <1>1, <1>2, <1>3, <1>5, <1>6 DEF AuthorityInv

LEMMA AuthorityNextKeeps == AuthorityInv /\ AuthorityNext => AuthorityInv'
  BY CheckScopeKeeps, NextPointKeeps, PointsExhaustedKeeps, NextIdpNameKeeps,
     IdpNamesExhaustedKeeps, NextDpNameKeeps, DpNamesExhaustedKeeps DEF AuthorityNext

LEMMA AuthorityUnchanged == AuthorityInv /\ UNCHANGED authority_vars => AuthorityInv'
<1> SUFFICES ASSUME AuthorityInv, UNCHANGED authority_vars PROVE AuthorityInv'
  OBVIOUS
<1>1. /\ case' = case /\ cert_dps' = cert_dps /\ step' = step /\ uri' = uri
      /\ idp_general_names' = idp_general_names
      /\ dp_general_names' = dp_general_names /\ authoritative' = authoritative
  BY DEF authority_vars
<1>2. /\ args' = args /\ Points' = Points /\ FirstNames' = FirstNames
      /\ InScope' <=> InScope
      /\ ArgsWellFormed' <=> ArgsWellFormed
      /\ FirstPointUsable' <=> FirstPointUsable
      /\ NothingShared' <=> NothingShared
  BY <1>1, ArgsUnchanged
<1>3. /\ Unread' <=> Unread
      /\ Looking' <=> Looking
      /\ Comparing' <=> Comparing
      /\ ComputesClosedForm' <=> ComputesClosedForm
  BY <1>1, <1>2 DEF Unread, Looking, Comparing, ComputesClosedForm
<1> QED
  BY <1>1, <1>2, <1>3 DEF AuthorityInv

-----------------------------------------------------------------------------
(* The caller.                                                             *)

\* The CRL that the builder was given.
LoadedView ==
    IF IsSome(owned) THEN owned_view(loaded.value, The(owned).value)
                     ELSE borrowed_view(loaded.value)

\* The caller's last word among the values.
Says(words, values, value) ==
    \E i \in DOMAIN words :
        words[i] = value /\ \A j \in DOMAIN words : words[j] \in values => j <= i

Depths   == {"EndEntity", "Chain"}
Statuses == {"Allow", "Deny"}

LoadInv ==
    /\ crl_der \in CrlInputs
    /\ pc \in {"load", "loaded", "configure", "built", "check", "done"}
    /\ pc # "load" => loaded = crl_from_der(crl_der)
    /\ pc \in {"loaded", "configure", "built", "check"} \/ IsSome(builder) =>
           pc # "load" /\ loaded.result = "Ok"
    /\ IsSome(owned) => pc # "load" /\ The(owned) = to_owned(loaded.value)
    /\ IsSome(owned) /\ (pc = "loaded" \/ IsSome(builder)) => The(owned).result = "Ok"

BuilderInv ==
    /\ calls \in Seq(Depths \cup Statuses)
    /\ pc \in {"configure", "built", "check"} => IsSome(builder)
    /\ pc = "loaded" => builder = None
    /\ IsSome(builder) =>
           /\ \E d \in Depths, r \in Statuses :
                  The(builder) = [crls |-> << LoadedView >>, depth |-> d,
                                  status_requirement |-> r]
           /\ The(builder).depth = "EndEntity" => Says(calls, Depths, "EndEntity")
           /\ The(builder).status_requirement = "Allow" => Says(calls, Statuses, "Allow")

QueryInv ==
    /\ pc \in {"load", "loaded", "configure", "built"} => query = None
    /\ pc = "check" => IsSome(query)
    /\ IsSome(query) => IsSome(builder) /\ The(query) \in Queries
    /\ Checked => verdict = check(The(query), The(builder))

ClientInv == LoadInv /\ BuilderInv /\ QueryInv /\ AuthorityInv

\* A new word is the last one among its values, and says nothing about others.
LEMMA LastWord ==
    ASSUME NEW W, NEW words \in Seq(W), NEW word \in W, NEW values
    PROVE  /\ word \in values => Says(Append(words, word), values, word)
           /\ word \notin values =>
                  \A value : Says(words, values, value) => Says(Append(words, word), values, value)
<1> DEFINE n == Len(words)
           t == Append(words, word)
<1>1. /\ n \in Nat /\ DOMAIN words = 1..n /\ DOMAIN t = 1..(n + 1)
      /\ t[n + 1] = word /\ \A i \in 1..n : t[i] = words[i]
  OBVIOUS
<1> HIDE DEF n, t
<1>2. n + 1 \in 1..(n + 1) /\ \A i \in 1..(n + 1) : i <= n + 1
  BY <1>1
<1>3. ASSUME word \in values PROVE Says(t, values, word)
  BY <1>1, <1>2 DEF Says
<1>4. ASSUME word \notin values, NEW value, Says(words, values, value)
      PROVE  Says(t, values, value)
  <2>1. PICK i \in 1..n :
            words[i] = value /\ \A j \in 1..n : words[j] \in values => j <= i
    BY <1>1, <1>4 DEF Says
  <2>2. i \in 1..(n + 1) /\ t[i] = value
    BY <1>1, <2>1
  <2>3. \A j \in 1..(n + 1) : j \in 1..n \/ j = n + 1
    BY <1>1
  <2>4. \A j \in 1..(n + 1) : t[j] \in values => j <= i
    BY <1>1, <1>4, <2>1, <2>3
  <2> QED
    BY <1>1, <2>2, <2>4 DEF Says
<1> QED
  BY <1>3, <1>4 DEF t

LEMMA ClientInitially == Init => ClientInv
<1> SUFFICES ASSUME Init PROVE ClientInv
  OBVIOUS
<1>1. LoadInv
  BY DEF Init, LoadInv, None, IsSome
<1>2. BuilderInv
  BY DEF Init, BuilderInv, None, IsSome
<1>3. QueryInv
  BY DEF Init, QueryInv, None, IsSome, Checked
<1>4. AuthorityInv
  BY DEF Init, Idle, AuthorityInv, ComputesClosedForm
<1> QED
  BY <1>1, <1>2, <1>3, <1>4 DEF ClientInv

LEMMA LoadKeeps == ClientInv /\ Load => ClientInv'
<1> SUFFICES ASSUME ClientInv, Load PROVE ClientInv'
  OBVIOUS
<1>1. /\ pc = "load" /\ loaded' = crl_from_der(crl_der) /\ crl_der' = crl_der
      /\ owned' = owned /\ builder' = builder /\ calls' = calls /\ query' = query
      /\ UNCHANGED authority_vars
      /\ \/ pc' = "loaded" /\ loaded'.result = "Ok"
         \/ pc' = "done" /\ loaded'.result # "Ok"
  BY DEF Load
<1>2. ~IsSome(builder) /\ ~IsSome(owned) /\ query = None
  BY <1>1 DEF ClientInv, LoadInv, QueryInv
<1>3. LoadInv'
  BY <1>1, <1>2 DEF ClientInv, LoadInv
<1>4. BuilderInv'
  BY <1>1, <1>2 DEF ClientInv, BuilderInv, IsSome, None
<1>5. QueryInv'
  BY <1>1, <1>2 DEF QueryInv, Checked, IsSome, None
<1>6. AuthorityInv'
  BY <1>1, AuthorityUnchanged DEF ClientInv
<1> QED
  BY <1>3, <1>4, <1>5, <1>6 DEF ClientInv

LEMMA ToOwnedKeeps == ClientInv /\ ToOwned => ClientInv'
<1> SUFFICES ASSUME ClientInv, ToOwned PROVE ClientInv'
  OBVIOUS
<1> DEFINE r == to_owned(loaded.value)
<1>1. /\ pc = "loaded" /\ owned = None /\ owned' = Some(r) /\ loaded' = loaded
      /\ crl_der' = crl_der /\ builder' = builder /\ calls' = calls /\ query' = query
      /\ UNCHANGED authority_vars
      /\ \/ pc' = "loaded" /\ r.result = "Ok"
         \/ pc' = "done" /\ r.result # "Ok"
  BY DEF ToOwned
<1> HIDE DEF r
<1>2. builder = None /\ query = None
  BY <1>1 DEF ClientInv, BuilderInv, QueryInv
<1>3. LoadInv'
  <2>1. The(owned') = r /\ r = to_owned(loaded'.value)
    BY <1>1 DEF The, Some, r
  <2>2. ~IsSome(builder')
    BY <1>1, <1>2 DEF IsSome, None
  <2> QED
    BY <1>1, <2>1, <2>2 DEF ClientInv, LoadInv
<1>4. BuilderInv'
  BY <1>1, <1>2 DEF ClientInv, BuilderInv, IsSome, None
<1>5. QueryInv'
  BY <1>1, <1>2 DEF QueryInv, Checked, IsSome, None
<1>6. AuthorityInv'
  BY <1>1, AuthorityUnchanged DEF ClientInv
<1> QED
  BY <1>3, <1>4, <1>5, <1>6 DEF ClientInv

LEMMA NewBuilderKeeps == ClientInv /\ (NewBuilder \/ NewBuilderWithoutCrls) => ClientInv'
<1> SUFFICES ASSUME ClientInv, NewBuilder \/ NewBuilderWithoutCrls PROVE ClientInv'
  OBVIOUS
<1>1. /\ pc = "loaded" /\ crl_der' = crl_der /\ loaded' = loaded /\ owned' = owned
      /\ calls' = calls /\ query' = query /\ UNCHANGED authority_vars
      /\ \/ pc' = "configure" /\ builder' = Some(defaults(<< LoadedView >>))
         \/ pc' = "done" /\ builder' = builder
  BY DEF NewBuilder, NewBuilderWithoutCrls, LoadedView
<1>2. builder = None /\ query = None
  BY <1>1 DEF ClientInv, BuilderInv, QueryInv
<1>3. LoadInv'
  BY <1>1 DEF ClientInv, LoadInv
<1>4. LoadedView' = LoadedView
  BY <1>1 DEF LoadedView
<1>5. BuilderInv'
  <2>1. CASE pc' = "done" /\ builder' = builder
    BY <1>1, <1>2, <2>1 DEF ClientInv, BuilderInv, IsSome, None
  <2>2. CASE pc' = "configure" /\ builder' = Some(defaults(<< LoadedView >>))
    <3>1. /\ IsSome(builder')
          /\ The(builder') = [crls |-> << LoadedView >>, depth |-> "Chain",
                              status_requirement |-> "Deny"]
      BY <2>2 DEF defaults, Some, IsSome, The
    <3>2. The(builder').depth = "Chain" /\ The(builder').status_requirement = "Deny"
      BY <3>1
    <3>3. "Chain" \in Depths /\ "Deny" \in Statuses
      BY DEF Depths, Statuses
    <3> QED
      BY <1>1, <1>4, <2>2, <3>1, <3>2, <3>3 DEF ClientInv, BuilderInv
  <2> QED
    BY <1>1, <2>1, <2>2
<1>6. QueryInv'
  BY <1>1, <1>2 DEF QueryInv, Checked, IsSome, None
<1>7. AuthorityInv'
  BY <1>1, AuthorityUnchanged DEF ClientInv
<1> QED
  BY <1>3, <1>5, <1>6, <1>7 DEF ClientInv

LEMMA OptionFacts == \A x : IsSome(Some(x)) /\ The(Some(x)) = x
  BY DEF IsSome, Some, The

\* A setter changes one field of the options.
LEMMA SetField ==
    ASSUME NEW c, NEW d, NEW r, NEW v, NEW o,
           o = [crls |-> c, depth |-> d, status_requirement |-> r]
    PROVE  /\ [o EXCEPT !.depth = v] = [crls |-> c, depth |-> v, status_requirement |-> r]
           /\ [o EXCEPT !.status_requirement = v] =
                  [crls |-> c, depth |-> d, status_requirement |-> v]
  OBVIOUS

\* What the calls of the setters have in common.
LEMMA SetKeeps ==
    ASSUME ClientInv, NEW value \in Depths \cup Statuses,
           \/ Set([The(builder) EXCEPT !.depth = value], value) /\ value \in Depths
           \/ /\ Set([The(builder) EXCEPT !.status_requirement = value], value)
              /\ value \in Statuses
    PROVE  ClientInv'
<1>1. /\ pc = "configure" /\ pc' = pc /\ crl_der' = crl_der /\ loaded' = loaded
      /\ owned' = owned /\ query' = query /\ UNCHANGED authority_vars
      /\ calls' = Append(calls, value)
      /\ \/ builder' = Some([The(builder) EXCEPT !.depth = value]) /\ value \in Depths
         \/ /\ builder' = Some([The(builder) EXCEPT !.status_requirement = value])
            /\ value \in Statuses
  BY DEF Set
<1>2. IsSome(builder) /\ query = None /\ calls \in Seq(Depths \cup Statuses)
  BY <1>1 DEF ClientInv, BuilderInv, QueryInv
<1>3. PICK d \in Depths, r \in Statuses :
          The(builder) = [crls |-> << LoadedView >>, depth |-> d, status_requirement |-> r]
  BY <1>2 DEF ClientInv, BuilderInv
<1>4. /\ d = "EndEntity" => Says(calls, Depths, "EndEntity")
      /\ r = "Allow" => Says(calls, Statuses, "Allow")
  BY <1>2, <1>3 DEF ClientInv, BuilderInv
<1>5. LoadedView' = LoadedView /\ IsSome(builder')
  BY <1>1, OptionFacts DEF LoadedView
<1>6. /\ value \in Depths <=> value \notin Statuses
      /\ Append(calls, value) \in Seq(Depths \cup Statuses)
  BY <1>2 DEF Depths, Statuses
<1>7. BuilderInv'
  <2>1. CASE builder' = Some([The(builder) EXCEPT !.depth = value]) /\ value \in Depths
    <3>1. The(builder') = [crls |-> << LoadedView >>, depth |-> value, status_requirement |-> r]
      <4>1. The(builder') = [The(builder) EXCEPT !.depth = value]
        BY <2>1, OptionFacts
      <4> QED
        BY <1>3, <4>1, SetField
    <3>2. value = "EndEntity" => Says(calls', Depths, "EndEntity")
      BY <1>1, <1>2, <2>1, LastWord
    <3>3. r = "Allow" => Says(calls', Statuses, "Allow")
      BY <1>1, <1>2, <1>4, <1>6, <2>1, LastWord
    <3>4. The(builder').depth = value /\ The(builder').status_requirement = r
      BY <3>1
    <3> QED
      BY <1>1, <1>5, <1>6, <2>1, <3>1, <3>2, <3>3, <3>4 DEF BuilderInv
  <2>2. CASE /\ builder' = Some([The(builder) EXCEPT !.status_requirement = value])
             /\ value \in Statuses
    <3>1. The(builder') = [crls |-> << LoadedView >>, depth |-> d, status_requirement |-> value]
      <4>1. The(builder') = [The(builder) EXCEPT !.status_requirement = value]
        BY <2>2, OptionFacts
      <4> QED
        BY <1>3, <4>1, SetField
    <3>2. d = "EndEntity" => Says(calls', Depths, "EndEntity")
      BY <1>1, <1>2, <1>4, <1>6, <2>2, LastWord
    <3>3. value = "Allow" => Says(calls', Statuses, "Allow")
      BY <1>1, <1>2, <2>2, LastWord
    <3>4. The(builder').depth = d /\ The(builder').status_requirement = value
      BY <3>1
    <3> QED
      BY <1>1, <1>5, <1>6, <2>2, <3>1, <3>2, <3>3, <3>4 DEF BuilderInv
  <2> QED
    BY <1>1, <2>1, <2>2
<1>8. LoadInv'
  BY <1>1, <1>2 DEF ClientInv, LoadInv
<1>9. QueryInv'
  BY <1>1, <1>2 DEF QueryInv, Checked, IsSome, None
<1>10. AuthorityInv'
  BY <1>1, AuthorityUnchanged DEF ClientInv
<1> QED
  BY <1>7, <1>8, <1>9, <1>10 DEF ClientInv

LEMMA BuildKeeps == ClientInv /\ Build => ClientInv'
<1> SUFFICES ASSUME ClientInv, Build PROVE ClientInv'
  OBVIOUS
<1>1. /\ pc = "configure" /\ pc' = "built" /\ crl_der' = crl_der /\ loaded' = loaded
      /\ owned' = owned /\ builder' = builder /\ calls' = calls /\ query' = query
      /\ UNCHANGED authority_vars
  BY DEF Build
<1>2. LoadInv'
  BY <1>1 DEF ClientInv, LoadInv
<1>3. BuilderInv'
  BY <1>1 DEF ClientInv, BuilderInv, LoadedView
<1>4. QueryInv'
  BY <1>1 DEF ClientInv, QueryInv, Checked, IsSome, None
<1>5. AuthorityInv'
  BY <1>1, AuthorityUnchanged DEF ClientInv
<1> QED
  BY <1>2, <1>3, <1>4, <1>5 DEF ClientInv

LEMMA CallKeeps ==
    ASSUME NEW idp, NEW cert, NEW ca, Call(idp, cert, ca), IsSeq(idp.names),
           IsSome(cert.crl_distribution_points) =>
               PointsWellFormed(The(cert.crl_distribution_points))
    PROVE  AuthorityInv'
<1>1. step' = "scope" /\ case' = Some([idp |-> idp, cert |-> cert, is_ca |-> ca])
  BY DEF Call
<1>2. args' = [idp |-> idp, cert |-> cert, is_ca |-> ca]
  BY <1>1, OptionFacts DEF args
<1>3. args'.idp = idp /\ args'.cert = cert
  BY <1>2
<1>4. ArgsWellFormed'
  BY <1>3 DEF ArgsWellFormed, Points
<1> QED
  BY <1>1, <1>4 DEF AuthorityInv, ComputesClosedForm

\* The CRL that the builder was given has the issuing distribution point that was
\* loaded, in either form.
LEMMA ViewFacts ==
    /\ LoadedView.issuer = loaded.value.issuer
    /\ LoadedView.issuing_distribution_point =
           IF ~IsSome(loaded.value.issuing_distribution_point) THEN None
           ELSE Some(loaded_idp(loaded.value))
    /\ LoadedView.signed_data = borrowed_view(loaded.value).signed_data
  BY DEF LoadedView, owned_view, borrowed_view

LEMMA AskKeeps == ClientInv /\ Ask => ClientInv'
<1> SUFFICES ASSUME ClientInv, Ask PROVE ClientInv'
  OBVIOUS
<1>1. /\ pc = "built" /\ pc' = "check" /\ crl_der' = crl_der /\ loaded' = loaded
      /\ owned' = owned /\ builder' = builder /\ calls' = calls
  BY DEF Ask
<1>2. /\ IsSome(builder) /\ loaded = crl_from_der(crl_der) /\ loaded.result = "Ok"
      /\ crl_der \in CrlInputs
  BY <1>1 DEF ClientInv, BuilderInv, LoadInv
<1>3. The(builder).crls[1] = LoadedView
  <2>1. The(builder).crls = << LoadedView >>
    BY <1>2 DEF ClientInv, BuilderInv
  <2> QED
    BY <2>1
<1>4. PICK q \in Queries :
          /\ query' = Some(q)
          /\ \/ /\ IsSome(LoadedView.issuing_distribution_point)
                /\ Call(The(LoadedView.issuing_distribution_point), cert_view(q), q.is_ca)
             \/ UNCHANGED authority_vars
  BY <1>3 DEF Ask
<1>5. LoadInv'
  BY <1>1 DEF ClientInv, LoadInv
<1>6. BuilderInv'
  <2>1. LoadedView' = LoadedView
    BY <1>1 DEF LoadedView
  <2> QED
    BY <1>1, <2>1 DEF ClientInv, BuilderInv
<1>7. QueryInv'
  <2>1. IsSome(query') /\ The(query') \in Queries
    BY <1>4, OptionFacts
  <2> QED
    BY <1>1, <1>2, <2>1 DEF QueryInv, Checked
<1>8. AuthorityInv'
  <2>1. CASE UNCHANGED authority_vars
    BY <2>1, AuthorityUnchanged DEF ClientInv
  <2>2. CASE /\ IsSome(LoadedView.issuing_distribution_point)
             /\ Call(The(LoadedView.issuing_distribution_point), cert_view(q), q.is_ca)
    <3> DEFINE idp == The(LoadedView.issuing_distribution_point)
               cert == cert_view(q)
    <3>1. /\ IsSome(loaded.value.issuing_distribution_point)
          /\ idp = loaded_idp(loaded.value)
      <4>1. ~IsSome(None)
        BY DEF IsSome, None
      <4> QED
        BY <2>2, <4>1, ViewFacts, OptionFacts
    <3>2. IsSeq(idp.names)
      BY <1>2, <3>1, CrlRead, CrlInputsAssumption
    <3>3. IsSome(cert.crl_distribution_points) =>
              PointsWellFormed(The(cert.crl_distribution_points))
      <4>1. IsSome(cert.crl_distribution_points) => IsSome(q.points)
        BY DEF cert_view, IsSome, None
      <4> QED
        BY <4>1, QueriesAssumption
    <3> HIDE DEF idp, cert
    <3> QED
      BY <2>2, <3>2, <3>3, CallKeeps DEF idp, cert
  <2> QED
    BY <1>4, <2>1, <2>2
<1> QED
  BY <1>5, <1>6, <1>7, <1>8 DEF ClientInv

LEMMA CheckKeeps == ClientInv /\ Check => ClientInv'
<1> SUFFICES ASSUME ClientInv, Check PROVE ClientInv'
  OBVIOUS
<1>1. /\ pc = "check" /\ pc' = "done" /\ verdict' = check(The(query), The(builder))
      /\ crl_der' = crl_der /\ loaded' = loaded /\ owned' = owned /\ builder' = builder
      /\ calls' = calls /\ query' = query /\ UNCHANGED authority_vars
  BY DEF Check
<1>2. LoadInv'
  BY <1>1 DEF ClientInv, LoadInv
<1>3. LoadedView' = LoadedView
  BY <1>1 DEF LoadedView
<1>4. BuilderInv'
  BY <1>1, <1>3 DEF ClientInv, BuilderInv
<1>5. QueryInv'
  BY <1>1 DEF ClientInv, QueryInv
<1>6. AuthorityInv'
  BY <1>1, AuthorityUnchanged DEF ClientInv
<1> QED
  BY <1>2, <1>4, <1>5, <1>6 DEF ClientInv

LEMMA ClientUnchanged ==
    ASSUME LoadInv, BuilderInv, QueryInv, UNCHANGED client_vars
    PROVE  LoadInv' /\ BuilderInv' /\ QueryInv'
<1>1. /\ pc' = pc /\ verdict' = verdict /\ crl_der' = crl_der /\ loaded' = loaded
      /\ owned' = owned /\ builder' = builder /\ calls' = calls /\ query' = query
  BY DEF client_vars
<1>2. LoadedView' = LoadedView
  BY <1>1 DEF LoadedView
<1>3. LoadInv'
  BY <1>1 DEF LoadInv
<1>4. BuilderInv'
  BY <1>1, <1>2 DEF BuilderInv
<1>5. QueryInv'
  BY <1>1 DEF QueryInv, Checked
<1> QED
  BY <1>3, <1>4, <1>5

LEMMA ClientStep == ClientInv /\ [Next]_vars => ClientInv'
<1> SUFFICES ASSUME ClientInv, [Next]_vars PROVE ClientInv'
  OBVIOUS
<1>1. CASE WithDepth
  <2>1. PICK d \in {"EndEntity", "Chain"} : Set([The(builder) EXCEPT !.depth = d], d)
    BY <1>1 DEF WithDepth
  <2>2. d \in Depths
    BY DEF Depths
  <2> QED
    BY <2>1, <2>2, SetKeeps
<1>2. CASE AllowUnknownStatus
  <2>1. "Allow" \in Statuses
    BY DEF Statuses
  <2> QED
    BY <1>2, <2>1, SetKeeps DEF AllowUnknownStatus
<1>3. CASE ForbidUnknownStatus
  <2>1. "Deny" \in Statuses
    BY DEF Statuses
  <2> QED
    BY <1>3, <2>1, SetKeeps DEF ForbidUnknownStatus
<1>4. CASE Authority
  BY <1>4, ClientUnchanged, AuthorityNextKeeps DEF Authority, ClientInv
<1>5. CASE UNCHANGED vars
  BY <1>5, ClientUnchanged, AuthorityUnchanged DEF vars, ClientInv
<1> QED
  BY <1>1, <1>2, <1>3, <1>4, <1>5, LoadKeeps, ToOwnedKeeps, NewBuilderKeeps, BuildKeeps,
     AskKeeps, CheckKeeps DEF Next, Done

LEMMA ClientInvariant == Spec => []ClientInv
  BY ClientInitially, ClientStep, PTL DEF Spec

-----------------------------------------------------------------------------
(* The theorems.                                                           *)

\* The CRL that was loaded is the one that was given.
LEMMA LoadsSupportedFollows == ClientInv => LoadsSupported
<1> SUFFICES ASSUME ClientInv, pc # "load"
             PROVE  /\ Supported(crl_der) => loaded.result = "Ok"
                    /\ loaded.result = "Ok" => Tolerated(crl_der)
  BY DEF LoadsSupported
<1>1. crl_der \in CrlInputs /\ loaded = crl_from_der(crl_der)
  BY DEF ClientInv, LoadInv
<1>2. Reader9(crl_der)
  BY <1>1, CrlInputsAssumption
<1>3. /\ loaded.result = "Ok" <=> Loadable(crl_der)
      /\ SupportedApartFromIdp(crl_der) => \A v \in Idps(crl_der) : Reader3(v)
  BY <1>1, <1>2, CrlRead
<1>4. SupportedApartFromIdp(crl_der) =>
          \A v \in Idps(crl_der) : /\ SupportedIdp(v) => LoadableIdp(v)
                                   /\ LoadableIdp(v) => ToleratedIdp(v)
  BY <1>3, IdpBounds
<1> QED
  BY <1>3, <1>4, Zenon DEF Supported, Tolerated, Loadable

\* LoadsSupported: BorrowedCertRevocationList::from_der, for any octets, any number of
\* extensions and any issuing distribution point, loads every well-formed CRL that asks for
\* nothing unsupported, and of the others only those whose issuing distribution point
\* is ill-formed in a tolerated way.
THEOREM LoadTheorem == Spec => []LoadsSupported
  BY ClientInvariant, LoadsSupportedFollows, PTL

\* ComputesClosedForm: the iterator loops of authoritative_for and uri_name_in_common,
\* for any number of distribution points and of names, compute what path building uses
\* for them.
THEOREM ClosedFormTheorem == Spec => []ComputesClosedForm
<1>1. ClientInv => ComputesClosedForm
  BY DEF ClientInv, AuthorityInv
<1> QED
  BY <1>1, ClientInvariant, PTL

LEMMA JustificationFollows == ClientInv => AuthorityIsJustified
<1> SUFFICES ASSUME ClientInv, step = "done", authoritative
             PROVE  /\ scope_includes(args.idp, args.is_ca)
                    /\ IsSome(args.cert.crl_distribution_points) => SharesUri(args.idp, Points)
  BY DEF AuthorityIsJustified, scope_includes, Points
<1>1. /\ scope_includes(args.idp, args.is_ca)
      /\ IsSome(args.cert.crl_distribution_points) => FirstPointUsable /\ Shared
  BY ClosedForm DEF ClientInv, AuthorityInv, ComputesClosedForm
<1>2. ASSUME IsSome(args.cert.crl_distribution_points) PROVE SharesUri(args.idp, Points)
  <2> DEFINE list == args.idp.names
             k == first_uri(list)
  <2>1. ArgsWellFormed /\ FirstPointUsable /\ Shared
    BY <1>1, <1>2 DEF ClientInv, AuthorityInv
  <2>2. IsSeq(list) /\ IsSeq(Points)
    BY <1>2, <2>1 DEF ArgsWellFormed, PointsWellFormed
  <2>3. k # 0 /\ Names(FirstNames, list[k].value.value)
    BY <2>1 DEF Shared, FirstUri, IsSome, None, Some, The
  <2>4. k \in DOMAIN list /\ IsUri(list[k])
    <3>1. k \in 1..Len(list) /\ IsUri(list[k])
      BY <2>2, <2>3, FirstUriIndex
    <3> QED
      BY <2>2, <3>1, ListFacts
  <2> HIDE DEF k, list
  <2>5. PICK m \in DOMAIN FirstNames : names_uri(FirstNames[m], list[k].value.value)
    BY <2>3 DEF Names
  <2>6. list[k].value.value \in UriValues(FirstNames) \cap UriValues(list)
    <3>1. IsUri(FirstNames[m]) /\ FirstNames[m].value.value = list[k].value.value
      BY <2>5 DEF names_uri
    <3> QED
      BY <2>4, <2>5, <3>1 DEF UriValues
  <2>7. 1 \in DOMAIN Points /\ usable_dp(Points[1])
    BY <2>1, <2>2, ListFacts, ListConsumed DEF FirstPointUsable
  <2> QED
    BY <2>6, <2>7 DEF SharesUri, FirstNames, list
<1> QED
  BY <1>1, <1>2

\* AuthorityIsJustified, for any CRL and certificate: a CRL is authoritative only within
\* its scope and, for a certificate with distribution points, only if it shares a URI
\* with one of them.
THEOREM AuthorityTheorem == Spec => []AuthorityIsJustified
  BY ClientInvariant, JustificationFollows, PTL

\* check_crls, for a single CRL.
LEMMA CheckOfOne ==
    ASSUME NEW o, NEW crl, o.crls = << crl >>, NEW q
    PROVE  check(q, o) =
             IF o.depth = "EndEntity" /\ q.is_ca THEN "Ok"
             ELSE IF ~crl_authoritative(crl, cert_view(q), q.is_ca)
                  THEN Require(o.status_requirement = "Allow", "UnknownRevocationStatus")
             ELSE consult_crl(Algorithms, crl, cert_view(q), q.issuer_spki, q.issuer_ku)
<1> DEFINE authoritative_crl(c) == crl_authoritative(c, cert_view(q), q.is_ca)
           I == {i \in 1..Len(o.crls) : authoritative_crl(o.crls[i])}
           k == SelectInSeq(o.crls, authoritative_crl)
<1>1. k = IF I # {} THEN Min(I) ELSE 0
  BY DEF SelectInSeq
<1>2. Len(o.crls) = 1 /\ o.crls[1] = crl
  OBVIOUS
<1>3. I = IF authoritative_crl(crl) THEN {1} ELSE {}
  <2>1. 1..Len(o.crls) = {1}
    BY <1>2
  <2> QED
    BY <1>2, <2>1
<1>4. Min({1}) = 1
  BY DEF Min
<1>5. k = IF authoritative_crl(crl) THEN 1 ELSE 0
  <2>1. {1} # {}
    OBVIOUS
  <2> HIDE DEF I, k
  <2> QED
    BY <1>1, <1>3, <1>4, <2>1
<1>6. check(q, o) =
        IF o.depth = "EndEntity" /\ q.is_ca THEN "Ok"
        ELSE IF k = 0 THEN Require(o.status_requirement = "Allow", "UnknownRevocationStatus")
        ELSE consult_crl(Algorithms, o.crls[k], cert_view(q), q.issuer_spki, q.issuer_ku)
  BY DEF check, check_crls
<1> HIDE DEF k, I
<1> QED
  BY <1>2, <1>5, <1>6

LEMMA FailClosedFollows == ClientInv => FailClosed
<1> SUFFICES ASSUME ClientInv, Checked, ~Covered, verdict = "Ok"
             PROVE  \/ Says(calls, Statuses, "Allow")
                    \/ The(query).is_ca /\ Says(calls, Depths, "EndEntity")
  BY DEF FailClosed, Says, Statuses, Depths
<1> DEFINE o == The(builder)
           q == The(query)
<1>1. IsSome(query) /\ IsSome(builder) /\ verdict = check(q, o)
  BY DEF ClientInv, QueryInv, Checked
<1>2. /\ o.crls = << LoadedView >>
      /\ o.depth = "EndEntity" => Says(calls, Depths, "EndEntity")
      /\ o.status_requirement = "Allow" => Says(calls, Statuses, "Allow")
  BY <1>1 DEF ClientInv, BuilderInv
<1>3. ~crl_authoritative(LoadedView, cert_view(q), q.is_ca)
  <2>1. o.crls[1] = LoadedView
    BY <1>2
  <2> QED
    BY <2>1 DEF Covered
<1>4. \/ o.depth = "EndEntity" /\ q.is_ca
      \/ verdict = Require(o.status_requirement = "Allow", "UnknownRevocationStatus")
  BY <1>1, <1>2, <1>3, CheckOfOne
<1> QED
  BY <1>2, <1>4 DEF Require

\* FailClosed, for any number of calls of the builder: a certificate of unknown status is
\* accepted only on the caller's last word.
THEOREM FailClosedTheorem == Spec => []FailClosed
  BY ClientInvariant, FailClosedFollows, PTL

-----------------------------------------------------------------------------
(* The two forms of a CRL.                                                 *)

\* SetToSeq lists the elements of a finite set.
LEMMA SetToSeqLists ==
    ASSUME NEW S, IsFiniteSet(S)
    PROVE  /\ Len(SetToSeq(S)) \in Nat
           /\ \A x : x \in S <=> \E i \in 1..Len(SetToSeq(S)) : SetToSeq(S)[i] = x
<1> DEFINE n == Cardinality(S)
           t == SetToSeq(S)
<1>1. n \in Nat /\ ExistsBijection(1..n, S)
  BY FS_CardinalityType
<1>2. \E f \in [1..n -> S] : IsInjective(f)
  BY <1>1 DEF ExistsBijection, Bijection, Injection
<1>3. t \in [1..n -> S] /\ IsInjective(t)
  BY <1>2 DEF SetToSeq
<1> HIDE DEF t
<1>4. IsFiniteSet(1..n) /\ Cardinality(1..n) = n
  BY <1>1, FS_Interval
<1>5. t \in Injection(1..n, S)
  BY <1>3 DEF Injection
<1>6. t \in Surjection(1..n, S)
  <2> HIDE DEF n
  <2>1. Cardinality(1..n) = Cardinality(S)
    BY <1>4 DEF n
  <2> QED
    BY <1>5, <2>1, FS_Injection
<1>7. \A x \in S : \E i \in 1..n : t[i] = x
  BY <1>6 DEF Surjection
<1>8. Len(t) = n
  BY <1>1, <1>3
<1> QED
  BY <1>1, <1>3, <1>7, <1>8 DEF t

\* Looking for a serial number among entries that all decode.
LEMMA FindSerialAmongOk ==
    ASSUME NEW crl, Len(crl.revoked) \in Nat, NEW serial,
           \A i \in 1..Len(crl.revoked) : crl.revoked[i].result = "Ok"
    PROVE  find_serial(crl, serial) =
               Ok(\E i \in 1..Len(crl.revoked) : crl.revoked[i].value = serial)
<1> DEFINE list == crl.revoked
           n == Len(list)
           stops(entry) == entry.result # "Ok" \/ entry.value = serial
           I == {i \in 1..n : stops(list[i])}
           k == SelectInSeq(list, stops)
           found == \E i \in 1..n : list[i].value = serial
<1>1. k = IF I # {} THEN Min(I) ELSE 0
  BY DEF SelectInSeq
<1>2. I # {} => Min(I) \in 1..n
  <2>1. I \in SUBSET (1..n)
    OBVIOUS
  <2> QED
    BY <2>1, OptionalIndex
<1>3. I # {} <=> found
  OBVIOUS
<1>4. find_serial(crl, serial) =
        IF k = 0 THEN Ok(FALSE) ELSE IF list[k].result # "Ok" THEN list[k] ELSE Ok(TRUE)
  BY DEF find_serial
<1> HIDE DEF I, k, found
<1>5. CASE found
  <2>1. k \in 1..n
    BY <1>1, <1>2, <1>3, <1>5
  <2>2. k # 0 /\ list[k].result = "Ok"
    BY <2>1
  <2>3. find_serial(crl, serial) = Ok(TRUE)
    BY <1>4, <2>2
  <2>4. found = TRUE
    BY <1>5 DEF found
  <2> QED
    BY <2>3, <2>4 DEF found
<1>6. CASE ~found
  <2>1. k = 0
    BY <1>1, <1>3, <1>6
  <2>2. found = FALSE
    BY <1>6 DEF found
  <2> QED
    BY <1>4, <2>1, <2>2 DEF found
<1> QED
  BY <1>5, <1>6

\* The serial number is in the map, and in the list.
InMap(crl, serial) == \E e \in to_owned(crl).value : e.serial_number = serial

InList(crl, serial) ==
    \E i \in 1..Len(crl.revoked_certs) : entries(crl)[i].value.serial_number = serial

\* The entries of a CRL that was converted: they all decode, and the map has an entry
\* for each of their serial numbers and for no other.
LEMMA ConvertedEntries ==
    ASSUME NEW crl, IsSeq(crl.revoked_certs), to_owned(crl).result = "Ok", NEW serial
    PROVE  /\ Len(crl.revoked_certs) \in Nat
           /\ DOMAIN entries(crl) = 1..Len(crl.revoked_certs)
           /\ \A i \in 1..Len(crl.revoked_certs) : entries(crl)[i].result = "Ok"
           /\ IsFiniteSet({Ok(e.serial_number) : e \in to_owned(crl).value})
           /\ InMap(crl, serial) <=> InList(crl, serial)
<1> DEFINE es == entries(crl)
           n == Len(crl.revoked_certs)
           map == to_owned(crl).value
           failing == {i \in DOMAIN es : es[i].result # "Ok"}
           serial_of(i) == es[i].value.serial_number
           kept(i) == \A j \in DOMAIN es : serial_of(j) = serial_of(i) => j <= i
           K == {k \in DOMAIN es : kept(k)}
<1>1. n \in Nat /\ DOMAIN es = 1..n
  BY ListFacts DEF entries
<1> HIDE DEF n
<1>2. to_owned(crl) = IF failing # {} THEN es[Min(failing)] ELSE Ok({es[i].value : i \in K})
  BY DEF to_owned
<1> HIDE DEF es
<1>3. failing = {}
  <2>1. SUFFICES ASSUME failing # {} PROVE FALSE
    OBVIOUS
  <2>2. failing \in SUBSET Nat
    BY <1>1
  <2>3. Min(failing) \in failing
    <3> HIDE DEF failing
    <3> QED
      BY <2>1, <2>2, MinOfIndices
  <2>4. to_owned(crl).result # "Ok"
    BY <1>2, <2>1, <2>3
  <2> QED
    BY <2>4
<1>4. map = {es[i].value : i \in K}
  BY <1>2, <1>3 DEF Ok
<1>5. \A i \in 1..n : es[i].result = "Ok"
  BY <1>1, <1>3
<1>6. IsFiniteSet({Ok(e.serial_number) : e \in map})
  <2> DEFINE S == {Ok(e.serial_number) : e \in map}
             f == [i \in K |-> Ok(serial_of(i))]
  <2>1. IsFiniteSet(K)
    <3>1. IsFiniteSet(1..n) /\ K \in SUBSET (1..n)
      BY <1>1, FS_Interval
    <3> HIDE DEF K
    <3> QED
      BY <3>1, FS_Subset
  <2>2. S = {Ok(serial_of(i)) : i \in K}
    BY <1>4
  <2> HIDE DEF K, serial_of
  <2>3. f \in [K -> S] /\ \A x \in S : \E i \in K : f[i] = x
    BY <2>2
  <2> HIDE DEF f, S
  <2>4. f \in Surjection(K, S)
    BY <2>3 DEF Surjection
  <2> QED
    BY <2>1, <2>4, FS_Surjection DEF S
<1>7. (\E e \in map : e.serial_number = serial) <=>
          \E i \in 1..n : es[i].value.serial_number = serial
  <2>1. ASSUME NEW e \in map, e.serial_number = serial
        PROVE  \E i \in 1..n : es[i].value.serial_number = serial
    BY <1>1, <1>4, <2>1
  <2>2. ASSUME NEW i \in 1..n, es[i].value.serial_number = serial
        PROVE  \E e \in map : e.serial_number = serial
    <3> DEFINE I == {j \in 1..n : serial_of(j) = serial}
    <3>1. I \in SUBSET (1..n) /\ I # {}
      BY <2>2
    <3>2. PICK k \in I : \A j \in I : j <= k
      <4> HIDE DEF I
      <4> QED
        BY <1>1, <3>1, GreatestIndex
    <3>3. k \in K
      BY <1>1, <3>2
    <3>4. es[k].value \in map /\ es[k].value.serial_number = serial
      BY <1>4, <3>2, <3>3
    <3> QED
      BY <3>4
  <2> QED
    BY <2>1, <2>2
<1> QED
  BY <1>1, <1>5, <1>6, <1>7 DEF n, es, InMap, InList

\* A serial number is found in the owned form exactly if it is in the borrowed one.
LEMMA SameSerials ==
    ASSUME NEW crl, IsSeq(crl.revoked_certs), to_owned(crl).result = "Ok", NEW serial
    PROVE  find_serial(owned_view(crl, to_owned(crl).value), serial) =
               find_serial(borrowed_view(crl), serial)
<1> DEFINE es == entries(crl)
           n == Len(crl.revoked_certs)
           map == to_owned(crl).value
           S == {Ok(e.serial_number) : e \in map}
           b == borrowed_view(crl)
           o == owned_view(crl, map)
<1>1. /\ n \in Nat /\ DOMAIN es = 1..n
      /\ \A i \in 1..n : es[i].result = "Ok"
      /\ IsFiniteSet(S)
  <2>1. n \in Nat /\ DOMAIN es = 1..n /\ \A i \in 1..n : es[i].result = "Ok"
    BY ConvertedEntries
  <2>2. IsFiniteSet(S)
    BY ConvertedEntries, Zenon
  <2> QED
    BY <2>1, <2>2
<1>2. b.revoked = [i \in DOMAIN es |-> AndThen(es[i], LAMBDA e : Ok(e.serial_number))]
  BY DEF borrowed_view
<1>3. o.revoked = SetToSeq(S)
  BY DEF owned_view, borrowed_view
<1> HIDE DEF b, o, es, n, map
<1>4. \A x : Ok(x).result = "Ok" /\ Ok(x).value = x
  BY DEF Ok
<1>5. /\ Len(b.revoked) = n
      /\ \A i \in 1..n : b.revoked[i] = Ok(es[i].value.serial_number)
  <2>1. b.revoked = [i \in 1..n |-> Ok(es[i].value.serial_number)]
    BY <1>1, <1>2 DEF AndThen
  <2> QED
    BY <1>1, <2>1
<1>6. find_serial(b, serial) = Ok(InList(crl, serial))
  <2>1. \A i \in 1..n :
           b.revoked[i].result = "Ok" /\ b.revoked[i].value = es[i].value.serial_number
    BY <1>4, <1>5
  <2>2. find_serial(b, serial) = Ok(\E i \in 1..Len(b.revoked) : b.revoked[i].value = serial)
    <3>1. /\ Len(b.revoked) \in Nat
          /\ \A i \in 1..Len(b.revoked) : b.revoked[i].result = "Ok"
      BY <1>1, <1>5, <2>1
    <3> QED
      BY <3>1, FindSerialAmongOk
  <2>3. (\E i \in 1..Len(b.revoked) : b.revoked[i].value = serial) =
            InList(crl, serial)
    BY <1>5, <2>1 DEF InList, n, es
  <2> QED
    BY <2>2, <2>3
<1>7. find_serial(o, serial) = Ok(InMap(crl, serial))
  <2> DEFINE t == o.revoked
  <2>1. Len(t) \in Nat /\ \A x : x \in S <=> \E i \in 1..Len(t) : t[i] = x
    <3> HIDE DEF S
    <3> QED
      BY <1>1, <1>3, SetToSeqLists
  <2> HIDE DEF t
  <2>2. \A i \in 1..Len(t) : \E e \in map : t[i] = Ok(e.serial_number)
    BY <2>1
  <2>3. \A e \in map : \E i \in 1..Len(t) : t[i] = Ok(e.serial_number)
    BY <2>1
  <2>4. \A i \in 1..Len(t) : t[i].result = "Ok"
    BY <1>4, <2>2
  <2>5. find_serial(o, serial) = Ok(\E i \in 1..Len(t) : t[i].value = serial)
    BY <2>1, <2>4, FindSerialAmongOk DEF t
  <2>6. (\E i \in 1..Len(t) : t[i].value = serial) <=> InMap(crl, serial)
    BY <1>4, <2>2, <2>3 DEF InMap, map
  <2>7. (\E i \in 1..Len(t) : t[i].value = serial) = InMap(crl, serial)
    BY <2>6 DEF InMap
  <2> QED
    BY <2>5, <2>7
<1>8. InMap(crl, serial) = InList(crl, serial)
  BY ConvertedEntries, ZenonT(60) DEF InMap, InList
<1> QED
  BY <1>6, <1>7, <1>8 DEF b, o, map

LEMMA FormFollows == ClientInv => FormIndependent
<1> SUFFICES ASSUME ClientInv, Checked, IsSome(owned)
             PROVE  verdict = check(The(query),
                                    [The(builder) EXCEPT !.crls = << borrowed_view(loaded.value) >>])
  BY DEF FormIndependent
<1> DEFINE crl == loaded.value
           b == borrowed_view(crl)
           w == owned_view(crl, to_owned(crl).value)
           q == The(query)
           cert == cert_view(q)
           p == The(builder)
           p2 == [p EXCEPT !.crls = << b >>]
<1>1. IsSome(builder) /\ verdict = check(q, p)
  BY DEF ClientInv, QueryInv, Checked
<1>2. /\ crl_der \in CrlInputs /\ loaded = crl_from_der(crl_der) /\ loaded.result = "Ok"
      /\ The(owned) = to_owned(crl) /\ The(owned).result = "Ok"
  BY <1>1 DEF ClientInv, LoadInv
<1>3. IsSeq(crl.revoked_certs)
  BY <1>2, LoadedEntries DEF Reader2, ReaderOf
<1>4. PICK d \in Depths, r \in Statuses :
          p = [crls |-> << w >>, depth |-> d, status_requirement |-> r]
  BY <1>1, <1>2 DEF ClientInv, BuilderInv, LoadedView
<1>5. find_serial(w, cert.serial) = find_serial(b, cert.serial)
  BY <1>2, <1>3, SameSerials
<1>6. /\ w.issuer = b.issuer /\ w.signed_data = b.signed_data
      /\ w.issuing_distribution_point = b.issuing_distribution_point
  BY DEF owned_view, borrowed_view
<1> HIDE DEF w, b, cert, q, p
<1>7. p2 = [crls |-> << b >>, depth |-> d, status_requirement |-> r]
  BY <1>4
<1> HIDE DEF p2
<1>8. /\ p.crls = << w >> /\ p.depth = d /\ p.status_requirement = r
      /\ p2.crls = << b >> /\ p2.depth = d /\ p2.status_requirement = r
  BY <1>4, <1>7
<1>9. crl_authoritative(w, cert, q.is_ca) <=> crl_authoritative(b, cert, q.is_ca)
  BY <1>6 DEF crl_authoritative
<1>10. consult_crl(Algorithms, w, cert, q.issuer_spki, q.issuer_ku) =
          consult_crl(Algorithms, b, cert, q.issuer_spki, q.issuer_ku)
  BY <1>5, <1>6 DEF consult_crl
<1>11. check(q, p) = check(q, p2)
  <2>1. check(q, p) =
          IF d = "EndEntity" /\ q.is_ca THEN "Ok"
          ELSE IF ~crl_authoritative(w, cert, q.is_ca)
               THEN Require(r = "Allow", "UnknownRevocationStatus")
          ELSE consult_crl(Algorithms, w, cert, q.issuer_spki, q.issuer_ku)
    BY <1>8, CheckOfOne DEF cert
  <2>2. check(q, p2) =
          IF d = "EndEntity" /\ q.is_ca THEN "Ok"
          ELSE IF ~crl_authoritative(b, cert, q.is_ca)
               THEN Require(r = "Allow", "UnknownRevocationStatus")
          ELSE consult_crl(Algorithms, b, cert, q.issuer_spki, q.issuer_ku)
    BY <1>8, CheckOfOne DEF cert
  <2> QED
    BY <1>9, <1>10, <2>1, <2>2
<1> QED
  BY <1>1, <1>11 DEF b, q, p, p2

\* FormIndependent, for any CRL: converting a CRL to its owned form changes no verdict,
\* also if serial numbers are repeated.
THEOREM FormTheorem == Spec => []FormIndependent
  BY ClientInvariant, FormFollows, PTL

-----------------------------------------------------------------------------
(* Listed serial numbers.                                                  *)

\* The serial number of an entry is found, or the lookup fails.
LEMMA ListedIsFound ==
    ASSUME NEW crl, Reader2(crl.revoked_certs), NEW j \in DOMAIN crl.revoked_certs,
           NEW serial, Head(crl.revoked_certs[j].content).content = serial,
           find_serial(borrowed_view(crl), serial).result = "Ok"
    PROVE  find_serial(borrowed_view(crl), serial).value
<1> DEFINE b == borrowed_view(crl)
           x == crl.revoked_certs[j]
           c == revoked_cert_from_der(<< x >>)
           e == AndThen(c, LAMBDA r : Ok(r.value))
           n == Len(b.revoked)
           stops(entry) == entry.result # "Ok" \/ entry.value = serial
           I == {i \in 1..n : stops(b.revoked[i])}
           k == SelectInSeq(b.revoked, stops)
<1>1. IsSeq(crl.revoked_certs)
  BY DEF Reader2, ReaderOf
<1>2. entries(crl)[j] = e /\ DOMAIN entries(crl) = DOMAIN crl.revoked_certs
  BY DEF entries
<1>3. b.revoked[j] = AndThen(e, LAMBDA v : Ok(v.serial_number))
  BY <1>2 DEF borrowed_view
<1>4. n \in Nat /\ DOMAIN b.revoked = 1..n
  <2>1. DOMAIN b.revoked = DOMAIN crl.revoked_certs
    BY DEF borrowed_view, entries
  <2>2. Len(crl.revoked_certs) \in Nat /\ DOMAIN crl.revoked_certs = 1..Len(crl.revoked_certs)
    BY <1>1, ListFacts
  <2>3. b.revoked = [i \in 1..Len(crl.revoked_certs) |-> b.revoked[i]]
    BY <1>2, <2>2 DEF borrowed_view
  <2>4. n = Len(crl.revoked_certs)
    <3> HIDE DEF b
    <3> QED
      BY <2>2, <2>3
  <2> QED
    BY <2>1, <2>2, <2>4
<1>5. j \in 1..n
  <2>1. DOMAIN b.revoked = DOMAIN crl.revoked_certs
    BY DEF borrowed_view, entries
  <2> QED
    BY <1>4, <2>1
<1>6. c.result = "Ok" => c.value.value.serial_number = serial
  <2>1. Reader2(<< x >>)
    <3>1. IsSeq(<< x >>) /\ DOMAIN << x >> = {1} /\ << x >>[1] = x
      BY DEF IsSeq
    <3>2. /\ x = Element(x.tag, x.content)
          /\ x.tag \in {"Sequence", "Set", "OctetString", "ContextSpecificConstructed0",
                        "ContextSpecificConstructed3"} => Reader1(x.content)
          /\ x.tag \in {"Integer", "Boolean", "BitString"} => Octets(x.content)
          /\ x.tag = "Malformed" => x = Malformed
      BY DEF Reader2, ReaderOf
    <3> HIDE DEF x
    <3> QED
      BY <3>1, <3>2 DEF Reader2, ReaderOf
  <2> HIDE DEF x
  <2>2. Head(x.content).content = serial
    BY DEF x
  <2> QED
    BY <2>1, <2>2, EntryHasSerial
<1> HIDE DEF b, c, x
<1>7. stops(b.revoked[j])
  <2>1. e = IF c.result = "Ok" THEN Ok(c.value.value) ELSE c
    BY DEF AndThen
  <2> HIDE DEF e
  <2>2. b.revoked[j] = IF e.result = "Ok" THEN Ok(e.value.serial_number) ELSE e
    BY <1>3 DEF AndThen
  <2>3. CASE c.result = "Ok"
    <3>1. e.result = "Ok" /\ e.value = c.value.value
      BY <2>1, <2>3, ResultFacts
    <3>2. b.revoked[j] = Ok(serial)
      BY <1>6, <2>2, <2>3, <3>1
    <3> QED
      BY <3>2, ResultFacts
  <2>4. CASE c.result # "Ok"
    BY <2>1, <2>2, <2>4
  <2> QED
    BY <2>3, <2>4
<1>8. I # {} /\ I \in SUBSET (1..n)
  BY <1>5, <1>7
<1>9. k = Min(I)
  BY <1>8 DEF SelectInSeq
<1>10. Min(I) \in 1..n
  <2> HIDE DEF I
  <2> QED
    BY <1>4, <1>8, OptionalIndex
<1>11. find_serial(b, serial) =
        IF k = 0 THEN Ok(FALSE)
        ELSE IF b.revoked[k].result # "Ok" THEN b.revoked[k] ELSE Ok(TRUE)
  BY DEF find_serial
<1> HIDE DEF k, I
<1>12. k # 0
  BY <1>9, <1>10
<1>13. find_serial(b, serial) = Ok(TRUE)
  <2>1. find_serial(b, serial).result = "Ok"
    BY DEF b
  <2> QED
    BY <1>11, <1>12, <2>1
<1> QED
  BY <1>13, ResultFacts DEF b

LEMMA RevokedFollows == ClientInv => RevokedNeverOk
<1> SUFFICES ASSUME ClientInv, Checked, ~Exempt, Covered, The(query).serial \in Listed(crl_der),
                    verdict = "Ok"
             PROVE  FALSE
  BY DEF RevokedNeverOk
<1> DEFINE crl == loaded.value
           b == borrowed_view(crl)
           q == The(query)
           p == The(builder)
           w == LoadedView
           cert == cert_view(q)
           found == find_serial(w, cert.serial)
<1>1. IsSome(builder) /\ verdict = check(q, p)
  BY DEF ClientInv, QueryInv, Checked
<1>2. /\ crl_der \in CrlInputs /\ loaded = crl_from_der(crl_der) /\ loaded.result = "Ok"
      /\ IsSome(owned) => The(owned) = to_owned(crl) /\ The(owned).result = "Ok"
  BY <1>1 DEF ClientInv, LoadInv
<1>3. p.crls = << w >>
  BY <1>1 DEF ClientInv, BuilderInv
<1>4. /\ Reader2(crl.revoked_certs)
      /\ Len(Tbs(crl_der)) < 7 \/ crl.revoked_certs = Tbs(crl_der)[6].content
  BY <1>2, LoadedEntries
<1>5. cert.serial = q.serial
  BY DEF cert_view
<1>6. PICK x \in Range(Tbs(crl_der)[6].content) :
          ~(Len(Tbs(crl_der)) < 7) /\ Head(x.content).content = q.serial
  <2>1. q.serial \in IF Len(Tbs(crl_der)) < 7 THEN {}
        ELSE {Head(e.content).content :
                  e \in {x \in Range(Tbs(crl_der)[6].content) :
                             x.tag = "Sequence" /\ peek(x.content, "Integer")}}
    BY DEF Listed, Tbs
  <2> QED
    BY <2>1
<1>7. PICK j \in DOMAIN crl.revoked_certs :
          Head(crl.revoked_certs[j].content).content = q.serial
  <2>1. x \in Range(crl.revoked_certs)
    BY <1>4, <1>6
  <2> QED
    BY <1>6, <2>1 DEF Range
<1>8. find_serial(b, q.serial).result = "Ok" => find_serial(b, q.serial).value
  BY <1>4, <1>7, ListedIsFound
<1>9. find_serial(w, q.serial) = find_serial(b, q.serial)
  <2>1. CASE IsSome(owned)
    <3>1. IsSeq(crl.revoked_certs)
      BY <1>4 DEF Reader2, ReaderOf
    <3>2. w = owned_view(crl, to_owned(crl).value)
      BY <1>2, <2>1 DEF LoadedView
    <3> QED
      BY <1>2, <2>1, <3>1, <3>2, SameSerials
  <2>2. CASE ~IsSome(owned)
    BY <2>2 DEF LoadedView
  <2> QED
    BY <2>1, <2>2
<1>10. found.result = "Ok" => found.value
  BY <1>5, <1>8, <1>9
<1>11. verdict = consult_crl(Algorithms, w, cert, q.issuer_spki, q.issuer_ku)
  <2>1. ~(p.depth = "EndEntity" /\ q.is_ca)
    BY DEF Exempt
  <2>2. crl_authoritative(w, cert, q.is_ca)
    <3>1. p.crls[1] = w
      BY <1>3
    <3> QED
      BY <3>1 DEF Covered
  <2> HIDE DEF w, q, p
  <2>3. check(q, p) =
             IF p.depth = "EndEntity" /\ q.is_ca THEN "Ok"
             ELSE IF ~crl_authoritative(w, cert_view(q), q.is_ca)
                  THEN Require(p.status_requirement = "Allow", "UnknownRevocationStatus")
             ELSE consult_crl(Algorithms, w, cert_view(q), q.issuer_spki, q.issuer_ku)
    BY <1>3, CheckOfOne
  <2> QED
    BY <1>1, <2>1, <2>2, <2>3
<1>12. /\ found.result = "Ok"
       /\ Require(~found.value, "CertRevoked") = "Ok"
  <2> HIDE DEF w, q, cert
  <2>1. consult_crl(Algorithms, w, cert, q.issuer_spki, q.issuer_ku) =
          crl_signature_err(verify_signed_data(Algorithms, q.issuer_spki, w.signed_data))
          ?? check_key_usage(q.issuer_ku) ?? found.result
          ?? Require(~found.value, "CertRevoked")
    BY DEF consult_crl
  <2> HIDE DEF found
  <2> QED
    BY <1>11, <2>1 DEF ??
<1> QED
  BY <1>10, <1>12 DEF Require

\* RevokedNeverOk, for any CRL: a certificate whose serial number is in the list that
\* the to-be-signed part holds is not accepted by a check that covers it.
THEOREM RevokedTheorem == Spec => []RevokedNeverOk
  BY ClientInvariant, RevokedFollows, PTL
=============================================================================
