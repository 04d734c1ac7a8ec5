------------------------- MODULE CertParsingProofs -------------------------
(***************************************************************************)
(* Parsing of a certificate, for any certificate: what Cert::from_der      *)
(* accepts, what it remembers of the extensions, what an anchor keeps and  *)
(* which common name is found.                                             *)
(***************************************************************************)
EXTENDS CertParsing, CheckProofs

-----------------------------------------------------------------------------
(* The outer SEQUENCE.                                                     *)

SignedFine(der) ==
    /\ Tags(der) = << "Sequence" >>
    /\ Tags(der[1].content) = << "Sequence", "Sequence", "BitString" >>
    /\ der[1].content[3].content # << >> /\ der[1].content[3].content[1] = 0

SignedPart(der) ==
    read_to_end(der, "TrailingData", LAMBDA d :
        nested(d, "Sequence", "TrailingData", SignedData_from_der))

TbsOf(der)       == der[1].content[1].content
AlgorithmOf(der) == der[1].content[2].content

LEMMA SignedRead ==
    ASSUME NEW der, Reader7(der)
    PROVE  /\ SignedPart(der).result = "Ok" <=> SignedFine(der)
           /\ SignedFine(der) =>
                  /\ SignedPart(der).value.tbs = TbsOf(der)
                  /\ SignedPart(der).value.signed_data.algorithm = AlgorithmOf(der)
<1> DEFINE outer == expect_tag(der, "Sequence")
           body == outer.value.value
           inner == SignedData_from_der(body)
           whole == IF inner.result # "Ok" THEN inner
                    ELSE IF inner.value.rest # << >> THEN Err("TrailingData")
                    ELSE Ok(inner.value.value)
           n == IF outer.result # "Ok" THEN Err("TrailingData")
                ELSE IF whole.result = "Ok" THEN Read(whole.value, outer.value.rest) ELSE whole
           p == SignedPart(der)
<1>1. p = IF n.result # "Ok" THEN n
          ELSE IF n.value.rest # << >> THEN Err("TrailingData")
          ELSE Ok(n.value.value)
  BY DEF SignedPart, read_to_end, nested, AndThen
<1>2. Err("TrailingData").result # "Ok"
  BY DEF Err
<1>3. /\ outer.result = "Ok" <=> peek(der, "Sequence")
      /\ outer.result = "Ok" => body = Head(der).content /\ outer.value.rest = Tail(der)
  BY Expected
<1>4. IsSeq(der)
  BY DEF Reader7, ReaderOf
<1>5. Tags(der) = << "Sequence" >> <=> peek(der, "Sequence") /\ Tail(der) = << >>
  BY <1>4, PeekFirst, TagsOfOne
<1>6. peek(der, "Sequence") => Head(der) = der[1] /\ Reader6(der[1].content)
  <2>1. peek(der, "Sequence") => 1 \in DOMAIN der /\ Head(der) = der[1] /\ der[1].tag = "Sequence"
    BY <1>4, PeekFirst
  <2> QED
    BY <2>1 DEF Reader7, ReaderOf
<1> HIDE DEF outer, inner, whole, n, p, body
<1>7. outer.result = "Ok" => body = der[1].content /\ IsSeq(body)
  <2>1. \A s : Reader6(s) => IsSeq(s)
    BY DEF Reader6, ReaderOf
  <2> QED
    BY <1>3, <1>6, <2>1
<1>8. outer.result = "Ok" =>
          /\ inner.result = "Ok" /\ inner.value.rest = << >> <=>
                 /\ Tags(body) = << "Sequence", "Sequence", "BitString" >>
                 /\ body[3].content # << >> /\ body[3].content[1] = 0
          /\ inner.result = "Ok" =>
                 /\ inner.value.value.tbs = body[1].content
                 /\ inner.value.value.signed_data.algorithm = body[2].content
  BY <1>7, SignedParts DEF inner
<1>9. /\ whole.result = "Ok" <=> inner.result = "Ok" /\ inner.value.rest = << >>
      /\ whole.result = "Ok" => whole.value = inner.value.value
  BY <1>2, ResultFacts DEF whole
<1>10. /\ n.result = "Ok" <=> outer.result = "Ok" /\ whole.result = "Ok"
       /\ n.result = "Ok" => n.value.rest = outer.value.rest /\ n.value.value = whole.value
  BY <1>2, ResultFacts DEF n
<1>11. /\ p.result = "Ok" <=> n.result = "Ok" /\ n.value.rest = << >>
       /\ p.result = "Ok" => p.value = n.value.value
  BY <1>1, <1>2, ResultFacts
<1>12. p.result = "Ok" <=> SignedFine(der)
  BY <1>3, <1>5, <1>7, <1>8, <1>9, <1>10, <1>11 DEF SignedFine
<1>13. p.result = "Ok" => p.value.tbs = TbsOf(der)
                          /\ p.value.signed_data.algorithm = AlgorithmOf(der)
  BY <1>7, <1>8, <1>9, <1>10, <1>11 DEF TbsOf, AlgorithmOf
<1> QED
  BY <1>12, <1>13 DEF p

-----------------------------------------------------------------------------
(* The mandatory fields.                                                   *)

LEMMA VersionRead ==
    ASSUME NEW reader,
           peek(reader, "ContextSpecificConstructed0") => Reader1(Head(reader).content)
    PROVE  /\ version3(reader).result = "Ok" <=>
                  /\ peek(reader, "ContextSpecificConstructed0")
                  /\ Head(reader).content = << Element("Integer", << 2 >>) >>
           /\ version3(reader).result = "Ok" => version3(reader).value.rest = Tail(reader)
<1> DEFINE r == version3(reader)
           outer == expect_tag(reader, "ContextSpecificConstructed0")
           c == outer.value.value
           u == u8_from_der(c)
           d == IF u.result = "Ok"
                THEN IF u.value.value = 2 THEN Ok(u.value) ELSE Err("UnsupportedCertVersion")
                ELSE u
           whole == IF d.result # "Ok" THEN d
                    ELSE IF d.value.rest # << >> THEN Err("UnsupportedCertVersion")
                    ELSE Ok(d.value.value)
<1>1. r = IF outer.result # "Ok" THEN Err("UnsupportedCertVersion")
          ELSE IF whole.result = "Ok" THEN Read(whole.value, outer.value.rest) ELSE whole
  BY DEF version3, nested, read_to_end, AndThen
<1>2. Err("UnsupportedCertVersion").result # "Ok"
  BY DEF Err
<1>3. /\ outer.result = "Ok" <=> peek(reader, "ContextSpecificConstructed0")
      /\ outer.result = "Ok" => c = Head(reader).content /\ outer.value.rest = Tail(reader)
  BY Expected
<1>4. outer.result = "Ok" => Reader1(c)
  BY <1>3
<1> HIDE DEF r, outer, c, u, d, whole
<1>5. outer.result = "Ok" =>
          /\ u.result = "Ok" /\ u.value.value = 2 <=>
                 peek(c, "Integer") /\ Head(c).content = << 2 >>
          /\ u.result = "Ok" => u.value.rest = Tail(c)
  <2>1. 2 \in 0..127
    OBVIOUS
  <2> QED
    BY <1>4, <2>1, SmallNumberRead DEF u
<1>6. /\ d.result = "Ok" <=> u.result = "Ok" /\ u.value.value = 2
      /\ d.result = "Ok" => d.value = u.value
  BY <1>2, ResultFacts DEF d
<1>7. whole.result = "Ok" <=> d.result = "Ok" /\ d.value.rest = << >>
  BY <1>2, ResultFacts DEF whole
<1>8. /\ r.result = "Ok" <=> outer.result = "Ok" /\ whole.result = "Ok"
      /\ r.result = "Ok" => r.value.rest = outer.value.rest
  BY <1>1, <1>2, ResultFacts
<1>9. ASSUME outer.result = "Ok"
      PROVE  peek(c, "Integer") /\ Head(c).content = << 2 >> /\ Tail(c) = << >>
             <=> c = << Element("Integer", << 2 >>) >>
  <2>1. IsSeq(c)
    BY <1>4, <1>9 DEF Reader1, ReaderOf
  <2>2. ASSUME peek(c, "Integer"), Head(c).content = << 2 >>, Tail(c) = << >>
        PROVE  c = << Element("Integer", << 2 >>) >>
    <3>1. Len(c) = 1 /\ Head(c) = c[1] /\ c[1].tag = "Integer"
      BY <2>1, <2>2, PeekFirst
    <3>2. c = << c[1] >>
      BY <2>1, <3>1, SingleItem
    <3>3. c[1] = Element(c[1].tag, c[1].content)
      BY <1>4, <1>9, <2>2, FirstElement
    <3> QED
      BY <2>2, <3>1, <3>2, <3>3
  <2>3. ASSUME c = << Element("Integer", << 2 >>) >>
        PROVE  peek(c, "Integer") /\ Head(c).content = << 2 >> /\ Tail(c) = << >>
    <3>1. Len(c) = 1 /\ c[1] = Element("Integer", << 2 >>)
      BY <2>3
    <3>2. c[1].tag = "Integer" /\ c[1].content = << 2 >>
      BY <3>1 DEF Element
    <3>3. peek(c, "Integer")
      BY <2>1, <3>1, <3>2, PeekFirst
    <3> QED
      BY <2>1, <3>1, <3>2, <3>3, PeekFirst
  <2> QED
    BY <2>2, <2>3
<1> QED
  BY <1>3, <1>5, <1>6, <1>7, <1>8, <1>9 DEF r

\* What the k-th field is to be.
FieldFine(der, k) ==
    LET e == TbsOf(der)[k]
    IN  CASE k = 1 -> /\ e.tag = "ContextSpecificConstructed0"
                      /\ e.content = << Element("Integer", << 2 >>) >>
          [] k = 2 -> e.tag = "Integer"
          [] k = 3 -> e.tag = "Sequence" /\ e.content = AlgorithmOf(der)
          [] OTHER -> e.tag = "Sequence"

LEMMA FieldNames ==
    /\ DOMAIN Fields = 1..7
    /\ Fields[1] = "version" /\ Fields[2] = "serial" /\ Fields[3] = "signature"
    /\ Fields[4] = "issuer" /\ Fields[5] = "validity" /\ Fields[6] = "subject"
    /\ Fields[7] = "spki"
  BY DEF Fields

LEMMA FieldRead ==
    ASSUME NEW k \in 1..7, IsSeq(tbs),
           tbs # << >> => Head(tbs) = TbsOf(cert_der)[k],
           peek(tbs, "ContextSpecificConstructed0") => Reader1(Head(tbs).content),
           cert.signed_data.algorithm = AlgorithmOf(cert_der)
    PROVE  /\ read_field(Fields[k]).result = "Ok" <=>
                  tbs # << >> /\ FieldFine(cert_der, k)
           /\ read_field(Fields[k]).result = "Ok" =>
                  /\ read_field(Fields[k]).value.rest = Tail(tbs)
                  /\ k = 6 => read_field(Fields[k]).value.value = Head(tbs).content
<1> DEFINE e == TbsOf(cert_der)[k]
<1>1. \A tag : peek(tbs, tag) <=> tbs # << >> /\ e.tag = tag
  BY DEF peek
<1>2. CASE k = 1
  <2>1. read_field(Fields[k]) = version3(tbs)
    BY <1>2, FieldNames DEF read_field
  <2>2. FieldFine(cert_der, k) <=> /\ e.tag = "ContextSpecificConstructed0"
                                   /\ e.content = << Element("Integer", << 2 >>) >>
    BY <1>2 DEF FieldFine
  <2>3. /\ version3(tbs).result = "Ok" <=>
               /\ peek(tbs, "ContextSpecificConstructed0")
               /\ Head(tbs).content = << Element("Integer", << 2 >>) >>
        /\ version3(tbs).result = "Ok" => version3(tbs).value.rest = Tail(tbs)
    BY VersionRead
  <2>4. tbs # << >> => Head(tbs).content = e.content
    OBVIOUS
  <2> DEFINE two == << Element("Integer", << 2 >>) >>
  <2> HIDE DEF two, e
  <2>5. version3(tbs).result = "Ok" <=> tbs # << >> /\ FieldFine(cert_der, k)
    BY <1>1, <2>2, <2>3, <2>4 DEF two
  <2> QED
    BY <1>2, <2>1, <2>3, <2>5
<1>3. CASE k = 2
  <2>1. read_field(Fields[k]) = expect_tag(tbs, "Integer")
    BY <1>3, FieldNames DEF read_field, lenient_certificate_serial_number
  <2>2. FieldFine(cert_der, k) <=> e.tag = "Integer"
    BY <1>3 DEF FieldFine
  <2> QED
    BY <1>1, <1>3, <2>1, <2>2, Expected
<1>4. CASE k = 3
  <2> DEFINE x == expect_tag(tbs, "Sequence")
             r == read_field(Fields[k])
  <2>1. r = IF x.result = "Ok"
            THEN IF x.value.value = cert.signed_data.algorithm
                 THEN Ok(x.value) ELSE Err("SignatureAlgorithmMismatch")
            ELSE x
    BY <1>4, FieldNames DEF read_field, signature, AndThen
  <2>2. FieldFine(cert_der, k) <=> e.tag = "Sequence" /\ e.content = AlgorithmOf(cert_der)
    BY <1>4 DEF FieldFine
  <2>3. Err("SignatureAlgorithmMismatch").result # "Ok"
    BY DEF Err
  <2>4. /\ x.result = "Ok" <=> peek(tbs, "Sequence")
        /\ x.result = "Ok" => x.value.value = Head(tbs).content /\ x.value.rest = Tail(tbs)
    BY Expected
  <2> HIDE DEF x, r
  <2>5. /\ r.result = "Ok" <=> x.result = "Ok" /\ x.value.value = cert.signed_data.algorithm
        /\ r.result = "Ok" => r.value = x.value
    BY <2>1, <2>3, ResultFacts
  <2> QED
    BY <1>1, <1>4, <2>2, <2>4, <2>5 DEF r
<1>5. CASE k \in 4..7
  <2>1. Fields[k] \in {"issuer", "validity", "subject", "spki"}
    BY <1>5, FieldNames
  <2>2. read_field(Fields[k]) = expect_tag(tbs, "Sequence")
    BY <2>1 DEF read_field
  <2>3. FieldFine(cert_der, k) <=> e.tag = "Sequence"
    BY <1>5 DEF FieldFine
  <2> QED
    BY <1>1, <1>5, <2>2, <2>3, Expected
<1> QED
  BY <1>2, <1>3, <1>4, <1>5

-----------------------------------------------------------------------------
(* An extension.                                                           *)

\* The standard extensions that have a field are the ones that are understood.
FieldsFor(id) == {f \in DOMAIN Remembered : Remembered[f] = ID_CE[id]}

LEMMA FieldsOfExtensions ==
    /\ DOMAIN Understood = {"keyUsage", "subjectAltName", "basicConstraints",
                            "nameConstraints", "cRLDistributionPoints", "extKeyUsage"}
    /\ DOMAIN Understood \subseteq DOMAIN ID_CE
    /\ DOMAIN Remembered = {"key_usage", "subject_alt_name", "basic_constraints",
                            "name_constraints", "crl_distribution_points", "eku"}
    /\ \A id \in DOMAIN Understood : /\ Understood[id] \in DOMAIN Remembered
                                     /\ FieldsFor(id) = {Understood[id]}
    /\ \A id \in DOMAIN ID_CE \ DOMAIN Understood : FieldsFor(id) = {}
    /\ \A id \in DOMAIN Understood : Understood[id] = "key_usage" <=> id = "keyUsage"
    /\ \A i, j \in DOMAIN Understood : Understood[i] = Understood[j] => i = j
<1>1. DOMAIN Understood = {"keyUsage", "subjectAltName", "basicConstraints",
                           "nameConstraints", "cRLDistributionPoints", "extKeyUsage"}
  BY DEF Understood
<1>2. DOMAIN Understood \subseteq DOMAIN ID_CE
  BY DEF Understood, ID_CE
<1>3. DOMAIN Remembered = {"key_usage", "subject_alt_name", "basic_constraints",
                           "name_constraints", "crl_distribution_points", "eku"}
  BY DEF Remembered
<1>4. \A id \in DOMAIN Understood : Understood[id] \in DOMAIN Remembered
  BY DEF Understood, Remembered
<1>5. ASSUME NEW id \in DOMAIN Understood PROVE FieldsFor(id) = {Understood[id]}
  BY DEF Understood, Remembered, ID_CE, FieldsFor
<1>6. ASSUME NEW id \in DOMAIN ID_CE \ DOMAIN Understood PROVE FieldsFor(id) = {}
  BY DEF Understood, Remembered, ID_CE, FieldsFor
<1>7. \A id \in DOMAIN Understood : Understood[id] = "key_usage" <=> id = "keyUsage"
  BY DEF Understood
<1>8. \A i, j \in DOMAIN Understood : Understood[i] = Understood[j] => i = j
  BY DEF Understood
<1> QED
  BY <1>1, <1>2, <1>3, <1>4, <1>5, <1>6, <1>7, <1>8

\* What an extension has to be for itself, and the value that is remembered of it.
FineExtension(e) ==
    /\ WellFormedExtension(e)
    /\ IF Id(e) \in DOMAIN Understood
       THEN Id(e) # "keyUsage" => Tags(Content(e)) = << "Sequence" >>
       ELSE ~Critical(e)

ValueOf(e) == IF Id(e) = "keyUsage" THEN Content(e) ELSE Head(Content(e)).content

LEMMA ValueRead ==
    ASSUME NEW field, NEW x, IsSeq(x.value)
    PROVE  LET v == extension_value(field, x)
           IN  /\ v.result = "Ok" <=>
                      (field # "key_usage" => Tags(x.value) = << "Sequence" >>)
               /\ v.result = "Ok" =>
                      v.value = IF field = "key_usage" THEN x.value ELSE Head(x.value).content
<1> DEFINE v == extension_value(field, x)
           d == expect_tag(x.value, "Sequence")
<1>1. CASE field = "key_usage"
  <2>1. v = Ok(x.value)
    BY <1>1 DEF extension_value
  <2> QED
    BY <1>1, <2>1, ResultFacts
<1>2. CASE field # "key_usage"
  <2>1. v = IF d.result # "Ok" THEN d
            ELSE IF d.value.rest # << >> THEN Err("BadDer")
            ELSE Ok(d.value.value)
    BY <1>2 DEF extension_value, read_to_end
  <2>2. Err("BadDer").result # "Ok"
    BY DEF Err
  <2>3. /\ d.result = "Ok" <=> peek(x.value, "Sequence")
        /\ d.result = "Ok" => d.value.value = Head(x.value).content
                              /\ d.value.rest = Tail(x.value)
    BY Expected
  <2>4. Tags(x.value) = << "Sequence" >> <=> peek(x.value, "Sequence") /\ Tail(x.value) = << >>
    BY OnlyElement
  <2> HIDE DEF v, d
  <2>5. /\ v.result = "Ok" <=> d.result = "Ok" /\ d.value.rest = << >>
        /\ v.result = "Ok" => v.value = d.value.value
    BY <2>1, <2>2, ResultFacts
  <2>6. /\ v.result = "Ok" <=> Tags(x.value) = << "Sequence" >>
        /\ v.result = "Ok" => v.value = Head(x.value).content
    BY <2>3, <2>4, <2>5
  <2> QED
    BY <1>2, <2>6 DEF v
<1> QED
  BY <1>1, <1>2

\* remember_cert_extension, by the name of the extension.
LEMMA ExtensionRemembered ==
    ASSUME NEW x, IsSeq(x.value)
    PROVE  LET m == remember_cert_extension(x)
               f == Understood[x.id]
           IN  IF x.id \in DOMAIN Understood
               THEN /\ m.result = "Ok" <=>
                           /\ cert[f] = None
                           /\ x.id # "keyUsage" => Tags(x.value) = << "Sequence" >>
                    /\ m.result = "Ok" =>
                           m.value = [cert EXCEPT ![f] =
                                          Some(IF x.id = "keyUsage" THEN x.value
                                               ELSE Head(x.value).content)]
               ELSE /\ m.result = "Ok" <=> ~x.critical
                    /\ m.result = "Ok" => m.value = cert
<1> DEFINE m == remember_cert_extension(x)
           F == FieldsFor(x.id)
           g == CHOOSE f \in F : TRUE
           set == set_extension_once(cert, g, extension_value(g, x))
           un == unsupported(x, cert)
<1>1. m = IF x.id \in DOMAIN ID_CE THEN IF F = {} THEN un ELSE set ELSE un
  BY DEF remember_cert_extension, remember_extension, FieldsFor
<1>2. CASE x.id \notin DOMAIN Understood
  <2>1. m = un
    <3>1. x.id \in DOMAIN ID_CE => F = {}
      BY <1>2, FieldsOfExtensions
    <3> HIDE DEF m, F, un, set
    <3> QED
      BY <1>1, <3>1
  <2>2. un = IF x.critical THEN Err("UnsupportedCriticalExtension") ELSE Ok(cert)
    BY DEF unsupported
  <2>3. Err("UnsupportedCriticalExtension").result # "Ok"
    BY DEF Err
  <2> HIDE DEF m, un
  <2>4. /\ m.result = "Ok" <=> ~x.critical
        /\ m.result = "Ok" => m.value = cert
    BY <2>1, <2>2, <2>3, ResultFacts
  <2> QED
    BY <1>2, <2>4 DEF m
<1>3. CASE x.id \in DOMAIN Understood
  <2> DEFINE f == Understood[x.id]
             v == extension_value(f, x)
  <2>1. x.id \in DOMAIN ID_CE /\ F = {f} /\ (f = "key_usage" <=> x.id = "keyUsage")
    BY <1>3, FieldsOfExtensions
  <2>2. g = f /\ F # {}
    BY <2>1
  <2>3. m = set_extension_once(cert, f, v)
    BY <1>1, <2>1, <2>2
  <2> DEFINE old == cert[f]
             new == [cert EXCEPT ![f] = Some(v.value)]
  <2>4. m = IF old # << >> THEN Err("ExtensionValueInvalid")
            ELSE IF v.result = "Ok" THEN Ok(new) ELSE v
    BY <2>3 DEF set_extension_once, IsSome, AndThen
  <2>5. Err("ExtensionValueInvalid").result # "Ok"
    BY DEF Err
  <2>6. /\ v.result = "Ok" <=> (f # "key_usage" => Tags(x.value) = << "Sequence" >>)
        /\ v.result = "Ok" =>
               v.value = IF f = "key_usage" THEN x.value ELSE Head(x.value).content
    BY ValueRead
  <2> HIDE DEF m, v, old
  <2>7. /\ m.result = "Ok" <=> old = << >> /\ v.result = "Ok"
        /\ m.result = "Ok" => m.value = new
    <3> HIDE DEF new
    <3> QED
      BY <2>4, <2>5, ResultFacts
  <2>8. m.result = "Ok" <=> /\ cert[f] = None
                            /\ x.id # "keyUsage" => Tags(x.value) = << "Sequence" >>
    BY <2>1, <2>6, <2>7 DEF old, None
  <2>9. m.result = "Ok" => v.value = IF x.id = "keyUsage" THEN x.value
                                     ELSE Head(x.value).content
    BY <2>1, <2>6, <2>7
  <2>10. m.result = "Ok" => m.value = [cert EXCEPT ![f] =
                                          Some(IF x.id = "keyUsage" THEN x.value
                                               ELSE Head(x.value).content)]
    BY <2>7, <2>9
  <2> QED
    BY <1>3, <2>8, <2>10 DEF m
<1> QED
  BY <1>2, <1>3

\* A round of the loop over the extensions: the extension is fine and, if it is
\* understood, new.
Round(reader) == nested_extension(reader, remember_cert_extension)

LEMMA RoundRead ==
    ASSUME NEW reader, NEW e, reader # << >>, Head(reader) = e,
           e.tag = "Sequence" => Reader2(e.content)
    PROVE  LET r == Round(reader)
               f == Understood[Id(e)]
           IN  /\ r.result = "Ok" <=>
                      /\ FineExtension(e)
                      /\ Id(e) \in DOMAIN Understood => cert[f] = None
               /\ r.result = "Ok" =>
                      /\ r.value.rest = Tail(reader)
                      /\ r.value.value = IF Id(e) \in DOMAIN Understood
                                         THEN [cert EXCEPT ![f] = Some(ValueOf(e))]
                                         ELSE cert
<1> DEFINE r == Round(reader)
           outer == expect_tag(reader, "Sequence")
           c == outer.value.value
           ext == Extension_from_der(c)
           x == ext.value.value
           m == remember_cert_extension(x)
           d == IF ext.result = "Ok"
                THEN IF m.result = "Ok" THEN Read(m.value, ext.value.rest) ELSE m
                ELSE ext
           whole == IF d.result # "Ok" THEN d
                    ELSE IF d.value.rest # << >> THEN Err("TrailingData")
                    ELSE Ok(d.value.value)
<1>1. r = IF outer.result # "Ok" THEN Err("TrailingData")
          ELSE IF whole.result = "Ok" THEN Read(whole.value, outer.value.rest) ELSE whole
  BY DEF Round, nested_extension, nested, read_to_end, AndThen
<1>2. Err("TrailingData").result # "Ok"
  BY DEF Err
<1>3. /\ outer.result = "Ok" <=> e.tag = "Sequence"
      /\ outer.result = "Ok" => c = e.content /\ outer.value.rest = Tail(reader)
  BY Expected DEF peek
<1> HIDE DEF r, outer, c, ext, x, m, d, whole
<1>4. /\ d.result = "Ok" <=> ext.result = "Ok" /\ m.result = "Ok"
      /\ d.result = "Ok" => d.value.value = m.value /\ d.value.rest = ext.value.rest
  BY ResultFacts DEF d
<1>5. /\ whole.result = "Ok" <=> d.result = "Ok" /\ d.value.rest = << >>
      /\ whole.result = "Ok" => whole.value = d.value.value
  BY <1>2, ResultFacts DEF whole
<1>6. /\ r.result = "Ok" <=> outer.result = "Ok" /\ whole.result = "Ok"
      /\ r.result = "Ok" => r.value.value = whole.value /\ r.value.rest = outer.value.rest
  BY <1>1, <1>2, ResultFacts
<1>7. /\ r.result = "Ok" <=> /\ e.tag = "Sequence" /\ ext.result = "Ok"
                             /\ ext.value.rest = << >> /\ m.result = "Ok"
      /\ r.result = "Ok" => r.value.value = m.value /\ r.value.rest = Tail(reader)
  BY <1>3, <1>4, <1>5, <1>6
<1>8. WellFormedExtension(e) <=> e.tag = "Sequence" /\ Shape(e.content)
  BY DEF WellFormedExtension, Shape
<1>9. ASSUME e.tag = "Sequence"
      PROVE  /\ ext.result = "Ok" /\ ext.value.rest = << >> <=> Shape(e.content)
             /\ Shape(e.content) => /\ x.id = Id(e) /\ x.value = Content(e)
                                    /\ x.critical <=> Critical(e)
                                    /\ IsSeq(x.value)
  <2>1. c = e.content /\ Reader2(e.content)
    BY <1>3, <1>9
  <2>2. /\ ext.result = "Ok" /\ ext.value.rest = << >> <=> Shape(e.content)
        /\ Shape(e.content) => /\ x.id = Id(e) /\ x.value = Content(e)
                               /\ x.critical <=> Critical(e)
                               /\ Reader1(x.value)
    BY <2>1, ExtensionOf DEF ext, x
  <2> QED
    BY <2>2, ReaderWeaker
<1> DEFINE f == Understood[Id(e)]
           known == Id(e) \in DOMAIN Understood
<1>10. ASSUME e.tag = "Sequence", Shape(e.content)
       PROVE  /\ m.result = "Ok" <=> FineExtension(e) /\ (known => cert[f] = None)
              /\ m.result = "Ok" => m.value = IF known
                                              THEN [cert EXCEPT ![f] = Some(ValueOf(e))]
                                              ELSE cert
  <2>1. x.id = Id(e) /\ x.value = Content(e) /\ (x.critical <=> Critical(e)) /\ IsSeq(x.value)
    BY <1>9, <1>10
  <2>2. CASE known
    <3>1. /\ m.result = "Ok" <=>
                 /\ cert[f] = None
                 /\ Id(e) # "keyUsage" => Tags(Content(e)) = << "Sequence" >>
          /\ m.result = "Ok" =>
                 m.value = [cert EXCEPT ![f] =
                                Some(IF Id(e) = "keyUsage" THEN Content(e)
                                     ELSE Head(Content(e)).content)]
      BY <2>1, <2>2, ExtensionRemembered DEF m
    <3>2. FineExtension(e) <=> (Id(e) # "keyUsage" => Tags(Content(e)) = << "Sequence" >>)
      BY <1>8, <1>10, <2>2 DEF FineExtension
    <3> QED
      BY <2>2, <3>1, <3>2 DEF ValueOf
  <2>3. CASE ~known
    <3>1. /\ m.result = "Ok" <=> ~x.critical
          /\ m.result = "Ok" => m.value = cert
      BY <2>1, <2>3, ExtensionRemembered DEF m
    <3>2. FineExtension(e) <=> ~Critical(e)
      BY <1>8, <1>10, <2>3 DEF FineExtension
    <3> QED
      BY <2>1, <2>3, <3>1, <3>2
  <2> QED
    BY <2>2, <2>3
<1>11. FineExtension(e) => e.tag = "Sequence" /\ Shape(e.content)
  BY <1>8 DEF FineExtension
<1> HIDE DEF known, f
<1>12. r.result = "Ok" <=> FineExtension(e) /\ (known => cert[f] = None)
  BY <1>7, <1>9, <1>10, <1>11
<1>13. r.result = "Ok" => r.value.rest = Tail(reader) /\ r.value.value = m.value
  BY <1>7
<1>14. r.result = "Ok" => m.value = IF known THEN [cert EXCEPT ![f] = Some(ValueOf(e))]
                                    ELSE cert
  BY <1>7, <1>10, <1>11, <1>12
<1> QED
  BY <1>12, <1>13, <1>14 DEF r, known, f

-----------------------------------------------------------------------------
(* Version3, in the order in which the parser finds out.                   *)

\* The extensions are opened, and their list; a certificate without them has none.
Opened(der) ==
    /\ Len(TbsOf(der)) >= 8
    /\ TbsOf(der)[8].tag = "ContextSpecificConstructed3"
    /\ peek(TbsOf(der)[8].content, "Sequence")

ExtensionList(der) ==
    IF Len(TbsOf(der)) = 8 THEN TbsOf(der)[8].content[1].content ELSE << >>

\* The first k extensions are fine and the understood ones are different.
Taken(list, k) ==
    \A i \in 1..k : /\ FineExtension(list[i])
                    /\ Id(list[i]) \in DOMAIN Understood =>
                           \A j \in 1..k \ {i} : Id(list[i]) # Id(list[j])

LEMMA ConformingIsTaken ==
    ASSUME NEW list, IsSeq(list)
    PROVE  Conforming(list) <=> list # << >> /\ Taken(list, Len(list))
<1> DEFINE n == Len(list)
           Parts(i) == IF Id(list[i]) \in DOMAIN Understood
                       THEN /\ Id(list[i]) # "keyUsage" => Tags(Content(list[i])) = << "Sequence" >>
                            /\ \A j \in 1..n \ {i} : Id(list[i]) # Id(list[j])
                       ELSE ~Critical(list[i])
<1>1. DOMAIN list = 1..n
  BY ListFacts
<1>2. Conforming(list) <=> /\ list # << >>
                           /\ \A i \in 1..n : WellFormedExtension(list[i])
                           /\ \A i \in 1..n : Parts(i)
  BY <1>1, Zenon DEF Conforming
<1>3. ASSUME NEW i \in 1..n
      PROVE  WellFormedExtension(list[i]) /\ Parts(i) <=>
                 /\ FineExtension(list[i])
                 /\ Id(list[i]) \in DOMAIN Understood =>
                        \A j \in 1..n \ {i} : Id(list[i]) # Id(list[j])
  BY Zenon DEF FineExtension
<1> HIDE DEF Parts, n
<1> QED
  BY <1>2, <1>3, Zenon DEF Taken, n

\* The readers of a certificate whose outer SEQUENCE is fine.
LEMMA ReadersOf ==
    ASSUME NEW der, Reader7(der), SignedFine(der)
    PROVE  /\ IsSeq(der) /\ IsSeq(der[1].content) /\ Len(der) = 1
           /\ der[1].tag = "Sequence" /\ Len(der[1].content) = 3
           /\ der[1].content[1].tag = "Sequence"
           /\ Reader5(TbsOf(der)) /\ IsSeq(TbsOf(der))
<1>1. IsSeq(der)
  BY DEF Reader7, ReaderOf
<1>2. Len(der) = 1 /\ der[1].tag = "Sequence"
  BY <1>1, TagsOfOne DEF SignedFine
<1>3. Reader6(der[1].content)
  <2>1. 1 \in DOMAIN der
    BY <1>1, <1>2, ListFacts
  <2> QED
    BY <1>2, <2>1 DEF Reader7, ReaderOf
<1> DEFINE body == der[1].content
<1>4. IsSeq(body)
  BY <1>3 DEF Reader6, ReaderOf
<1> HIDE DEF body
<1>5. Len(body) = 3 /\ body[1].tag = "Sequence"
  BY <1>4, TagsOfThree DEF SignedFine, body
<1>6. Reader5(body[1].content)
  <2>1. 1 \in DOMAIN body
    BY <1>4, <1>5, ListFacts
  <2>2. Reader6(body)
    BY <1>3 DEF body
  <2> QED
    BY <1>5, <2>1, <2>2 DEF Reader6, ReaderOf
<1>7. IsSeq(body[1].content)
  BY <1>6 DEF Reader5, ReaderOf
<1> QED
  BY <1>1, <1>2, <1>4, <1>5, <1>6, <1>7 DEF body, TbsOf

\* The first seven tags.
LEMMA SevenTags ==
    ASSUME NEW t, IsSeq(t), Len(t) >= 7
    PROVE  Tags(SubSeq(t, 1, 7)) = << "ContextSpecificConstructed0" >> \o v1_tags <=>
               /\ t[1].tag = "ContextSpecificConstructed0" /\ t[2].tag = "Integer"
               /\ \A i \in 3..7 : t[i].tag = "Sequence"
<1> DEFINE s == SubSeq(t, 1, 7)
           want == << "ContextSpecificConstructed0", "Integer", "Sequence", "Sequence",
                      "Sequence", "Sequence", "Sequence" >>
<1>1. want = << "ContextSpecificConstructed0" >> \o v1_tags
  BY DEF v1_tags
<1>2. s = [i \in 1..7 |-> t[i]]
  BY DEF IsSeq
<1>3. Tags(s) = [i \in 1..7 |-> t[i].tag]
  BY <1>2 DEF Tags
<1>4. /\ DOMAIN want = 1..7 /\ want[1] = "ContextSpecificConstructed0"
      /\ want[2] = "Integer" /\ \A i \in 3..7 : want[i] = "Sequence"
      /\ want = [i \in 1..7 |-> want[i]]
  OBVIOUS
<1> HIDE DEF s, want
<1>5. Tags(s) = want <=> \A i \in 1..7 : t[i].tag = want[i]
  BY <1>3, <1>4
<1>6. (\A i \in 1..7 : t[i].tag = want[i]) <=>
               /\ t[1].tag = "ContextSpecificConstructed0" /\ t[2].tag = "Integer"
               /\ \A i \in 3..7 : t[i].tag = "Sequence"
  BY <1>4
<1> QED
  BY <1>1, <1>5, <1>6 DEF s

LEMMA Version3Parts ==
    ASSUME NEW der, Reader7(der)
    PROVE  Version3(der) <=>
               /\ SignedFine(der)
               /\ Len(TbsOf(der)) \in {7, 8}
               /\ \A k \in 1..7 : FieldFine(der, k)
               /\ Len(TbsOf(der)) = 8 =>
                      /\ Opened(der)
                      /\ Tail(TbsOf(der)[8].content) = << >>
                      /\ ExtensionList(der) # << >>
                      /\ Taken(ExtensionList(der), Len(ExtensionList(der)))
<1> DEFINE t == TbsOf(der)
           l == t[8].content[1].content
           Exts == /\ t[8].tag = "ContextSpecificConstructed3"
                   /\ Tags(t[8].content) = << "Sequence" >>
                   /\ Conforming(l)
<1>1. Version3(der) <=>
          /\ SignedFine(der)
          /\ Len(t) \in {7, 8}
          /\ Tags(SubSeq(t, 1, 7)) = << "ContextSpecificConstructed0" >> \o v1_tags
          /\ t[1].content = << Element("Integer", << 2 >>) >>
          /\ t[3].content = AlgorithmOf(der)
          /\ Len(t) = 8 => Exts
  BY DEF Version3, SignedFine, TbsOf, AlgorithmOf
<1> SUFFICES ASSUME SignedFine(der), Len(t) \in {7, 8}
             PROVE  /\ Tags(SubSeq(t, 1, 7)) = << "ContextSpecificConstructed0" >> \o v1_tags
                       /\ t[1].content = << Element("Integer", << 2 >>) >>
                       /\ t[3].content = AlgorithmOf(der)
                       <=> \A k \in 1..7 : FieldFine(der, k)
                    /\ Len(t) = 8 =>
                          (Exts <=> /\ Opened(der)
                                    /\ Tail(t[8].content) = << >>
                                    /\ ExtensionList(der) # << >>
                                    /\ Taken(ExtensionList(der), Len(ExtensionList(der))))
  <2> HIDE DEF Exts, t
  <2> QED
    BY <1>1 DEF t
<1>2. IsSeq(t) /\ Reader5(t)
  BY ReadersOf
<1>3. Tags(SubSeq(t, 1, 7)) = << "ContextSpecificConstructed0" >> \o v1_tags <=>
          /\ t[1].tag = "ContextSpecificConstructed0" /\ t[2].tag = "Integer"
          /\ \A i \in 3..7 : t[i].tag = "Sequence"
  <2>1. Len(t) >= 7
    OBVIOUS
  <2> HIDE DEF t
  <2> QED
    BY <1>2, <2>1, SevenTags
<1>4. /\ FieldFine(der, 1) <=> /\ t[1].tag = "ContextSpecificConstructed0"
                               /\ t[1].content = << Element("Integer", << 2 >>) >>
      /\ FieldFine(der, 2) <=> t[2].tag = "Integer"
      /\ FieldFine(der, 3) <=> t[3].tag = "Sequence" /\ t[3].content = AlgorithmOf(der)
      /\ \A k \in 4..7 : FieldFine(der, k) <=> t[k].tag = "Sequence"
  BY DEF FieldFine
<1>5. (\A k \in 1..7 : FieldFine(der, k)) <=>
          /\ FieldFine(der, 1) /\ FieldFine(der, 2) /\ FieldFine(der, 3)
          /\ \A k \in 4..7 : FieldFine(der, k)
  OBVIOUS
<1>6. /\ Tags(SubSeq(t, 1, 7)) = << "ContextSpecificConstructed0" >> \o v1_tags
         /\ t[1].content = << Element("Integer", << 2 >>) >>
         /\ t[3].content = AlgorithmOf(der)
      <=> \A k \in 1..7 : FieldFine(der, k)
  <2> DEFINE two == << Element("Integer", << 2 >>) >>
             seven == Tags(SubSeq(t, 1, 7)) = << "ContextSpecificConstructed0" >> \o v1_tags
  <2>1. (\A i \in 3..7 : t[i].tag = "Sequence") <=>
            t[3].tag = "Sequence" /\ \A i \in 4..7 : t[i].tag = "Sequence"
    OBVIOUS
  <2> HIDE DEF two, seven, t
  <2>2. seven <=> /\ t[1].tag = "ContextSpecificConstructed0" /\ t[2].tag = "Integer"
                  /\ t[3].tag = "Sequence" /\ \A i \in 4..7 : t[i].tag = "Sequence"
    BY <1>3, <2>1 DEF seven
  <2> QED
    BY <1>4, <1>5, <2>2 DEF two, seven
<1>7. ASSUME Len(t) = 8
      PROVE  Exts <=> /\ Opened(der)
                      /\ Tail(t[8].content) = << >>
                      /\ ExtensionList(der) # << >>
                      /\ Taken(ExtensionList(der), Len(ExtensionList(der)))
  <2>1. Opened(der) <=> t[8].tag = "ContextSpecificConstructed3" /\ peek(t[8].content, "Sequence")
    BY <1>7 DEF Opened
  <2>2. ExtensionList(der) = l
    BY <1>7 DEF ExtensionList
  <2> HIDE DEF t
  <2>3. ASSUME t[8].tag = "ContextSpecificConstructed3"
        PROVE  Exts <=> /\ peek(t[8].content, "Sequence") /\ Tail(t[8].content) = << >>
                        /\ l # << >> /\ Taken(l, Len(l))
    <3>1. 8 \in DOMAIN t
      BY <1>2, <1>7, ListFacts
    <3>2. Reader4(t[8].content)
      BY <1>2, <2>3, <3>1 DEF Reader5, ReaderOf
    <3> DEFINE w == t[8].content
    <3> HIDE DEF w
    <3>3. IsSeq(w) /\ Reader4(w)
      BY <3>2 DEF Reader4, ReaderOf, w
    <3>4. Tags(w) = << "Sequence" >> <=> peek(w, "Sequence") /\ Tail(w) = << >>
      BY <3>3, OnlyElement
    <3>5. peek(w, "Sequence") => IsSeq(w[1].content)
      <4>1. peek(w, "Sequence") => 1 \in DOMAIN w /\ w[1].tag = "Sequence"
        BY <3>3, PeekFirst
      <4>2. peek(w, "Sequence") => Reader3(w[1].content)
        BY <3>3, <4>1 DEF Reader4, ReaderOf
      <4> QED
        BY <4>2 DEF Reader3, ReaderOf
    <3>6. peek(w, "Sequence") => (Conforming(l) <=> l # << >> /\ Taken(l, Len(l)))
      <4>1. l = w[1].content
        BY DEF w
      <4> HIDE DEF l
      <4> QED
        BY <3>5, <4>1, ConformingIsTaken
    <3> HIDE DEF l
    <3> QED
      BY <2>3, <3>4, <3>6 DEF w
  <2> QED
    BY <2>1, <2>2, <2>3
<1> QED
  BY <1>6, <1>7

-----------------------------------------------------------------------------
(* The inductive invariant: what has been read so far is fine, the readers *)
(* hold the rest, and the certificate holds the values of the extensions   *)
(* that have been taken.                                                   *)

\* The fields of Cert for extensions hold the values of the first k extensions.
Held(list, k) ==
    \A name \in DOMAIN Understood :
        /\ (\A j \in 1..k : Id(list[j]) # name) => cert[Understood[name]] = None
        /\ \A j \in 1..k : Id(list[j]) = name => cert[Understood[name]] = Some(ValueOf(list[j]))

\* The first n mandatory fields have been read.
FieldsDone(n) ==
    /\ SignedFine(cert_der) /\ n <= Len(TbsOf(cert_der))
    /\ \A k \in 1..n : FieldFine(cert_der, k)
    /\ DOMAIN cert = DOMAIN Remembered \cup {"signed_data"} \cup {Fields[i] : i \in 1..n}
    /\ cert.signed_data.algorithm = AlgorithmOf(cert_der)
    /\ n >= 6 => cert.subject = TbsOf(cert_der)[6].content

InSigned ==
    /\ DOMAIN cert = DOMAIN Remembered \cup {"signed_data"}
    /\ \A f \in DOMAIN Remembered : cert[f] = None

InFields ==
    /\ \A f \in DOMAIN Remembered : cert[f] = None
    /\ \E n \in 0..7 : FieldsDone(n) /\ Rest(TbsOf(cert_der), n, tbs)

InExtensions ==
    /\ FieldsDone(7) /\ Opened(cert_der)
    /\ Rest(TbsOf(cert_der), 8, tbs)
    /\ tagged = Tail(TbsOf(cert_der)[8].content)
    /\ LET list == TbsOf(cert_der)[8].content[1].content
       IN  \E k \in Nat : /\ Rest(list, k, extensions) /\ (extensions = << >> => k = 0)
                          /\ Taken(list, k) /\ Held(list, k)

Remembers ==
    /\ cert.subject = TbsOf(cert_der)[6].content
    /\ Held(ExtensionList(cert_der), Len(ExtensionList(cert_der)))

AnchorJustified ==
    anchor.result = "Ok" =>
        \/ anchor_from_v1.result = "Ok"
        \/ result = "Ok" /\ anchor.value.name_constraints = cert.name_constraints

ParseInv ==
    /\ cert_der \in Certificates
    /\ pc \in {"signed", "fields", "extensions", "parsed", "done"}
    /\ pc \in {"signed", "fields", "extensions"} => result = "Ok"
    /\ pc = "signed" => InSigned
    /\ pc = "fields" => InFields
    /\ pc = "extensions" => InExtensions
    /\ pc \in {"parsed", "done"} => /\ result = "Ok" <=> Version3(cert_der)
                                    /\ result = "Ok" => Remembers
    /\ pc = "done" => AnchorJustified

LEMMA InputIsReader == ParseInv => Reader7(cert_der)
  BY CertificatesAssumption DEF ParseInv

\* A failure is right if the certificate is not of version 3.
LEMMA FailKeeps ==
    ASSUME ParseInv, NEW error, error # "Ok", ~Version3(cert_der), Fail(error)
    PROVE  ParseInv'
<1>1. /\ cert_der' = cert_der /\ pc' = "parsed" /\ result' = error
  BY DEF Fail
<1>2. Version3(cert_der)' <=> Version3(cert_der)
  BY <1>1
<1> QED
  BY <1>1, <1>2 DEF ParseInv

LEMMA ParseInitially == Init => ParseInv
<1> SUFFICES ASSUME Init PROVE ParseInv
  OBVIOUS
<1>1. InSigned
  BY DEF Init, InSigned
<1> QED
  BY <1>1 DEF Init, ParseInv

LEMMA SignedKeeps == ParseInv /\ ReadSignedData => ParseInv'
<1> SUFFICES ASSUME ParseInv, ReadSignedData PROVE ParseInv'
  OBVIOUS
<1> DEFINE p == SignedPart(cert_der)
<1>1. /\ pc = "signed"
      /\ IF p.result = "Ok"
         THEN /\ tbs' = p.value.tbs
              /\ cert' = [cert EXCEPT !.signed_data = p.value.signed_data]
              /\ pc' = "fields"
              /\ UNCHANGED << cert_der, tagged, extensions, result, anchor >>
         ELSE Fail(p.result)
  BY DEF ReadSignedData, SignedPart
<1>2. Reader7(cert_der)
  BY InputIsReader
<1>3. /\ p.result = "Ok" <=> SignedFine(cert_der)
      /\ p.result = "Ok" => /\ p.value.tbs = TbsOf(cert_der)
                            /\ p.value.signed_data.algorithm = AlgorithmOf(cert_der)
  BY <1>2, SignedRead
<1> HIDE DEF p
<1>4. CASE p.result # "Ok"
  <2>1. ~Version3(cert_der)
    BY <1>2, <1>3, <1>4, Version3Parts
  <2>2. Fail(p.result)
    BY <1>1, <1>4
  <2> QED
    BY <1>4, <2>1, <2>2, FailKeeps
<1>5. CASE p.result = "Ok"
  <2>1. /\ InSigned /\ tbs' = TbsOf(cert_der) /\ cert_der' = cert_der
        /\ cert' = [cert EXCEPT !.signed_data = p.value.signed_data]
        /\ pc' = "fields" /\ result' = "Ok"
    BY <1>1, <1>3, <1>5 DEF ParseInv
  <2>2. "signed_data" \notin DOMAIN Remembered
    BY FieldsOfExtensions
  <2>3. /\ DOMAIN cert' = DOMAIN Remembered \cup {"signed_data"}
        /\ \A f \in DOMAIN Remembered : cert'[f] = None
        /\ cert'.signed_data = p.value.signed_data
    BY <2>1, <2>2 DEF InSigned
  <2>4. IsSeq(TbsOf(cert_der))
    BY <1>2, <1>3, <1>5, ReadersOf
  <2>5. Rest(TbsOf(cert_der), 0, TbsOf(cert_der)) /\ Len(TbsOf(cert_der)) \in Nat
    BY <2>4, RestOfAll, ListFacts
  <2>6. FieldsDone(0)'
    <3>1. {Fields[i] : i \in 1..0} = {}
      OBVIOUS
    <3>2. ~(0 >= 6) /\ 0 <= Len(TbsOf(cert_der))
      BY <2>5
    <3> QED
      BY <1>3, <1>5, <2>1, <2>3, <3>1, <3>2 DEF FieldsDone
  <2>7. InFields'
    <3>1. 0 \in 0..7
      OBVIOUS
    <3> QED
      BY <2>1, <2>3, <2>5, <2>6, <3>1 DEF InFields
  <2> QED
    BY <2>1, <2>7 DEF ParseInv
<1> QED
  BY <1>4, <1>5

\* The first n fields have been read, and no other.
LEMMA UnreadFields ==
    ASSUME NEW n \in 0..7, FieldsDone(n)
    PROVE  /\ Unread = (n + 1)..7
           /\ n < 7 => Unread # {} /\ Min(Unread) = n + 1
<1>1. DOMAIN cert = DOMAIN Remembered \cup {"signed_data"} \cup {Fields[i] : i \in 1..n}
  BY DEF FieldsDone
<1>2. \A i \in 1..7 : Fields[i] \in DOMAIN cert <=> i \in 1..n
  <2>1. \A i \in 1..7 : Fields[i] \notin DOMAIN Remembered \cup {"signed_data"}
    BY FieldNames, FieldsOfExtensions
  <2>2. \A i, j \in 1..7 : Fields[i] = Fields[j] => i = j
    BY FieldNames
  <2>3. \A i \in 1..7 : Fields[i] \in {Fields[j] : j \in 1..n} <=> i \in 1..n
    BY <2>2
  <2> QED
    BY <1>1, <2>1, <2>3
<1>3. Unread = {i \in 1..7 : i \notin 1..n}
  BY <1>2, FieldNames DEF Unread
<1>4. {i \in 1..7 : i \notin 1..n} = (n + 1)..7
  OBVIOUS
<1>5. n < 7 => Unread # {} /\ Min(Unread) = n + 1
  <2> SUFFICES ASSUME n < 7 PROVE Unread # {} /\ Min(Unread) = n + 1
    OBVIOUS
  <2>1. n + 1 \in Unread /\ Unread \in SUBSET (1..7) /\ \A i \in Unread : n + 1 <= i
    BY <1>3, <1>4
  <2> QED
    BY <2>1, FirstIsMin
<1> QED
  BY <1>3, <1>4, <1>5

LEMMA FieldKeeps == ParseInv /\ ReadField => ParseInv'
<1> SUFFICES ASSUME ParseInv, ReadField PROVE ParseInv'
  OBVIOUS
<1> DEFINE t == TbsOf(cert_der)
<1>1. pc = "fields" /\ Unread # {} /\ InFields
  BY DEF ReadField, ParseInv
<1>2. PICK n \in 0..7 : FieldsDone(n) /\ Rest(t, n, tbs)
  BY <1>1 DEF InFields
<1>3. n < 7 /\ Min(Unread) = n + 1
  <2>1. Unread = (n + 1)..7
    BY <1>2, UnreadFields
  <2>2. n < 7
    BY <1>1, <2>1
  <2> QED
    BY <1>2, <2>2, UnreadFields
<1> DEFINE k == n + 1
           read == read_field(Fields[k])
<1>4. k \in 1..7
  BY <1>3
<1>5. IF read.result = "Ok"
      THEN /\ cert' = [f \in DOMAIN cert \cup {Fields[k]} |->
                        IF f = Fields[k] THEN read.value.value ELSE cert[f]]
           /\ tbs' = read.value.rest
           /\ UNCHANGED << cert_der, pc, tagged, extensions, result, anchor >>
      ELSE Fail(read.result)
  <2>1. Fields[Min(Unread)] = Fields[k]
    BY <1>3
  <2> QED
    BY <2>1 DEF ReadField
<1>6. Reader7(cert_der) /\ SignedFine(cert_der)
  BY <1>2, InputIsReader DEF FieldsDone
<1>7. Reader5(t) /\ IsSeq(t)
  BY <1>6, ReadersOf
<1> HIDE DEF t, read
<1>8. /\ tbs = << >> <=> n = Len(t)
      /\ Len(t) \in Nat /\ DOMAIN t = 1..Len(t)
      /\ tbs # << >> => k \in DOMAIN t /\ Head(tbs) = t[k] /\ Rest(t, k, Tail(tbs))
  BY <1>2, RestConsumed
<1>9. peek(tbs, "ContextSpecificConstructed0") => Reader1(Head(tbs).content)
  <2>1. peek(tbs, "ContextSpecificConstructed0") =>
            k \in DOMAIN t /\ Head(tbs) = t[k] /\ t[k].tag = "ContextSpecificConstructed0"
    BY <1>8 DEF peek
  <2>2. peek(tbs, "ContextSpecificConstructed0") => Reader4(Head(tbs).content)
    BY <1>7, <2>1 DEF Reader5, ReaderOf
  <2> QED
    BY <2>2, ReaderWeaker
<1>10. /\ read.result = "Ok" <=> tbs # << >> /\ FieldFine(cert_der, k)
       /\ read.result = "Ok" => /\ read.value.rest = Tail(tbs)
                                /\ k = 6 => read.value.value = Head(tbs).content
  <2>1. IsSeq(tbs) /\ cert.signed_data.algorithm = AlgorithmOf(cert_der)
    BY <1>2 DEF Rest, FieldsDone
  <2>2. tbs # << >> => Head(tbs) = TbsOf(cert_der)[k]
    BY <1>8 DEF t
  <2> HIDE DEF k
  <2> QED
    BY <1>4, <1>9, <2>1, <2>2, FieldRead DEF read
<1>11. CASE read.result # "Ok"
  <2>1. ~Version3(cert_der)
    <3> SUFFICES ASSUME Version3(cert_der) PROVE FALSE
      OBVIOUS
    <3>1. Len(t) \in {7, 8} /\ \A i \in 1..7 : FieldFine(cert_der, i)
      BY <1>6, Version3Parts DEF t
    <3>2. n # Len(t)
      <4>1. n < 7 /\ n \in Nat
        BY <1>3
      <4> DEFINE m == Len(t)
      <4>2. m = 7 \/ m = 8
        BY <3>1
      <4> HIDE DEF m
      <4>3. n # m
        BY <4>1, <4>2
      <4> QED
        BY <4>3 DEF m
    <3>3. tbs # << >>
      BY <1>8, <3>2
    <3> QED
      BY <1>4, <1>10, <1>11, <3>1, <3>3
  <2> QED
    BY <1>5, <1>11, <2>1, FailKeeps
<1>12. CASE read.result = "Ok"
  <2>1. /\ tbs' = Tail(tbs) /\ cert_der' = cert_der /\ pc' = "fields" /\ result' = "Ok"
        /\ cert' = [f \in DOMAIN cert \cup {Fields[k]} |->
                        IF f = Fields[k] THEN read.value.value ELSE cert[f]]
    BY <1>1, <1>5, <1>10, <1>12 DEF ParseInv
  <2>2. DOMAIN cert = DOMAIN Remembered \cup {"signed_data"} \cup {Fields[i] : i \in 1..n}
    BY <1>2 DEF FieldsDone
  <2>3. Fields[k] \notin DOMAIN cert
    <3>1. k \in Unread
      BY <1>2, <1>4, UnreadFields
    <3> QED
      BY <3>1 DEF Unread
  <2>4. /\ DOMAIN cert' = DOMAIN cert \cup {Fields[k]}
        /\ \A f \in DOMAIN cert : cert'[f] = cert[f]
        /\ cert'[Fields[k]] = read.value.value
    <3> HIDE DEF k
    <3> QED
      BY <2>1, <2>3
  <2>5. FieldsDone(k)'
    <3>1. DOMAIN cert' = DOMAIN Remembered \cup {"signed_data"} \cup {Fields[i] : i \in 1..k}
      <4>1. {Fields[i] : i \in 1..k} = {Fields[i] : i \in 1..n} \cup {Fields[k]}
        <5>1. 1..k = 1..n \cup {k}
          BY <1>4
        <5> HIDE DEF k
        <5> QED
          BY <5>1
      <4> HIDE DEF k
      <4> QED
        BY <2>2, <2>4, <4>1
    <3>2. cert'.signed_data.algorithm = AlgorithmOf(cert_der)
      <4>1. "signed_data" \in DOMAIN cert /\ cert.signed_data.algorithm = AlgorithmOf(cert_der)
        BY <1>2, <2>2 DEF FieldsDone
      <4> HIDE DEF k
      <4> QED
        BY <2>4, <4>1
    <3>3. k <= Len(t) /\ \A i \in 1..k : FieldFine(cert_der, i)
      <4>1. \A i \in 1..n : FieldFine(cert_der, i)
        BY <1>2 DEF FieldsDone
      <4>2. \A i \in 1..k : i \in 1..n \/ i = k
        BY <1>4
      <4>3. k <= Len(t)
        <5>1. k \in 1..Len(t) /\ Len(t) \in Nat
          BY <1>8, <1>10, <1>12
        <5> HIDE DEF k
        <5> QED
          BY <5>1
      <4> QED
        BY <1>10, <1>12, <4>1, <4>2, <4>3
    <3>4. k >= 6 => cert'.subject = t[6].content
      <4>1. CASE k = 6
        <5>1. Fields[k] = "subject" /\ read.value.value = t[6].content
          BY <1>8, <1>10, <1>12, <4>1, FieldNames
        <5> QED
          BY <2>4, <5>1
      <4>2. CASE k > 6
        <5>1. cert.subject = t[6].content /\ 6 \in 1..n /\ n \in Nat
          BY <1>2, <4>2 DEF FieldsDone, t
        <5>2. "subject" \in {Fields[i] : i \in 1..n}
          BY <5>1, FieldNames
        <5>3. "subject" \in DOMAIN cert
          BY <2>2, <5>2
        <5> HIDE DEF k
        <5> QED
          BY <2>4, <5>1, <5>3
      <4> QED
        BY <1>4, <4>1, <4>2
    <3> HIDE DEF k
    <3> QED
      BY <1>6, <2>1, <3>1, <3>2, <3>3, <3>4 DEF FieldsDone, t
  <2>6. \A f \in DOMAIN Remembered : cert'[f] = None
    <3> HIDE DEF k
    <3> QED
      BY <1>1, <2>2, <2>4 DEF InFields
  <2>7. Rest(t, k, Tail(tbs))
    BY <1>8, <1>10, <1>12
  <2>8. InFields'
    <3>1. k \in 0..7
      BY <1>4
    <3> HIDE DEF k
    <3> QED
      BY <2>1, <2>5, <2>6, <2>7, <3>1 DEF InFields, t
  <2> QED
    BY <2>1, <2>8 DEF ParseInv
<1> QED
  BY <1>11, <1>12

\* All mandatory fields have been read.
LEMMA AllFields ==
    ASSUME ParseInv, pc = "fields", Unread = {}
    PROVE  /\ FieldsDone(7) /\ Rest(TbsOf(cert_der), 7, tbs)
           /\ \A f \in DOMAIN Remembered : cert[f] = None
<1>1. InFields
  BY DEF ParseInv
<1>2. PICK n \in 0..7 : FieldsDone(n) /\ Rest(TbsOf(cert_der), n, tbs)
  BY <1>1 DEF InFields
<1>3. ~(n < 7)
  BY <1>2, UnreadFields
<1>4. n = 7
  BY <1>3
<1> QED
  BY <1>1, <1>2, <1>4 DEF InFields

\* With no extension taken, no field holds one.
LEMMA NoneHeld ==
    ASSUME \A f \in DOMAIN Remembered : cert[f] = None, NEW list
    PROVE  Taken(list, 0) /\ Held(list, 0)
<1>1. \A j \in 1..0 : FALSE
  OBVIOUS
<1> QED
  BY <1>1, FieldsOfExtensions DEF Taken, Held

LEMMA NoExtensionsKeeps == ParseInv /\ NoExtensions => ParseInv'
<1> SUFFICES ASSUME ParseInv, NoExtensions PROVE ParseInv'
  OBVIOUS
<1> DEFINE t == TbsOf(cert_der)
           n == Len(t)
<1>1. pc = "fields" /\ Unread = {} /\ tbs = << >> /\ pc' = "parsed"
      /\ UNCHANGED << cert_der, tbs, tagged, extensions, cert, result, anchor >>
  BY DEF NoExtensions
<1>2. FieldsDone(7) /\ Rest(t, 7, tbs) /\ \A f \in DOMAIN Remembered : cert[f] = None
  BY <1>1, AllFields
<1>3. n = 7
  <2> HIDE DEF t
  <2> QED
    BY <1>1, <1>2, RestConsumed
<1> HIDE DEF n
<1>4. ~(n = 8) /\ n \in {7, 8}
  BY <1>3
<1>5. ExtensionList(cert_der) = << >> /\ Len(<< >>) = 0
  BY <1>4 DEF ExtensionList, n
<1>6. Version3(cert_der)
  BY <1>2, <1>4, InputIsReader, Version3Parts DEF FieldsDone, n
<1>7. Remembers
  <2>1. Held(<< >>, 0)
    BY <1>2, NoneHeld
  <2>2. cert.subject = t[6].content
    BY <1>2 DEF FieldsDone
  <2> QED
    BY <1>5, <2>1, <2>2 DEF Remembers
<1>8. Version3(cert_der)' /\ Remembers'
  BY <1>1, <1>6, <1>7 DEF Remembers, Held
<1>9. result' = "Ok" /\ cert_der' \in Certificates /\ pc' = "parsed"
  BY <1>1 DEF ParseInv
<1> QED
  BY <1>8, <1>9 DEF ParseInv

\* The list of extensions is a reader, three deep.
LEMMA ListOfExtensions ==
    ASSUME ParseInv, SignedFine(cert_der), Opened(cert_der)
    PROVE  LET w == TbsOf(cert_der)[8].content
           IN  /\ IsSeq(w) /\ Head(w) = w[1] /\ IsSeq(Tail(w))
               /\ w[1].tag = "Sequence" /\ Reader3(w[1].content) /\ IsSeq(w[1].content)
<1> DEFINE t == TbsOf(cert_der)
           w == t[8].content
<1>1. Reader5(t) /\ IsSeq(t)
  BY InputIsReader, ReadersOf
<1>2. Len(t) >= 8 /\ t[8].tag = "ContextSpecificConstructed3" /\ peek(w, "Sequence")
  BY DEF Opened
<1> HIDE DEF t
<1>3. 8 \in DOMAIN t
  BY <1>1, <1>2, ListFacts
<1>4. Reader4(w)
  BY <1>1, <1>2, <1>3 DEF Reader5, ReaderOf
<1> HIDE DEF w
<1>5. IsSeq(w)
  BY <1>4 DEF Reader4, ReaderOf
<1>6. 1 \in DOMAIN w /\ Head(w) = w[1] /\ IsSeq(Tail(w)) /\ w[1].tag = "Sequence"
  BY <1>2, <1>5, PeekFirst
<1>7. Reader3(w[1].content)
  BY <1>4, <1>6 DEF Reader4, ReaderOf
<1>8. IsSeq(w[1].content)
  BY <1>7 DEF Reader3, ReaderOf
<1> QED
  BY <1>5, <1>6, <1>7, <1>8 DEF w, t

LEMMA OpenKeeps == ParseInv /\ OpenExtensions => ParseInv'
<1> SUFFICES ASSUME ParseInv, OpenExtensions PROVE ParseInv'
  OBVIOUS
<1> DEFINE t == TbsOf(cert_der)
           w == t[8].content
           open == /\ peek(tbs, "ContextSpecificConstructed3")
                   /\ peek(Head(tbs).content, "Sequence")
<1>1. /\ pc = "fields" /\ Unread = {} /\ tbs # << >>
      /\ IF open
         THEN /\ tbs' = Tail(tbs)
              /\ tagged' = Tail(Head(tbs).content)
              /\ extensions' = Head(Head(tbs).content).content
              /\ pc' = "extensions"
              /\ UNCHANGED << cert_der, cert, result, anchor >>
         ELSE Fail("TrailingData")
  BY DEF OpenExtensions
<1>2. FieldsDone(7) /\ Rest(t, 7, tbs) /\ \A f \in DOMAIN Remembered : cert[f] = None
  BY <1>1, AllFields
<1>3. Head(tbs) = t[8] /\ Rest(t, 8, Tail(tbs)) /\ Len(t) \in Nat /\ Len(t) >= 8
  <2> DEFINE n == Len(t)
  <2>1. 7 + 1 \in 1..n /\ n \in Nat /\ Head(tbs) = t[7 + 1] /\ Rest(t, 7 + 1, Tail(tbs))
    <3>1. tbs # << >> /\ Rest(t, 7, tbs)
      BY <1>1, <1>2
    <3> HIDE DEF t, open
    <3>2. /\ Len(t) \in Nat /\ DOMAIN t = 1..Len(t) /\ 7 + 1 \in DOMAIN t
          /\ Head(tbs) = t[7 + 1] /\ Rest(t, 7 + 1, Tail(tbs))
      BY <3>1, RestConsumed
    <3> QED
      BY <3>2
  <2> HIDE DEF n, t
  <2>2. 8 \in 1..n /\ n \in Nat /\ Head(tbs) = t[8] /\ Rest(t, 8, Tail(tbs))
    BY <2>1
  <2>3. n >= 8
    BY <2>2
  <2> QED
    BY <2>2, <2>3 DEF n
<1>4. open <=> Opened(cert_der)
  BY <1>1, <1>3 DEF peek, Opened
<1> HIDE DEF open
<1>5. CASE ~open
  <2>1. ~Version3(cert_der)
    <3> SUFFICES ASSUME Version3(cert_der) PROVE FALSE
      OBVIOUS
    <3>1. /\ Len(t) \in {7, 8}
          /\ Len(t) = 8 => Opened(cert_der)
      BY InputIsReader, Version3Parts
    <3> DEFINE n == Len(t)
    <3>2. (n = 7 \/ n = 8) /\ n >= 8 /\ (n = 8 => Opened(cert_der))
      BY <1>3, <3>1
    <3> HIDE DEF n
    <3> QED
      BY <1>4, <1>5, <3>2
  <2> QED
    BY <1>1, <1>5, <2>1, FailKeeps
<1>6. CASE open
  <2>1. /\ tbs' = Tail(tbs) /\ pc' = "extensions" /\ cert_der' = cert_der /\ cert' = cert
        /\ result' = "Ok" /\ tagged' = Tail(w) /\ extensions' = Head(w).content
    BY <1>1, <1>3, <1>6 DEF ParseInv
  <2>2. SignedFine(cert_der) /\ Opened(cert_der)
    BY <1>2, <1>4, <1>6 DEF FieldsDone
  <2>3. Head(w) = w[1] /\ IsSeq(w[1].content)
    BY <2>2, ListOfExtensions
  <2> DEFINE list == w[1].content
  <2> HIDE DEF list
  <2>4. Rest(list, 0, extensions')
    BY <2>1, <2>3, RestOfAll DEF list
  <2>5. Taken(list, 0) /\ Held(list, 0)
    BY <1>2, NoneHeld
  <2>6. FieldsDone(7)'
    BY <1>2, <2>1 DEF FieldsDone
  <2>7. Held(list, 0)'
    BY <2>1, <2>5 DEF Held, list
  <2>8. InExtensions'
    <3>1. 0 \in Nat
      OBVIOUS
    <3>2. list' = list /\ t' = t
      BY <2>1 DEF list
    <3>3. list = TbsOf(cert_der')[8].content[1].content /\ w = TbsOf(cert_der')[8].content
      BY <2>1 DEF list
    <3>4. /\ Opened(cert_der') /\ Rest(TbsOf(cert_der'), 8, tbs')
          /\ tagged' = Tail(TbsOf(cert_der')[8].content)
      BY <1>3, <2>1, <2>2
    <3> QED
      BY <2>4, <2>5, <2>6, <2>7, <3>1, <3>2, <3>3, <3>4 DEF InExtensions
  <2> QED
    BY <2>1, <2>8 DEF ParseInv
<1> QED
  BY <1>5, <1>6

LEMMA NothingFollows ==
    ASSUME NEW r, NEW s, IsSeq(r), IsSeq(s)
    PROVE  r \o s = << >> <=> r = << >> /\ s = << >>
<1> DEFINE R == {r[i] : i \in DOMAIN r}
           S == {s[i] : i \in DOMAIN s}
<1>1. r \in Seq(R) /\ s \in Seq(S)
  BY DEF IsSeq
<1> HIDE DEF R, S
<1>2. r \in Seq(R \cup S) /\ s \in Seq(R \cup S)
  BY <1>1
<1>3. Len(r \o s) = Len(r) + Len(s) /\ Len(r) \in Nat /\ Len(s) \in Nat
  BY <1>2
<1>4. (r = << >> <=> Len(r) = 0) /\ (s = << >> <=> Len(s) = 0)
  BY ListFacts
<1>5. r \o s = << >> => Len(r \o s) = 0
  OBVIOUS
<1>6. r = << >> /\ s = << >> => r \o s = << >>
  OBVIOUS
<1> QED
  BY <1>3, <1>4, <1>5, <1>6

\* One more extension: what is asked of it, and what follows if it is refused.
LEMMA TakenMore ==
    ASSUME NEW list, NEW k \in Nat, Taken(list, k)
    PROVE  Taken(list, k + 1) <=>
               /\ FineExtension(list[k + 1])
               /\ Id(list[k + 1]) \in DOMAIN Understood =>
                      \A j \in 1..k : Id(list[j]) # Id(list[k + 1])
<1> DEFINE n == k + 1
           e == list[n]
<1>1. \A i \in 1..n : i \in 1..k \/ i = n
  OBVIOUS
<1>2. n \in 1..n /\ \A i \in 1..k : i \in 1..n /\ i # n
  OBVIOUS
<1> HIDE DEF n
<1>3. ASSUME Taken(list, n)
      PROVE  /\ FineExtension(e)
             /\ Id(e) \in DOMAIN Understood => \A j \in 1..k : Id(list[j]) # Id(e)
  BY <1>2, <1>3, Zenon DEF Taken
<1>4. ASSUME FineExtension(e),
             Id(e) \in DOMAIN Understood => \A j \in 1..k : Id(list[j]) # Id(e)
      PROVE  Taken(list, n)
  <2> SUFFICES ASSUME NEW i \in 1..n
               PROVE  /\ FineExtension(list[i])
                      /\ Id(list[i]) \in DOMAIN Understood =>
                             \A j \in 1..n \ {i} : Id(list[i]) # Id(list[j])
    BY Zenon DEF Taken
  <2>1. CASE i = n
    <3>1. \A j \in 1..n \ {i} : j \in 1..k
      BY <1>1, <2>1
    <3> QED
      BY <1>4, <2>1, <3>1, Zenon
  <2>2. CASE i \in 1..k
    <3>1. \A j \in 1..n \ {i} : j \in 1..k \ {i} \/ j = n
      BY <1>1
    <3>2. /\ FineExtension(list[i])
          /\ Id(list[i]) \in DOMAIN Understood =>
                 \A j \in 1..k \ {i} : Id(list[i]) # Id(list[j])
      BY <2>2, Zenon DEF Taken
    <3>3. Id(list[i]) \in DOMAIN Understood => Id(list[i]) # Id(e)
      BY <1>4, <2>2, Zenon
    <3> QED
      BY <3>1, <3>2, <3>3, Zenon
  <2> QED
    BY <1>1, <2>1, <2>2
<1> QED
  BY <1>3, <1>4 DEF n

LEMMA TakenFewer ==
    ASSUME NEW list, NEW k \in Nat, NEW n \in Nat, k <= n, Taken(list, n)
    PROVE  Taken(list, k)
<1>1. \A i \in 1..k : i \in 1..n
  OBVIOUS
<1> QED
  BY <1>1, Zenon DEF Taken

\* What the certificate holds after one more extension.
LEMMA HeldMore ==
    ASSUME NEW list, NEW k \in Nat, Held(list, k),
           LET id == Id(list[k + 1])
               f == Understood[id]
           IN  /\ id \in DOMAIN Understood =>
                      /\ \A j \in 1..k : Id(list[j]) # id
                      /\ DOMAIN cert' = DOMAIN cert
                      /\ cert'[f] = Some(ValueOf(list[k + 1]))
                      /\ \A g \in DOMAIN Remembered \ {f} : cert'[g] = cert[g]
               /\ id \notin DOMAIN Understood => cert' = cert
    PROVE  \A name \in DOMAIN Understood :
        /\ (\A j \in 1..(k + 1) : Id(list[j]) # name) => cert'[Understood[name]] = None
        /\ \A j \in 1..(k + 1) :
               Id(list[j]) = name => cert'[Understood[name]] = Some(ValueOf(list[j]))
<1> DEFINE n == k + 1
           id == Id(list[n])
<1>1. \A i \in 1..n : i \in 1..k \/ i = n
  OBVIOUS
<1>2. n \in 1..n /\ \A i \in 1..k : i \in 1..n /\ i # n
  OBVIOUS
<1> HIDE DEF n
<1>3. /\ id \in DOMAIN Understood =>
             /\ \A j \in 1..k : Id(list[j]) # id
             /\ cert'[Understood[id]] = Some(ValueOf(list[n]))
             /\ \A g \in DOMAIN Remembered \ {Understood[id]} : cert'[g] = cert[g]
      /\ id \notin DOMAIN Understood => cert' = cert
  BY Zenon DEF n
<1> HIDE DEF id
<1> SUFFICES ASSUME NEW name \in DOMAIN Understood
             PROVE  /\ (\A j \in 1..n : Id(list[j]) # name) => cert'[Understood[name]] = None
                    /\ \A j \in 1..n : Id(list[j]) = name =>
                           cert'[Understood[name]] = Some(ValueOf(list[j]))
  BY DEF n
<1>4. /\ (\A j \in 1..k : Id(list[j]) # name) => cert[Understood[name]] = None
      /\ \A j \in 1..k : Id(list[j]) = name =>
             cert[Understood[name]] = Some(ValueOf(list[j]))
  BY Zenon DEF Held
<1>5. CASE id = name
  <2>1. \A j \in 1..n : Id(list[j]) = name => j = n
    BY <1>1, <1>3, <1>5, Zenon
  <2>2. cert'[Understood[name]] = Some(ValueOf(list[n]))
    BY <1>3, <1>5, Zenon
  <2>3. ~(\A j \in 1..n : Id(list[j]) # name)
    BY <1>2, <1>5, Zenon DEF id
  <2> QED
    BY <2>1, <2>2, <2>3, Zenon
<1>6. CASE id # name
  <2>1. cert'[Understood[name]] = cert[Understood[name]]
    <3>1. CASE id \notin DOMAIN Understood
      BY <1>3, <3>1, Zenon
    <3>2. CASE id \in DOMAIN Understood
      <4>1. Understood[name] \in DOMAIN Remembered \ {Understood[id]}
        BY <1>6, <3>2, FieldsOfExtensions
      <4> QED
        BY <1>3, <3>2, <4>1, Zenon
    <3> QED
      BY <3>1, <3>2
  <2>2. \A j \in 1..n : Id(list[j]) = name => j \in 1..k
    BY <1>1, <1>6, Zenon DEF id
  <2> QED
    BY <1>2, <1>4, <2>1, <2>2, Zenon
<1> QED
  BY <1>5, <1>6

\* A field is free iff no extension taken has its name.
LEMMA FieldFree ==
    ASSUME NEW list, NEW k \in Nat, Held(list, k), NEW name \in DOMAIN Understood
    PROVE  cert[Understood[name]] = None <=> \A j \in 1..k : Id(list[j]) # name
<1>1. \A x : Some(x) # None
  BY DEF Some, None
<1> QED
  BY <1>1, Zenon DEF Held

LEMMA NothingToRead == Round(<< >>).result # "Ok"
<1> DEFINE outer == expect_tag(<< >>, "Sequence")
<1>1. outer.result # "Ok"
  BY DEF expect_tag, peek, Err
<1>2. Round(<< >>) = Err("TrailingData")
  <2>1. \A a, b : (IF outer.result # "Ok" THEN a ELSE b) = a
    BY <1>1
  <2> HIDE DEF outer
  <2> QED
    BY <2>1, <1>1 DEF Round, nested_extension, nested, outer
<1> QED
  BY <1>2 DEF Err

LEMMA RememberKeeps == ParseInv /\ RememberExtension => ParseInv'
<1> SUFFICES ASSUME ParseInv, RememberExtension PROVE ParseInv'
  OBVIOUS
<1> DEFINE t == TbsOf(cert_der)
           w == t[8].content
           list == w[1].content
           read == Round(extensions)
           last == read.value.rest = << >>
           more == tagged \o tbs # << >>
<1>1. /\ pc = "extensions"
      /\ IF read.result # "Ok" THEN Fail(read.result)
         ELSE IF last /\ more THEN Fail("TrailingData")
         ELSE /\ cert' = read.value.value
              /\ extensions' = read.value.rest
              /\ pc' = IF last THEN "parsed" ELSE pc
              /\ UNCHANGED << cert_der, tbs, tagged, result, anchor >>
  BY DEF RememberExtension, Round
<1>2. /\ FieldsDone(7) /\ Opened(cert_der) /\ Rest(t, 8, tbs) /\ tagged = Tail(w)
      /\ \E k \in Nat : /\ Rest(list, k, extensions) /\ (extensions = << >> => k = 0)
                        /\ Taken(list, k) /\ Held(list, k)
  BY <1>1 DEF ParseInv, InExtensions
<1>3. PICK k \in Nat : /\ Rest(list, k, extensions) /\ (extensions = << >> => k = 0)
                       /\ Taken(list, k) /\ Held(list, k)
  BY <1>2
<1>4. SignedFine(cert_der) /\ Reader7(cert_der)
  BY <1>2, InputIsReader DEF FieldsDone
<1>5. IsSeq(Tail(w)) /\ Reader3(list) /\ IsSeq(list)
  BY <1>2, <1>4, ListOfExtensions
<1>6. Version3(cert_der) => /\ Len(t) = 8 /\ Tail(w) = << >>
                            /\ list # << >> /\ Taken(list, Len(list))
  <2> SUFFICES ASSUME Version3(cert_der)
               PROVE  /\ Len(t) = 8 /\ Tail(w) = << >>
                      /\ list # << >> /\ Taken(list, Len(list))
    OBVIOUS
  <2>1. Len(t) \in {7, 8} /\ Len(t) >= 8
    BY <1>2, <1>4, Version3Parts DEF Opened
  <2>2. Len(t) = 8
    <3> DEFINE n == Len(t)
    <3>1. (n = 7 \/ n = 8) /\ n >= 8
      BY <2>1
    <3> HIDE DEF n
    <3>2. n = 8
      BY <3>1
    <3> QED
      BY <3>2 DEF n
  <2>3. ExtensionList(cert_der) = list
    BY <2>2 DEF ExtensionList
  <2> QED
    BY <1>4, <2>2, <2>3, Version3Parts
<1> HIDE DEF list
<1> DEFINE m == Len(list)
<1>7. /\ extensions = << >> <=> k = m
      /\ m \in Nat /\ k <= m /\ DOMAIN list = 1..m
      /\ extensions # << >> => /\ k + 1 \in DOMAIN list /\ Head(extensions) = list[k + 1]
                               /\ Rest(list, k + 1, Tail(extensions))
  BY <1>3, RestConsumed
<1> HIDE DEF m
<1> DEFINE n == k + 1
           e == list[n]
           id == Id(e)
           f == Understood[id]
           known == id \in DOMAIN Understood
<1>8. ASSUME extensions # << >>
      PROVE  /\ read.result = "Ok" <=> Taken(list, n)
             /\ read.result = "Ok" =>
                    /\ read.value.rest = Tail(extensions)
                    /\ read.value.value = IF known THEN [cert EXCEPT ![f] = Some(ValueOf(e))]
                                          ELSE cert
  <2>1. Head(extensions) = e /\ (e.tag = "Sequence" => Reader2(e.content))
    <3>1. n \in DOMAIN list /\ Head(extensions) = e
      BY <1>7, <1>8
    <3> HIDE DEF n, e
    <3>2. list[n].tag = "Sequence" => Reader2(list[n].content)
      BY <1>5, <3>1 DEF Reader3, ReaderOf
    <3> QED
      BY <3>1, <3>2 DEF e
  <2> HIDE DEF n
  <2>2. /\ read.result = "Ok" <=> FineExtension(e) /\ (known => cert[f] = None)
        /\ read.result = "Ok" =>
               /\ read.value.rest = Tail(extensions)
               /\ read.value.value = IF known THEN [cert EXCEPT ![f] = Some(ValueOf(e))]
                                     ELSE cert
    <3> HIDE DEF e
    <3> QED
      BY <1>8, <2>1, RoundRead
  <2>3. known => (cert[f] = None <=> \A j \in 1..k : Id(list[j]) # id)
    BY <1>3, FieldFree
  <2>4. Taken(list, n) <=> FineExtension(e) /\ (known => \A j \in 1..k : Id(list[j]) # id)
    BY <1>3, TakenMore DEF n
  <2> HIDE DEF e, known, read, id, f
  <2>5. read.result = "Ok" <=> Taken(list, n)
    BY <2>2, <2>3, <2>4
  <2> QED
    BY <2>2, <2>5
<1>9. CASE read.result # "Ok"
  <2>1. ~Version3(cert_der)
    <3> SUFFICES ASSUME Version3(cert_der) PROVE FALSE
      OBVIOUS
    <3>1. list # << >> /\ Taken(list, m)
      BY <1>6 DEF m
    <3>2. m # 0
      BY <1>5, <3>1, ListFacts DEF m
    <3>3. extensions # << >>
      BY <1>3, <1>7, <3>2
    <3>4. n \in Nat /\ n <= m
      BY <1>7, <3>3
    <3> HIDE DEF n
    <3>5. Taken(list, n)
      BY <1>7, <3>1, <3>4, TakenFewer
    <3> QED
      BY <1>8, <1>9, <3>3, <3>5
  <2> QED
    BY <1>1, <1>9, <2>1, FailKeeps
<1>10. CASE read.result = "Ok"
  <2>1. extensions # << >>
    BY <1>10, NothingToRead
  <2>2. /\ Taken(list, n) /\ read.value.rest = Tail(extensions)
        /\ read.value.value = IF known THEN [cert EXCEPT ![f] = Some(ValueOf(e))] ELSE cert
    BY <1>8, <1>10, <2>1
  <2>3. Rest(list, n, Tail(extensions)) /\ n \in Nat
    BY <1>7, <2>1
  <2>4. IsSeq(tbs) /\ (more <=> tagged # << >> \/ tbs # << >>)
    <3>1. IsSeq(tbs) /\ IsSeq(tagged)
      BY <1>2, <1>5 DEF Rest
    <3> QED
      BY <3>1, NothingFollows
  <2>5. tbs = << >> <=> Len(t) = 8
    <3> HIDE DEF t
    <3>1. tbs = << >> <=> 8 = Len(t)
      BY <1>2, RestConsumed
    <3> QED
      BY <3>1
  <2> HIDE DEF more, n
  <2>6. CASE last /\ more
    <3>1. ~Version3(cert_der)
      BY <1>2, <1>6, <2>4, <2>5, <2>6
    <3>2. Fail("TrailingData")
      BY <1>1, <1>10, <2>6
    <3> QED
      BY <3>1, <3>2, FailKeeps
  <2>7. CASE ~(last /\ more)
    <3>1. /\ cert' = IF known THEN [cert EXCEPT ![f] = Some(ValueOf(e))] ELSE cert
          /\ extensions' = Tail(extensions) /\ pc' = IF last THEN "parsed" ELSE "extensions"
          /\ cert_der' = cert_der /\ tbs' = tbs /\ tagged' = tagged /\ result' = "Ok"
      BY <1>1, <1>10, <2>2, <2>7 DEF ParseInv
    <3>2. DOMAIN cert = DOMAIN Remembered \cup {"signed_data"} \cup {Fields[i] : i \in 1..7}
      BY <1>2 DEF FieldsDone
    <3>3. known => f \in DOMAIN Remembered
      BY FieldsOfExtensions
    <3>4. "signed_data" \notin DOMAIN Remembered /\ "subject" \notin DOMAIN Remembered
      BY FieldsOfExtensions
    <3>5. "subject" \in DOMAIN cert /\ "signed_data" \in DOMAIN cert
      <4>1. 6 \in 1..7 /\ Fields[6] = "subject"
        BY FieldNames
      <4> QED
        BY <3>2, <4>1
    <3>6. /\ DOMAIN cert' = DOMAIN cert
          /\ known => cert'[f] = Some(ValueOf(e))
          /\ \A g \in DOMAIN cert : (known => g # f) => cert'[g] = cert[g]
      <4> HIDE DEF known, f, e
      <4> QED
        BY <3>1, <3>2, <3>3
    <3>7. cert'.subject = cert.subject /\ cert'.signed_data = cert.signed_data
      <4> HIDE DEF known, f, e
      <4> QED
        BY <3>3, <3>4, <3>5, <3>6
    <3>8. FieldsDone(7)'
      BY <1>2, <3>1, <3>6, <3>7 DEF FieldsDone
    <3>9. Held(list, n)'
      <4>1. known => \A j \in 1..k : Id(list[j]) # id
        BY <1>3, <2>2, TakenMore DEF n
      <4>2. known => \A g \in DOMAIN Remembered \ {f} : cert'[g] = cert[g]
        <5> HIDE DEF known, f, e
        <5> QED
          BY <3>2, <3>6
      <4>3. ~known => cert' = cert
        <5> HIDE DEF known, f, e
        <5> QED
          BY <3>1
      <4>4. \A name \in DOMAIN Understood :
               /\ (\A j \in 1..(k + 1) : Id(list[j]) # name) => cert'[Understood[name]] = None
               /\ \A j \in 1..(k + 1) :
                     Id(list[j]) = name => cert'[Understood[name]] = Some(ValueOf(list[j]))
        BY <1>3, <3>6, <4>1, <4>2, <4>3, HeldMore DEF n
      <4>5. list' = list
        BY <3>1 DEF list
      <4> QED
        BY <4>4, <4>5, Zenon DEF Held, n
    <3>10. CASE ~last
      <4>1. pc' = "extensions" /\ extensions' # << >>
        BY <2>2, <3>1, <3>10
      <4>2. list = TbsOf(cert_der')[8].content[1].content /\ list' = list
        BY <3>1 DEF list
      <4>3. Opened(cert_der') /\ Rest(TbsOf(cert_der'), 8, tbs')
            /\ tagged' = Tail(TbsOf(cert_der')[8].content)
        BY <1>2, <3>1
      <4>4. Rest(list, n, extensions') /\ n \in Nat
        BY <2>3, <3>1
      <4>5. InExtensions'
        BY <2>2, <3>8, <3>9, <4>1, <4>2, <4>3, <4>4 DEF InExtensions
      <4> QED
        BY <3>1, <4>1, <4>5 DEF ParseInv
    <3>11. CASE last
      <4>1. pc' = "parsed" /\ Tail(extensions) = << >> /\ ~more
        BY <2>2, <2>7, <3>1, <3>11
      <4>2. n = m
        BY <2>3, <4>1, RestConsumed DEF m
      <4>3. Len(t) = 8 /\ Tail(w) = << >>
        BY <1>2, <2>4, <2>5, <4>1
      <4>4. ExtensionList(cert_der) = list
        BY <4>3 DEF ExtensionList, list
      <4>5. list # << >>
        <5>1. m # 0
          BY <1>7, <2>1
        <5> QED
          BY <1>5, <5>1, ListFacts DEF m
      <4>6. Version3(cert_der)
        <5>1. \A i \in 1..7 : FieldFine(cert_der, i)
          BY <1>2 DEF FieldsDone
        <5> QED
          BY <1>2, <1>4, <2>2, <4>2, <4>3, <4>4, <4>5, <5>1, Version3Parts DEF m
      <4>7. Remembers'
        <5>1. cert'.subject = t[6].content
          BY <1>2, <3>7 DEF FieldsDone
        <5>2. ExtensionList(cert_der') = list /\ list' = list /\ Len(list) = n
          BY <3>1, <4>2, <4>4 DEF list, m
        <5> QED
          BY <3>1, <3>9, <5>1, <5>2 DEF Remembers, n
      <4>8. Version3(cert_der')
        BY <3>1, <4>6
      <4> QED
        BY <3>1, <4>1, <4>7, <4>8 DEF ParseInv
    <3> QED
      BY <3>10, <3>11
  <2> QED
    BY <2>6, <2>7
<1> QED
  BY <1>9, <1>10

LEMMA FinishKeeps == ParseInv /\ (KeepAnchor \/ TryVersion1 \/ Refuse) => ParseInv'
<1> SUFFICES ASSUME ParseInv, KeepAnchor \/ TryVersion1 \/ Refuse PROVE ParseInv'
  OBVIOUS
<1>1. /\ pc = "parsed" /\ pc' = "done"
      /\ UNCHANGED << cert_der, tbs, tagged, extensions, cert, result >>
  BY DEF KeepAnchor, TryVersion1, Refuse, Finish
<1>2. /\ result' = "Ok" <=> Version3(cert_der')
      /\ result' = "Ok" => Remembers'
  <2>1. Remembers' <=> Remembers
    BY <1>1 DEF Remembers, Held
  <2>2. Version3(cert_der') <=> Version3(cert_der)
    BY <1>1
  <2> QED
    BY <1>1, <2>1, <2>2 DEF ParseInv
<1>3. AnchorJustified'
  <2> SUFFICES ASSUME anchor'.result = "Ok"
               PROVE  \/ anchor_from_v1'.result = "Ok"
                      \/ result' = "Ok" /\ anchor'.value.name_constraints = cert'.name_constraints
    BY DEF AnchorJustified
  <2>1. CASE KeepAnchor
    <3>1. result = "Ok" /\ anchor' = Ok(TrustAnchor(cert.subject, cert.spki, cert.name_constraints))
      BY <2>1 DEF KeepAnchor, Finish
    <3>2. anchor'.value.name_constraints = cert.name_constraints
      BY <3>1, ResultFacts DEF TrustAnchor
    <3> QED
      BY <1>1, <3>1, <3>2
  <2>2. CASE TryVersion1
    <3>1. anchor' = anchor_from_v1
      BY <2>2 DEF TryVersion1, Finish
    <3>2. anchor_from_v1' = anchor_from_v1
      BY <1>1 DEF anchor_from_v1
    <3> QED
      BY <3>1, <3>2
  <2>3. CASE Refuse
    BY <2>3, ResultFacts DEF Refuse, Finish
  <2> QED
    BY <2>1, <2>2, <2>3
<1> QED
  BY <1>1, <1>2, <1>3 DEF ParseInv

LEMMA ParseStutters == ParseInv /\ UNCHANGED vars => ParseInv'
  BY SMTT(30) DEF vars, ParseInv, InSigned, InFields, InExtensions, FieldsDone, Held, Remembers,
         AnchorJustified, anchor_from_v1

LEMMA ParseInvariant == Spec => []ParseInv
<1>1. ParseInv /\ [Next]_vars => ParseInv'
  BY SignedKeeps, FieldKeeps, NoExtensionsKeeps, OpenKeeps, RememberKeeps, FinishKeeps,
     ParseStutters DEF Next, Done
<1> QED
  BY ParseInitially, <1>1, PTL DEF Spec

\* Cert::from_der accepts exactly the version 3 certificates whose every extension is
\* understood once, or not critical (AcceptsConforming), for any certificate.
THEOREM ConformanceTheorem == Spec => []AcceptsConforming
<1>1. ParseInv => AcceptsConforming
  BY DEF ParseInv, AcceptsConforming
<1> QED
  BY ParseInvariant, <1>1, PTL

-----------------------------------------------------------------------------
(* The extensions that the input has, wherever they are.                   *)

LEMMA MentionedIn ==
    ASSUME NEW der, Reader7(der), SignedFine(der), NEW e
    PROVE  e \in ExtensionsOf(der) <=>
               \E i \in 1..Len(TbsOf(der)) :
                   LET w == TbsOf(der)[i].content
                   IN  /\ TbsOf(der)[i].tag = "ContextSpecificConstructed3"
                       /\ \E j \in DOMAIN w :
                              /\ w[j].tag = "Sequence"
                              /\ \E k \in DOMAIN w[j].content : e = w[j].content[k]
                       /\ WellFormedExtension(e)
<1> DEFINE t == TbsOf(der)
           C3 == {u \in Range(t) : u.tag = "ContextSpecificConstructed3"}
           Lists(u) == {l \in Range(u.content) : l.tag = "Sequence"}
           In(l) == {x \in Range(l.content) : WellFormedExtension(x)}
<1>1. /\ IsSeq(der[1].content) /\ Len(der[1].content) = 3
      /\ der[1].content[1].tag = "Sequence" /\ IsSeq(t)
  BY ReadersOf
<1>2. DOMAIN t = 1..Len(t)
  BY <1>1, ListFacts
<1>3. peek(der[1].content, "Sequence") /\ Tags(der) = << "Sequence" >>
  BY <1>1, PeekFirst DEF SignedFine
<1>4. ExtensionsOf(der) = UNION {UNION {In(l) : l \in Lists(u)} : u \in C3}
  BY <1>3 DEF ExtensionsOf, TbsOf
<1>5. e \in ExtensionsOf(der) <=> \E u \in C3 : \E l \in Lists(u) : e \in In(l)
  <2> HIDE DEF C3, Lists, In
  <2> QED
    BY <1>4
<1>6. \A u : u \in C3 <=> \E i \in 1..Len(t) : u = t[i] /\ u.tag = "ContextSpecificConstructed3"
  <2> HIDE DEF t
  <2> QED
    BY <1>2, Zenon DEF Range
<1>7. \A u, l : l \in Lists(u) <=> \E j \in DOMAIN u.content : l = u.content[j] /\ l.tag = "Sequence"
  BY Zenon DEF Range
<1>8. \A l : e \in In(l) <=> \E k \in DOMAIN l.content : e = l.content[k] /\ WellFormedExtension(e)
  BY Zenon DEF Range
<1> HIDE DEF C3, Lists, In, t
<1>9. e \in ExtensionsOf(der) <=>
          \E i \in 1..Len(t) :
              /\ t[i].tag = "ContextSpecificConstructed3"
              /\ \E j \in DOMAIN t[i].content :
                     /\ t[i].content[j].tag = "Sequence"
                     /\ \E k \in DOMAIN t[i].content[j].content : e = t[i].content[j].content[k]
              /\ WellFormedExtension(e)
  <2>1. ASSUME e \in ExtensionsOf(der)
        PROVE  \E i \in 1..Len(t) :
              /\ t[i].tag = "ContextSpecificConstructed3"
              /\ \E j \in DOMAIN t[i].content :
                     /\ t[i].content[j].tag = "Sequence"
                     /\ \E k \in DOMAIN t[i].content[j].content : e = t[i].content[j].content[k]
              /\ WellFormedExtension(e)
    <3>1. PICK u \in C3 : \E l \in Lists(u) : e \in In(l)
      BY <1>5, <2>1
    <3>2. PICK l \in Lists(u) : e \in In(l)
      BY <3>1
    <3>3. PICK i \in 1..Len(t) : u = t[i] /\ u.tag = "ContextSpecificConstructed3"
      BY <1>6
    <3>4. PICK j \in DOMAIN u.content : l = u.content[j] /\ l.tag = "Sequence"
      BY <1>7
    <3>5. PICK k \in DOMAIN l.content : e = l.content[k] /\ WellFormedExtension(e)
      BY <1>8, <3>2
    <3> QED
      BY <3>3, <3>4, <3>5, Zenon
  <2>2. ASSUME NEW i \in 1..Len(t), t[i].tag = "ContextSpecificConstructed3",
               NEW j \in DOMAIN t[i].content, t[i].content[j].tag = "Sequence",
               NEW k \in DOMAIN t[i].content[j].content, e = t[i].content[j].content[k],
               WellFormedExtension(e)
        PROVE  e \in ExtensionsOf(der)
    <3>1. t[i] \in C3
      BY <1>6, <2>2
    <3>2. t[i].content[j] \in Lists(t[i])
      BY <1>7, <2>2
    <3>3. e \in In(t[i].content[j])
      BY <1>8, <2>2, Zenon
    <3> QED
      BY <1>5, <3>1, <3>2, <3>3, Zenon
  <2> QED
    BY <2>1, <2>2, Zenon
<1> QED
  BY <1>9 DEF t

LEMMA MentionedIfAccepted ==
    ASSUME NEW der, Reader7(der), Version3(der), NEW e
    PROVE  e \in ExtensionsOf(der) <=>
               \E k \in 1..Len(ExtensionList(der)) : e = ExtensionList(der)[k]
<1> DEFINE t == TbsOf(der)
           n == Len(t)
           list == ExtensionList(der)
<1>1. /\ SignedFine(der) /\ (n = 7 \/ n = 8)
      /\ \A k \in 1..7 : FieldFine(der, k)
      /\ n = 8 => /\ Opened(der) /\ Tail(t[8].content) = << >>
                  /\ list # << >> /\ Taken(list, Len(list))
  BY Version3Parts
<1>2. \A i \in 1..7 : t[i].tag # "ContextSpecificConstructed3"
  BY <1>1 DEF FieldFine
<1>3. e \in ExtensionsOf(der) <=>
          \E i \in 1..n :
              /\ t[i].tag = "ContextSpecificConstructed3"
              /\ \E j \in DOMAIN t[i].content :
                     /\ t[i].content[j].tag = "Sequence"
                     /\ \E k \in DOMAIN t[i].content[j].content : e = t[i].content[j].content[k]
              /\ WellFormedExtension(e)
  BY <1>1, MentionedIn
<1> HIDE DEF n, t, list
<1>4. CASE n = 7
  <2>1. list = << >>
    BY <1>4 DEF list, ExtensionList, n, t
  <2>2. e \notin ExtensionsOf(der)
    BY <1>2, <1>3, <1>4
  <2>3. Len(list) = 0
    BY <2>1
  <2>4. ~(\E k \in 1..Len(list) : e = list[k])
    BY <2>3
  <2> QED
    BY <2>2, <2>4 DEF list
<1>5. CASE n = 8
  <2> DEFINE w == t[8].content
  <2>1. \A i \in 1..n : t[i].tag = "ContextSpecificConstructed3" => i = 8
    BY <1>2, <1>5
  <2>2. 8 \in 1..n /\ t[8].tag = "ContextSpecificConstructed3" /\ peek(w, "Sequence")
    BY <1>1, <1>5 DEF Opened, t
  <2>3. Reader4(w)
    <3>1. Reader5(t) /\ IsSeq(t)
      BY <1>1, ReadersOf DEF t
    <3>2. DOMAIN t = 1..n
      BY <3>1, ListFacts DEF n
    <3> QED
      BY <2>2, <3>1, <3>2 DEF Reader5, ReaderOf
  <2> HIDE DEF w
  <2>4. IsSeq(w)
    BY <2>3 DEF Reader4, ReaderOf
  <2>5. DOMAIN w = {1} /\ w[1].tag = "Sequence"
    <3>1. Len(w) = 1
      BY <1>1, <1>5, <2>2, <2>4, PeekFirst DEF w
    <3>2. DOMAIN w = 1..1
      BY <2>4, <3>1, ListFacts
    <3> QED
      BY <2>2, <2>4, <3>2, PeekFirst
  <2>6. list = w[1].content
    BY <1>5 DEF list, ExtensionList, n, t, w
  <2>7. DOMAIN list = 1..Len(list)
    <3>1. Reader3(w[1].content)
      BY <2>3, <2>5 DEF Reader4, ReaderOf
    <3>2. IsSeq(list)
      BY <2>6, <3>1 DEF Reader3, ReaderOf
    <3> QED
      BY <3>2, ListFacts
  <2>8. \A k \in 1..Len(list) : WellFormedExtension(list[k])
    BY <1>1, <1>5 DEF Taken, FineExtension
  <2>9. e \in ExtensionsOf(der) <=>
            (\E k \in 1..Len(list) : e = list[k]) /\ WellFormedExtension(e)
    BY <1>3, <2>1, <2>2, <2>5, <2>6, <2>7, Zenon DEF w
  <2> QED
    BY <2>8, <2>9 DEF list
<1> QED
  BY <1>1, <1>4, <1>5 DEF n

LEMMA UnambiguousFollows == ParseInv => ExtensionsUnambiguous
<1> SUFFICES ASSUME ParseInv, pc = "parsed", result = "Ok", NEW name \in DOMAIN Understood
             PROVE  LET named == {e \in ExtensionsOf(cert_der) : Id(e) = name}
                        value == cert[Understood[name]]
                    IN  /\ named = {} => value = None
                        /\ \A e \in named :
                               value = Some(IF name = "keyUsage" THEN Content(e)
                                            ELSE Head(Content(e)).content)
  BY DEF ExtensionsUnambiguous
<1> DEFINE list == ExtensionList(cert_der)
           n == Len(list)
           value == cert[Understood[name]]
<1>1. Version3(cert_der) /\ Remembers /\ Reader7(cert_der)
  BY InputIsReader DEF ParseInv
<1>2. /\ (\A j \in 1..n : Id(list[j]) # name) => value = None
      /\ \A j \in 1..n : Id(list[j]) = name => value = Some(ValueOf(list[j]))
  BY <1>1, Zenon DEF Remembers, Held
<1>3. \A e : e \in ExtensionsOf(cert_der) <=> \E k \in 1..n : e = list[k]
  BY <1>1, MentionedIfAccepted
<1> HIDE DEF n, list, value
<1>4. ASSUME {e \in ExtensionsOf(cert_der) : Id(e) = name} = {} PROVE value = None
  BY <1>2, <1>3, <1>4
<1>5. ASSUME NEW e \in ExtensionsOf(cert_der), Id(e) = name
      PROVE  value = Some(IF name = "keyUsage" THEN Content(e) ELSE Head(Content(e)).content)
  <2>1. value = Some(ValueOf(e))
    BY <1>2, <1>3, <1>5
  <2> QED
    BY <1>5, <2>1 DEF ValueOf
<1> QED
  BY <1>4, <1>5 DEF value

\* The fields of a parsed certificate have the values of its extensions, whatever their
\* order (ExtensionsUnambiguous), for any certificate.
THEOREM UnambiguousTheorem == Spec => []ExtensionsUnambiguous
  BY ParseInvariant, UnambiguousFollows, PTL

\* A certificate of version 1 has nothing that looks like an extension.
LEMMA Version1MentionsNone ==
    ASSUME Reader7(cert_der), anchor_from_v1.result = "Ok"
    PROVE  ExtensionsOf(cert_der) = {}
<1> DEFINE der == cert_der
           body == Head(der).content
           v1 == body[1].content
           fine == /\ Starts(der, << "Sequence" >>) /\ Len(der) = 1
                   /\ Starts(body, << "Sequence", "Sequence", "BitString" >>) /\ Len(body) = 3
                   /\ v1_tbs(v1)
           ok == Ok(TrustAnchor(v1[5].content, v1[6].content, None))
<1>1. anchor_from_v1 = IF fine THEN ok ELSE Err("BadDer")
  BY DEF anchor_from_v1
<1>2. Err("BadDer").result # "Ok"
  BY DEF Err
<1> HIDE DEF ok
<1>3. fine
  <2> HIDE DEF fine
  <2> QED
    BY <1>1, <1>2
<1>4. IsSeq(der) /\ Len(der) = 1 /\ der # << >>
  <2>1. IsSeq(der)
    BY DEF Reader7, ReaderOf
  <2>2. Len(der) = 1
    BY <1>3
  <2> HIDE DEF der
  <2> QED
    BY <2>1, <2>2, ListFacts
<1>5. Head(der) = der[1]
  BY <1>4, ListConsumed
<1>6. v1 = TbsOf(der)
  BY <1>5 DEF TbsOf
<1>7. Len(v1) = 6 /\ \A i \in 1..6 : v1[i].tag # "ContextSpecificConstructed3"
  <2>1. Len(v1) = 6 /\ \A i \in DOMAIN v1_tags : v1[i].tag = v1_tags[i]
    BY <1>3 DEF v1_tbs, Starts
  <2>2. DOMAIN v1_tags = 1..6 /\ \A i \in 1..6 : v1_tags[i] \in {"Integer", "Sequence"}
    BY DEF v1_tags
  <2> HIDE DEF v1
  <2> QED
    BY <2>1, <2>2
<1> DEFINE t == TbsOf(der)
           C3 == {u \in Range(t) : u.tag = "ContextSpecificConstructed3"}
           Lists(u) == {l \in Range(u.content) : l.tag = "Sequence"}
           In(l) == {x \in Range(l.content) : WellFormedExtension(x)}
<1>8. ExtensionsOf(der) \in {{}, UNION {UNION {In(l) : l \in Lists(u)} : u \in C3}}
  BY DEF ExtensionsOf, TbsOf
<1>9. Tags(der) # << "Sequence" >> \/ ~peek(der[1].content, "Sequence") => ExtensionsOf(der) = {}
  BY DEF ExtensionsOf
<1>10. ASSUME Tags(der) = << "Sequence" >>, peek(der[1].content, "Sequence")
       PROVE  C3 = {}
  <2>1. der[1].tag = "Sequence" /\ 1 \in DOMAIN der
    BY <1>4, <1>10, TagsOfOne, ListFacts
  <2>2. Reader6(der[1].content)
    BY <2>1 DEF Reader7, ReaderOf
  <2> DEFINE b == der[1].content
  <2> HIDE DEF b
  <2>3. IsSeq(b) /\ Reader6(b)
    BY <2>2 DEF Reader6, ReaderOf, b
  <2>4. 1 \in DOMAIN b /\ b[1].tag = "Sequence"
    BY <1>10, <2>3, PeekFirst DEF b
  <2>5. Reader5(b[1].content)
    BY <2>3, <2>4 DEF Reader6, ReaderOf
  <2>6. IsSeq(t)
    BY <2>5 DEF Reader5, ReaderOf, TbsOf, b
  <2> HIDE DEF v1, t
  <2>7. DOMAIN t = 1..6
    BY <1>6, <1>7, <2>6, ListFacts DEF t
  <2>8. \A i \in DOMAIN t : t[i].tag # "ContextSpecificConstructed3"
    BY <1>6, <1>7, <2>7 DEF t
  <2> QED
    BY <2>8 DEF Range
<1> HIDE DEF C3, Lists, In
<1>11. C3 = {} => UNION {UNION {In(l) : l \in Lists(u)} : u \in C3} = {}
  OBVIOUS
<1> HIDE DEF der
<1> QED
  BY <1>8, <1>9, <1>10, <1>11 DEF der

LEMMA ConstraintsFollow == ParseInv => AnchorsKeepConstraints
<1> SUFFICES ASSUME ParseInv, pc = "done", anchor.result = "Ok",
                    NEW e \in ExtensionsOf(cert_der), Id(e) = "nameConstraints"
             PROVE  anchor.value.name_constraints = Some(Head(Content(e)).content)
  BY DEF AnchorsKeepConstraints
<1>1. Reader7(cert_der)
  BY InputIsReader
<1>2. result = "Ok" /\ anchor.value.name_constraints = cert.name_constraints
  BY <1>1, Version1MentionsNone DEF ParseInv, AnchorJustified
<1> DEFINE list == ExtensionList(cert_der)
           n == Len(list)
<1>3. Version3(cert_der) /\ Remembers
  BY <1>2 DEF ParseInv
<1>4. PICK k \in 1..n : e = list[k]
  BY <1>1, <1>3, MentionedIfAccepted
<1>5. "nameConstraints" \in DOMAIN Understood /\ Understood["nameConstraints"] = "name_constraints"
  BY DEF Understood
<1>6. cert.name_constraints = Some(ValueOf(e))
  <2>1. cert[Understood["nameConstraints"]] = Some(ValueOf(list[k]))
    BY <1>3, <1>4, <1>5, Zenon DEF Remembers, Held
  <2> QED
    BY <1>4, <1>5, <2>1
<1> QED
  BY <1>2, <1>6 DEF ValueOf

\* An anchor never loses the name constraints of its certificate
\* (AnchorsKeepConstraints), for any certificate.
THEOREM AnchorTheorem == Spec => []AnchorsKeepConstraints
  BY ParseInvariant, ConstraintsFollow, PTL

-----------------------------------------------------------------------------
(* The common name.                                                        *)

\* The places of identifiers in a list of attributes, and those of common names.
NamesIn(list)  == {i \in DOMAIN list : i % 2 = 1}
CommonIn(list) == {i \in NamesIn(list) : list[i] = Element("OID", "commonName")}

\* A list of attributes with no common name but as its last.
FineAttributes(list) ==
    /\ Len(list) % 2 = 0
    /\ \A i \in NamesIn(list) : list[i].tag = "OID" /\ list[i + 1] # Malformed
    /\ CommonIn(list) \in {{}, {Len(list) - 1}}
    /\ CommonIn(list) # {} => list[Len(list)].tag = "UTF8String"

\* What is left of a list after some element.
LEMMA LeftOf ==
    ASSUME NEW s, IsSeq(s), NEW k \in 1..Len(s)
    PROVE  LET after == SubSeq(s, k + 1, Len(s))
           IN  /\ IsSeq(after) /\ Len(after) = Len(s) - k
               /\ k < Len(s) => after[1] = s[k + 1]
<1>1. Len(s) \in Nat /\ DOMAIN s = 1..Len(s)
  BY ListFacts
<1> DEFINE n == Len(s)
<1> HIDE DEF n
<1>2. k \in Nat /\ k <= n /\ n \in Nat
  BY <1>1 DEF n
<1>3. SubSeq(s, k + 1, n) = [i \in 1..(n - k) |-> s[i + k]]
  BY <1>2 DEF IsSeq, n
<1>4. IsSeq(SubSeq(s, k + 1, n)) /\ Len(SubSeq(s, k + 1, n)) = n - k
  <2> DEFINE t == SubSeq(s, k + 1, n)
             T == {t[i] : i \in DOMAIN t}
  <2>1. t = [i \in 1..(n - k) |-> s[i + k]] /\ n - k \in Nat
    BY <1>2, <1>3
  <2> HIDE DEF t
  <2>2. DOMAIN t = 1..(n - k)
    BY <2>1
  <2>3. t = [i \in 1..(n - k) |-> t[i]] /\ \A i \in 1..(n - k) : t[i] \in T
    BY <2>1, <2>2
  <2> HIDE DEF T
  <2>4. t \in Seq(T) /\ Len(t) = n - k
    BY <2>1, <2>3
  <2> QED
    BY <2>4 DEF IsSeq, T, t
<1>5. k < n => SubSeq(s, k + 1, n)[1] = s[k + 1]
  BY <1>2, <1>3
<1> QED
  BY <1>4, <1>5 DEF n

\* The loop over the attributes takes exactly such a list to its end, and finds the
\* common name.
LEMMA AttributesRead ==
    ASSUME NEW list, Reader1(list)
    PROVE  /\ attributes(list).result = "Ok" /\ attributes(list).value.rest = << >>
                  <=> FineAttributes(list)
           /\ FineAttributes(list) =>
                  attributes(list).value.value =
                      IF CommonIn(list) = {} THEN None ELSE Some(list[Len(list)].content)
<1> DEFINE n     == Len(list)
           goes(k) == /\ k < n /\ list[k].tag = "OID"
                      /\ list[k].content # "commonName"
                      /\ list[k + 1].tag # "Malformed"
           ends  == {k \in 1..(n + 1) : k % 2 = 1 /\ ~goes(k)}
           k     == Min(ends)
           after == SubSeq(list, k + 1, n)
           v     == name_value(after)
           a     == attributes(list)
<1>1. a = IF k > n THEN Read(None, << >>)
          ELSE IF list[k].tag = "OID" /\ list[k].content = "commonName"
          THEN IF v.result = "Ok" THEN Read(Some(v.value.value), v.value.rest) ELSE v
          ELSE Err("BadDer")
  BY DEF attributes, AndThen
<1>2. /\ IsSeq(list) /\ n \in Nat /\ DOMAIN list = 1..n
      /\ \A i \in 1..n : /\ list[i] = Element(list[i].tag, list[i].content)
                         /\ list[i].tag = "Malformed" => list[i] = Malformed
  BY ListFacts DEF Reader1, ReaderOf
<1>3. Malformed.tag = "Malformed"
  BY DEF Malformed, Element
<1>4. \A i \in 1..n : list[i] # Malformed <=> list[i].tag # "Malformed"
  BY <1>2, <1>3
<1>5. \A i \in 1..n : list[i] = Element("OID", "commonName") <=>
                          list[i].tag = "OID" /\ list[i].content = "commonName"
  BY <1>2, SameRecord
<1> HIDE DEF n
<1>6. k \in ends /\ \A j \in ends : k <= j
  <2>1. n % 2 = 0 => n + 1 \in ends
    BY <1>2
  <2>2. n % 2 # 0 => n \in ends
    BY <1>2
  <2>3. ends # {} /\ ends \subseteq 1..(n + 1)
    BY <2>1, <2>2
  <2> HIDE DEF ends
  <2> QED
    BY <1>2, <2>3, MinOfIndices
<1> DEFINE is(i) == list[i].tag = "OID" /\ list[i].content = "commonName"
<1>7. /\ k \in 1..(n + 1) /\ k % 2 = 1 /\ ~goes(k)
      /\ \A j \in 1..(k - 1) : j % 2 = 1 => goes(j)
  <2>1. k \in 1..(n + 1) /\ k % 2 = 1 /\ ~goes(k)
    BY <1>6
  <2>2. ASSUME NEW j \in 1..(k - 1), j % 2 = 1 PROVE goes(j)
    <3> HIDE DEF k, goes
    <3>1. j \in 1..(n + 1) /\ ~(k <= j)
      BY <1>2, <2>1
    <3> QED
      BY <1>6, <2>2, <3>1
  <2> QED
    BY <2>1, <2>2
<1> HIDE DEF k, ends
<1>8. /\ NamesIn(list) = {i \in 1..n : i % 2 = 1}
      /\ CommonIn(list) = {i \in 1..n : i % 2 = 1 /\ is(i)}
  BY <1>2, <1>5 DEF NamesIn, CommonIn
<1>9. \A e : Err(e).result = e
  BY ResultFacts
<1> HIDE DEF a
<1>10. CASE k > n
  <2>1. k = n + 1 /\ n % 2 = 0
    BY <1>2, <1>7, <1>10
  <2>2. \A j \in 1..n : j % 2 = 1 => goes(j)
    BY <1>2, <1>7, <2>1
  <2>3. CommonIn(list) = {}
    BY <1>8, <2>2
  <2>4. \A i \in NamesIn(list) : list[i].tag = "OID" /\ list[i + 1] # Malformed
    <3> SUFFICES ASSUME NEW i \in NamesIn(list)
                 PROVE  list[i].tag = "OID" /\ list[i + 1] # Malformed
      OBVIOUS
    <3>1. i \in 1..n /\ i % 2 = 1
      BY <1>8
    <3>2. goes(i)
      BY <2>2, <3>1
    <3>3. i + 1 \in 1..n
      BY <1>2, <3>1, <3>2
    <3> QED
      BY <1>4, <3>2, <3>3
  <2>5. FineAttributes(list)
    BY <2>1, <2>3, <2>4 DEF FineAttributes, n
  <2>6. a = Read(None, << >>)
    BY <1>1, <1>10
  <2> QED
    BY <2>3, <2>5, <2>6, ResultFacts DEF a
<1>11. CASE ~(k > n) /\ is(k)
  <2>1. k \in 1..n
    BY <1>2, <1>7, <1>11
  <2>2. /\ IsSeq(after) /\ Len(after) = n - k
        /\ k < n => after[1] = list[k + 1]
    BY <1>2, <2>1, LeftOf DEF n
  <2>3. a = IF v.result = "Ok" THEN Read(Some(v.value.value), v.value.rest) ELSE v
    BY <1>1, <1>11
  <2>4. v = expect_tag(after, "UTF8String")
    BY DEF name_value
  <2> HIDE DEF after, v
  <2>5. /\ v.result = "Ok" <=> peek(after, "UTF8String")
        /\ v.result = "Ok" => v.value.value = Head(after).content /\ v.value.rest = Tail(after)
    BY <2>4, Expected
  <2>6. /\ peek(after, "UTF8String") <=> Len(after) >= 1 /\ after[1].tag = "UTF8String"
        /\ peek(after, "UTF8String") =>
               Head(after) = after[1] /\ (Tail(after) = << >> <=> Len(after) = 1)
    BY <2>2, PeekFirst
  <2>7. /\ a.result = "Ok" /\ a.value.rest = << >> <=>
               n = k + 1 /\ list[n].tag = "UTF8String"
        /\ a.result = "Ok" /\ a.value.rest = << >> => a.value.value = Some(list[n].content)
    <3>1. /\ a.result = "Ok" <=> v.result = "Ok"
          /\ a.result = "Ok" => a.value.value = Some(v.value.value) /\ a.value.rest = v.value.rest
      BY <2>3, ResultFacts
    <3> DEFINE m == Len(after)
    <3> HIDE DEF m
    <3>2. m = n - k /\ k \in Nat /\ n \in Nat
      BY <1>2, <2>1, <2>2 DEF m
    <3>3. (m = 1 <=> n = k + 1) /\ (m >= 1 <=> k < n)
      BY <3>2
    <3> QED
      BY <2>2, <2>5, <2>6, <3>1, <3>3 DEF m
  <2>8. k \in CommonIn(list)
    BY <1>7, <1>8, <1>11, <2>1
  <2>9. FineAttributes(list) <=> n = k + 1 /\ list[n].tag = "UTF8String"
    <3>1. ASSUME FineAttributes(list) PROVE n = k + 1 /\ list[n].tag = "UTF8String"
      <4>1. CommonIn(list) = {n - 1} /\ list[n].tag = "UTF8String"
        BY <2>8, <3>1 DEF FineAttributes, n
      <4>2. k = n - 1
        BY <2>8, <4>1
      <4> QED
        BY <1>2, <4>1, <4>2
    <3>2. ASSUME n = k + 1, list[n].tag = "UTF8String" PROVE FineAttributes(list)
      <4>1. \A j \in 1..n : j % 2 = 1 => j = k \/ goes(j)
        BY <1>2, <1>7, <2>1, <3>2
      <4>2. CommonIn(list) = {n - 1}
        <5>1. \A j \in CommonIn(list) : j = k
          BY <1>8, <4>1
        <5>2. k = n - 1
          BY <1>2, <2>1, <3>2
        <5>3. CommonIn(list) = {k}
          BY <2>8, <5>1, Zenon
        <5> QED
          BY <5>2, <5>3
      <4>3. \A i \in NamesIn(list) : list[i].tag = "OID" /\ list[i + 1] # Malformed
        <5> SUFFICES ASSUME NEW i \in NamesIn(list)
                     PROVE  list[i].tag = "OID" /\ list[i + 1] # Malformed
          OBVIOUS
        <5>1. i \in 1..n /\ (i = k \/ goes(i))
          BY <1>8, <4>1
        <5>2. i + 1 \in 1..n
          BY <1>2, <2>1, <3>2, <5>1
        <5>3. list[i].tag = "OID" /\ list[i + 1].tag # "Malformed"
          BY <1>11, <3>2, <5>1
        <5> QED
          BY <1>4, <5>2, <5>3
      <4>4. n % 2 = 0
        BY <1>2, <1>7, <2>1, <3>2
      <4> QED
        BY <3>2, <4>2, <4>3, <4>4 DEF FineAttributes, n
    <3> QED
      BY <3>1, <3>2
  <2> QED
    BY <2>7, <2>8, <2>9 DEF a, n
<1>12. CASE ~(k > n) /\ ~is(k)
  <2>1. k \in 1..n
    BY <1>2, <1>7, <1>12
  <2>2. a.result # "Ok"
    BY <1>1, <1>9, <1>12
  <2>3. ~FineAttributes(list)
    <3> SUFFICES ASSUME FineAttributes(list) PROVE FALSE
      OBVIOUS
    <3>1. k \in NamesIn(list)
      BY <1>7, <1>8, <2>1
    <3>2. list[k].tag = "OID" /\ list[k + 1] # Malformed /\ n % 2 = 0
      BY <3>1 DEF FineAttributes, n
    <3>3. k < n
      BY <1>2, <1>7, <2>1, <3>2
    <3>4. k + 1 \in 1..n
      BY <1>2, <2>1, <3>3
    <3>5. goes(k)
      BY <1>4, <1>12, <3>2, <3>3, <3>4
    <3> QED
      BY <1>7, <3>5
  <2> QED
    BY <2>2, <2>3 DEF a
<1> QED
  BY <1>10, <1>11, <1>12

\* The common name is found in exactly the subjects whose first name is one such list.
LEMMA CommonNameRead ==
    ASSUME NEW subject, Reader4(subject)
    PROVE  LET list == subject[1].content[1].content
               r    == common_name(subject)
           IN  /\ r.result = "Ok" <=> /\ peek(subject, "Set")
                                      /\ Tags(subject[1].content) = << "Sequence" >>
                                      /\ FineAttributes(list)
               /\ r.result = "Ok" =>
                      r.value = IF CommonIn(list) = {} THEN None
                                ELSE Some(list[Len(list)].content)
<1> DEFINE list  == subject[1].content[1].content
           set   == subject[1].content
           outer == expect_tag(subject, "Set")
           names == outer.value.value
           inner == expect_tag(names, "Sequence")
           attrs == inner.value.value
           a     == attributes(attrs)
           b     == IF a.result # "Ok" THEN a
                    ELSE IF a.value.rest # << >> THEN Err("TrailingData")
                    ELSE Ok(a.value.value)
           c     == IF inner.result # "Ok" THEN Err("TrailingData")
                    ELSE IF b.result = "Ok" THEN Read(b.value, inner.value.rest) ELSE b
           d     == IF c.result # "Ok" THEN c
                    ELSE IF c.value.rest # << >> THEN Err("TrailingData")
                    ELSE Ok(c.value.value)
           e     == IF outer.result # "Ok" THEN Err("TrailingData")
                    ELSE IF d.result = "Ok" THEN Read(d.value, outer.value.rest) ELSE d
           r     == common_name(subject)
<1>1. r = IF e.result = "Ok" THEN Ok(e.value.value) ELSE e
  BY DEF common_name, nested, read_to_end, AndThen
<1>2. Err("TrailingData").result # "Ok"
  BY DEF Err
<1>3. /\ outer.result = "Ok" <=> peek(subject, "Set")
      /\ outer.result = "Ok" => names = Head(subject).content
  BY Expected
<1>4. /\ inner.result = "Ok" <=> peek(names, "Sequence")
      /\ inner.result = "Ok" => attrs = Head(names).content /\ inner.value.rest = Tail(names)
  BY Expected
<1> HIDE DEF outer, names, inner, attrs, a, r
<1>5. /\ b.result = "Ok" <=> a.result = "Ok" /\ a.value.rest = << >>
      /\ b.result = "Ok" => b.value = a.value.value
  BY <1>2, ResultFacts
<1> HIDE DEF b
<1>6. /\ c.result = "Ok" <=> inner.result = "Ok" /\ b.result = "Ok"
      /\ c.result = "Ok" => c.value.value = b.value /\ c.value.rest = inner.value.rest
  BY <1>2, ResultFacts
<1> HIDE DEF c
<1>7. /\ d.result = "Ok" <=> c.result = "Ok" /\ c.value.rest = << >>
      /\ d.result = "Ok" => d.value = c.value.value
  BY <1>2, ResultFacts
<1> HIDE DEF d
<1>8. /\ e.result = "Ok" <=> outer.result = "Ok" /\ d.result = "Ok"
      /\ e.result = "Ok" => e.value.value = d.value
  BY <1>2, ResultFacts
<1> HIDE DEF e
<1>9. /\ r.result = "Ok" <=> e.result = "Ok"
      /\ r.result = "Ok" => r.value = e.value.value
  BY <1>1, ResultFacts
<1>10. CASE ~peek(subject, "Set")
  BY <1>3, <1>8, <1>9, <1>10 DEF r
<1>11. CASE peek(subject, "Set")
  <2>1. IsSeq(subject)
    BY DEF Reader4, ReaderOf
  <2>2. 1 \in DOMAIN subject /\ Head(subject) = subject[1] /\ subject[1].tag = "Set"
    BY <1>11, <2>1, PeekFirst
  <2>3. Reader3(set)
    BY <2>2 DEF Reader4, ReaderOf
  <2>4. names = set /\ outer.result = "Ok"
    BY <1>3, <1>11, <2>2
  <2>5. IsSeq(set)
    BY <2>3 DEF Reader3, ReaderOf
  <2>6. Tags(set) = << "Sequence" >> <=> peek(set, "Sequence") /\ Tail(set) = << >>
    BY <2>5, OnlyElement
  <2> HIDE DEF set
  <2>7. CASE ~peek(set, "Sequence")
    BY <1>4, <1>6, <1>7, <1>8, <1>9, <2>4, <2>6, <2>7 DEF r, set
  <2>8. CASE peek(set, "Sequence")
    <3>1. 1 \in DOMAIN set /\ Head(set) = set[1] /\ set[1].tag = "Sequence"
      BY <2>5, <2>8, PeekFirst
    <3>2. Reader2(set[1].content)
      BY <2>3, <3>1 DEF Reader3, ReaderOf
    <3>3. list = set[1].content
      BY DEF set
    <3>4. attrs = list /\ inner.result = "Ok" /\ inner.value.rest = Tail(set)
      BY <1>4, <2>4, <2>8, <3>1, <3>3
    <3>5. Reader1(list)
      BY <3>2, <3>3, ReaderWeaker
    <3> HIDE DEF list
    <3>6. /\ a.result = "Ok" /\ a.value.rest = << >> <=> FineAttributes(list)
          /\ FineAttributes(list) =>
                 a.value.value = IF CommonIn(list) = {} THEN None
                                 ELSE Some(list[Len(list)].content)
      BY <3>4, <3>5, AttributesRead DEF a
    <3>7. r.result = "Ok" <=> Tail(set) = << >> /\ FineAttributes(list)
      BY <1>5, <1>6, <1>7, <1>8, <1>9, <2>4, <3>4, <3>6
    <3>8. r.result = "Ok" => r.value = a.value.value
      BY <1>5, <1>6, <1>7, <1>8, <1>9
    <3> QED
      BY <1>11, <2>6, <2>8, <3>6, <3>7, <3>8 DEF r, list, set
  <2> QED
    BY <2>7, <2>8
<1> QED
  BY <1>10, <1>11

LEMMA CommonNameFollows == ParseInv => CommonNameIsUnambiguous
<1> SUFFICES ASSUME ParseInv, pc = "parsed", result = "Ok" PROVE CommonNameIsUnambiguous
  BY DEF CommonNameIsUnambiguous
<1>1. Reader7(cert_der)
  BY InputIsReader
<1>2. Version3(cert_der) /\ Remembers
  BY DEF ParseInv
<1>3. SignedFine(cert_der) /\ \A k \in 1..7 : FieldFine(cert_der, k)
  BY <1>1, <1>2, Version3Parts
<1> DEFINE t == TbsOf(cert_der)
           subject == t[6].content
<1>4. cert.subject = subject
  BY <1>2 DEF Remembers
<1>5. Reader5(t) /\ IsSeq(t) /\ 6 \in DOMAIN t
  <2>1. Reader5(t) /\ IsSeq(t)
    BY <1>1, <1>3, ReadersOf
  <2>2. Len(t) \in {7, 8}
    BY <1>1, <1>2, Version3Parts
  <2> HIDE DEF t
  <2>3. DOMAIN t = 1..Len(t)
    BY <2>1, ListFacts
  <2> QED
    BY <2>1, <2>2, <2>3
<1>6. t[6].tag = "Sequence"
  <2>1. FieldFine(cert_der, 6)
    BY <1>3
  <2> QED
    BY <2>1 DEF FieldFine
<1> HIDE DEF t
<1>7. Reader4(subject)
  BY <1>5, <1>6 DEF Reader5, ReaderOf
<1> DEFINE list == subject[1].content[1].content
           r    == common_name(subject)
<1> HIDE DEF subject
<1>8. /\ r.result = "Ok" <=> /\ peek(subject, "Set")
                             /\ Tags(subject[1].content) = << "Sequence" >>
                             /\ FineAttributes(list)
      /\ r.result = "Ok" => r.value = IF CommonIn(list) = {} THEN None
                                      ELSE Some(list[Len(list)].content)
  BY <1>7, CommonNameRead
<1> DEFINE last == Len(list) - 1
           names == {i \in DOMAIN list : i % 2 = 1}
           common == {i \in names : list[i] = Element("OID", "commonName")}
<1>9. NamesIn(list) = names /\ CommonIn(list) = common
  BY DEF NamesIn, CommonIn
<1>10. FineAttributes(list) <=> /\ Len(list) % 2 = 0
                                /\ \A i \in names : list[i].tag = "OID" /\ list[i + 1] # Malformed
                                /\ common \in {{}, {last}}
                                /\ common # {} => list[Len(list)].tag = "UTF8String"
  BY <1>9, Zenon DEF FineAttributes
<1>11. peek(subject, "Set") /\ Tags(subject[1].content) = << "Sequence" >> =>
           Len(list) = last + 1
  <2> SUFFICES ASSUME peek(subject, "Set"), Tags(subject[1].content) = << "Sequence" >>
               PROVE  Len(list) \in Nat
    OBVIOUS
  <2>1. IsSeq(subject)
    BY <1>7 DEF Reader4, ReaderOf
  <2>2. 1 \in DOMAIN subject /\ subject[1].tag = "Set"
    BY <2>1, PeekFirst
  <2> DEFINE set == subject[1].content
  <2>3. Reader3(set)
    BY <1>7, <2>2 DEF Reader4, ReaderOf
  <2> HIDE DEF set
  <2>4. IsSeq(set)
    BY <2>3 DEF Reader3, ReaderOf
  <2>5. Len(set) = 1 /\ set[1].tag = "Sequence"
    BY <2>4, TagsOfOne DEF set
  <2>6. 1 \in DOMAIN set
    BY <2>4, <2>5, ListFacts
  <2>7. Reader2(set[1].content)
    BY <2>3, <2>5, <2>6 DEF Reader3, ReaderOf
  <2>8. IsSeq(list)
    BY <2>7 DEF Reader2, ReaderOf, set
  <2> QED
    BY <2>8, ListFacts
<1> HIDE DEF list, names, common, last, r
<1>12. r.result = "Ok" <=>
           /\ peek(subject, "Set") /\ Tags(subject[1].content) = << "Sequence" >>
           /\ Len(list) % 2 = 0
           /\ \A i \in names : list[i].tag = "OID" /\ list[i + 1] # Malformed
           /\ common \in {{}, {last}}
           /\ common # {} => list[last + 1].tag = "UTF8String"
  BY <1>8, <1>10, <1>11
<1>13. r.result = "Ok" => r.value = IF common = {} THEN None
                                   ELSE Some(list[last + 1].content)
  BY <1>8, <1>9, <1>11
<1> QED
  BY <1>4, <1>12, <1>13, Zenon DEF CommonNameIsUnambiguous, list, names, common, last, r

(***************************************************************************)
(* The common name that is checked against name constraints and listed is  *)
(* the only one, at the end of the only list of the first relative name,   *)
(* and there is none without an error unless that list has only other      *)
(* attributes, for every certificate (common_name).                        *)
(***************************************************************************)
THEOREM CommonNameTheorem == Spec => []CommonNameIsUnambiguous
  BY ParseInvariant, CommonNameFollows, PTL
=============================================================================
