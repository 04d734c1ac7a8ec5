----------------------------- MODULE CertParsing -----------------------------
(***************************************************************************)
(* Parsing of a certificate, field by field and extension by extension     *)
(* (cert.rs: Cert::from_der), and its use as a trust anchor, with the      *)
(* second parser for version 1 certificates (trust_anchor.rs:              *)
(* extract_trust_anchor).  The common name of the subject is only looked   *)
(* for when it is needed (subject_name/verify.rs: common_name).            *)
(***************************************************************************)
EXTENDS X509, SequencesExt

CONSTANT Certificates   \* inputs: sequences of elements

\* Readers as deep as the parsers look: certificate, body, to-be-signed part, tag of the
\* extensions or subject, their list or a name, extension or attributes, value.
ASSUME CertificatesAssumption == \A der \in Certificates : Reader7(der)

VARIABLES
    cert_der,     \* the input
    pc,           \* "signed", "fields", "extensions", "parsed" or "done"
    tbs,          \* reader of the to-be-signed part
    tagged,       \* reader of what follows the list of extensions in its tag
    extensions,   \* reader of the list of extensions
    cert,         \* the certificate so far
    result,       \* of Cert::from_der: "Ok" or an error
    anchor        \* Result of extract_trust_anchor, when pc = "done"

vars == << cert_der, pc, tbs, tagged, extensions, cert, result, anchor >>

\* The mandatory fields of a TBSCertificate in their order.
Fields == << "version", "serial", "signature", "issuer", "validity", "subject", "spki" >>

\* The fields of Cert for extensions, by their last arc.
Remembered == [
    key_usage |-> 15, subject_alt_name |-> 17, basic_constraints |-> 19,
    name_constraints |-> 30, crl_distribution_points |-> 31, eku |-> 37 ]

Undecided == Err("Undecided")

Init ==
    /\ cert_der \in Certificates
    /\ pc = "signed"
    /\ tbs = << >> /\ tagged = << >> /\ extensions = << >>
    /\ cert = [f \in DOMAIN Remembered \cup {"signed_data"} |-> None]
    /\ result = "Ok"
    /\ anchor = Undecided

Fail(error) ==
    /\ pc' = "parsed"
    /\ result' = error
    /\ UNCHANGED << cert_der, tbs, tagged, extensions, cert, anchor >>

\* The outer SEQUENCE, its signature algorithm and its signature.
ReadSignedData ==
    LET signed == read_to_end(cert_der, "TrailingData", LAMBDA der :
                      nested(der, "Sequence", "TrailingData", SignedData_from_der))
    IN  /\ pc = "signed"
        /\ IF signed.result = "Ok"
           THEN /\ tbs' = signed.value.tbs
                /\ cert' = [cert EXCEPT !.signed_data = signed.value.signed_data]
                /\ pc' = "fields"
                /\ UNCHANGED << cert_der, tagged, extensions, result, anchor >>
           ELSE Fail(signed.result)

version3(reader) ==
    nested(reader, "ContextSpecificConstructed0", "UnsupportedCertVersion",
           LAMBDA inner : AndThen(u8_from_der(inner), LAMBDA version :
               IF version.value = 2 THEN Ok(version) ELSE Err("UnsupportedCertVersion")))

signature(reader) ==
    AndThen(expect_tag(reader, "Sequence"), LAMBDA algorithm :
        IF algorithm.value = cert.signed_data.algorithm
        THEN Ok(algorithm) ELSE Err("SignatureAlgorithmMismatch"))

lenient_certificate_serial_number(reader) == expect_tag(reader, "Integer")

read_field(field) ==
    CASE field = "version"   -> version3(tbs)
      [] field = "serial"    -> lenient_certificate_serial_number(tbs)
      [] field = "signature" -> signature(tbs)
      [] OTHER               -> expect_tag(tbs, "Sequence")

\* The mandatory fields that have been read so far are fields of the certificate.
Unread == {i \in DOMAIN Fields : Fields[i] \notin DOMAIN cert}

ReadField ==
    /\ pc = "fields" /\ Unread # {}
    /\ LET field == Fields[Min(Unread)]
           read  == read_field(field)
       IN  IF read.result = "Ok"
           THEN /\ cert' = [f \in DOMAIN cert \cup {field} |->
                                IF f = field THEN read.value.value ELSE cert[f]]
                /\ tbs' = read.value.rest
                /\ UNCHANGED << cert_der, pc, tagged, extensions, result, anchor >>
           ELSE Fail(read.result)

NoExtensions ==
    /\ pc = "fields" /\ Unread = {} /\ tbs = << >>
    /\ pc' = "parsed"
    /\ UNCHANGED << cert_der, tbs, tagged, extensions, cert, result, anchor >>

\* [3], and in it the SEQUENCE of extensions.
OpenExtensions ==
    /\ pc = "fields" /\ Unread = {} /\ tbs # << >>
    /\ IF peek(tbs, "ContextSpecificConstructed3") /\ peek(Head(tbs).content, "Sequence")
       THEN /\ tbs' = Tail(tbs)
            /\ tagged' = Tail(Head(tbs).content)
            /\ extensions' = Head(Head(tbs).content).content
            /\ pc' = "extensions"
            /\ UNCHANGED << cert_der, cert, result, anchor >>
       ELSE Fail("TrailingData")

\* The content of an extension with a field: a SEQUENCE, but for the key usage,
\* which is parsed when it is used.
extension_value(field, extension) ==
    IF field = "key_usage" THEN Ok(extension.value)
    ELSE read_to_end(extension.value, "BadDer", LAMBDA value : expect_tag(value, "Sequence"))

remember_cert_extension(extension) ==
    remember_extension(extension, cert, LAMBDA id :
        LET fields == {f \in DOMAIN Remembered : Remembered[f] = id}
        IN  IF fields = {} THEN unsupported(extension, cert)
            ELSE LET f == CHOOSE f \in fields : TRUE
                 IN  set_extension_once(cert, f, extension_value(f, extension)))

\* One round of the loop; after the last one nothing may follow in [3] nor in tbs.
RememberExtension ==
    LET read == nested_extension(extensions, remember_cert_extension)
        last == read.value.rest = << >>
    IN  /\ pc = "extensions"
        /\ IF read.result # "Ok" THEN Fail(read.result)
           ELSE IF last /\ tagged \o tbs # << >> THEN Fail("TrailingData")
           ELSE /\ cert' = read.value.value
                /\ extensions' = read.value.rest
                /\ pc' = IF last THEN "parsed" ELSE pc
                /\ UNCHANGED << cert_der, tbs, tagged, result, anchor >>

-----------------------------------------------------------------------------
(* extract_trust_anchor, once Cert::from_der has returned.                 *)

TrustAnchor(subject, spki, name_constraints) ==
    [subject |-> subject, spki |-> spki, name_constraints |-> name_constraints]

Finish(verdict) ==
    /\ pc = "parsed"
    /\ pc' = "done"
    /\ anchor' = verdict
    /\ UNCHANGED << cert_der, tbs, tagged, extensions, cert, result >>

KeepAnchor ==
    result = "Ok" /\ Finish(Ok(TrustAnchor(cert.subject, cert.spki, cert.name_constraints)))

\* A reader's first elements have these tags: skip, or expect_tag, one by one.
Starts(reader, tags) ==
    Len(reader) >= Len(tags) /\ \A i \in DOMAIN tags : reader[i].tag = tags[i]

v1_tags == << "Integer", "Sequence", "Sequence", "Sequence", "Sequence", "Sequence" >>

\* Mutant of the version 1 parser: what follows the key is ignored.
v1_tbs_open(reader) == Starts(reader, v1_tags)

\* Serial, signature, issuer, validity, subject and key, and nothing else.
v1_tbs(reader) == Starts(reader, v1_tags) /\ Len(reader) = 6

\* extract_trust_anchor_from_v1_cert_der, whose every error becomes BadDer.
anchor_from_v1 ==
    IF /\ Starts(cert_der, << "Sequence" >>) /\ Len(cert_der) = 1
       /\ LET der == Head(cert_der).content
          IN  /\ Starts(der, << "Sequence", "Sequence", "BitString" >>) /\ Len(der) = 3
              /\ v1_tbs(der[1].content)
    THEN LET v1 == Head(cert_der).content[1].content
         IN  Ok(TrustAnchor(v1[5].content, v1[6].content, None))
    ELSE Err("BadDer")

TryVersion1 == result = "UnsupportedCertVersion" /\ Finish(anchor_from_v1)

Refuse == result \notin {"Ok", "UnsupportedCertVersion"} /\ Finish(Err(result))

Done == pc = "done" /\ UNCHANGED vars

Next ==
    \/ ReadSignedData \/ ReadField \/ NoExtensions \/ OpenExtensions \/ RememberExtension
    \/ KeepAnchor \/ TryVersion1 \/ Refuse
    \/ Done

Spec == Init /\ [][Next]_vars

-----------------------------------------------------------------------------
(* The common name of a subject, a sequence of SETs.                       *)

\* Mutant of the loop over the attributes: a name of any type of string.
name_value_of_any_type(reader) ==
    IF reader = << >> THEN Err("BadDer") ELSE Read(Head(reader).content, Tail(reader))

name_value(reader) == expect_tag(reader, "UTF8String")

\* Identifiers and values, until there is a common name, something else, or the end.
attributes(reader) ==
    LET n     == Len(reader)
        ends  == {k \in 1..(n + 1) :
                      /\ k % 2 = 1
                      /\ ~ /\ k < n /\ reader[k].tag = "OID"
                           /\ reader[k].content # "commonName"
                           /\ reader[k + 1].tag # "Malformed"}
        k     == Min(ends)
        after == SubSeq(reader, k + 1, n)
    IN  IF k > n THEN Read(None, << >>)
        ELSE IF reader[k].tag = "OID" /\ reader[k].content = "commonName"
        THEN AndThen(name_value(after), LAMBDA v : Read(Some(v.value), v.rest))
        ELSE Err("BadDer")

\* Result<Option<name>>; what follows the first SET is not looked at.
common_name(subject) ==
    AndThen(nested(subject, "Set", "TrailingData", LAMBDA set :
                nested(set, "Sequence", "TrailingData", attributes)),
            LAMBDA name : Ok(name.value))

-----------------------------------------------------------------------------
(* What the fields are to be, read off the input as a whole.               *)

\* The names of the extensions that a certificate remembers, and of its fields.
Understood == [
    keyUsage |-> "key_usage", subjectAltName |-> "subject_alt_name",
    basicConstraints |-> "basic_constraints", nameConstraints |-> "name_constraints",
    cRLDistributionPoints |-> "crl_distribution_points", extKeyUsage |-> "eku" ]

Conforming(list) ==
    /\ list # << >>
    /\ \A i \in DOMAIN list : WellFormedExtension(list[i])
    /\ \A i \in DOMAIN list :
           LET e == list[i]
           IN  IF Id(e) \in DOMAIN Understood
               THEN /\ Id(e) # "keyUsage" => Tags(Content(e)) = << "Sequence" >>
                    /\ \A j \in DOMAIN list \ {i} : Id(e) # Id(list[j])
               ELSE ~Critical(e)

Version3(der) ==
    /\ Tags(der) = << "Sequence" >>
    /\ LET body == der[1].content IN
       /\ Tags(body) = << "Sequence", "Sequence", "BitString" >>
       /\ body[3].content # << >> /\ body[3].content[1] = 0
       /\ LET t == body[1].content IN
          /\ Len(t) \in {7, 8}
          /\ Tags(SubSeq(t, 1, 7)) = << "ContextSpecificConstructed0" >> \o v1_tags
          /\ t[1].content = << Element("Integer", << 2 >>) >>
          /\ t[3].content = body[2].content
          /\ Len(t) = 8 => /\ t[8].tag = "ContextSpecificConstructed3"
                           /\ Tags(t[8].content) = << "Sequence" >>
                           /\ Conforming(t[8].content[1].content)

\* All elements of the input that are extensions, wherever they are.
ExtensionsOf(der) ==
    IF Tags(der) # << "Sequence" >> \/ ~peek(der[1].content, "Sequence") THEN {}
    ELSE UNION { UNION { {e \in Range(list.content) : WellFormedExtension(e)} :
                         list \in {l \in Range(t.content) : l.tag = "Sequence"} } :
                 t \in {u \in Range(der[1].content[1].content) :
                            u.tag = "ContextSpecificConstructed3"} }

\* Cert::from_der, which stops at the first thing it does not expect in any of
\* five nested readers, accepts exactly the version 3 certificates whose every
\* extension is understood once, or not critical, and nothing else with them.
AcceptsConforming == pc = "parsed" => (result = "Ok" <=> Version3(cert_der))

\* No two readers of an accepted certificate can disagree on an extension: the
\* field has the value of every extension with its name, and is None if there is
\* none, however the extensions are ordered (remember_cert_extension).
ExtensionsUnambiguous ==
    pc = "parsed" /\ result = "Ok" =>
        \A name \in DOMAIN Understood :
            LET named == {e \in ExtensionsOf(cert_der) : Id(e) = name}
                value == cert[Understood[name]]
            IN  /\ named = {} => value = None
                /\ \A e \in named :
                       value = Some(IF name = "keyUsage" THEN Content(e)
                                    ELSE Head(Content(e)).content)

\* An anchor never loses name constraints that its certificate mentions: neither
\* through the fallback to the parser without extensions, nor through a repeated
\* extension (extract_trust_anchor).
AnchorsKeepConstraints ==
    pc = "done" /\ anchor.result = "Ok" =>
        \A e \in ExtensionsOf(cert_der) :
            Id(e) = "nameConstraints" =>
                anchor.value.name_constraints = Some(Head(Content(e)).content)

\* The common name that is checked against name constraints and listed is a UTF-8
\* string that ends the only attribute list of the first relative name, with no
\* common name before it; a subject whose first name is of any other form is an
\* error, unless it consists of other attributes (common_name).
CommonNameIsUnambiguous ==
    pc = "parsed" /\ result = "Ok" =>
        LET found  == common_name(cert.subject)
            single == /\ peek(cert.subject, "Set")
                      /\ Tags(cert.subject[1].content) = << "Sequence" >>
            list   == cert.subject[1].content[1].content
            last   == Len(list) - 1
            names  == {i \in DOMAIN list : i % 2 = 1}
            common == {i \in names : list[i] = Element("OID", "commonName")}
        IN  /\ found.result = "Ok" <=>
                   /\ single /\ Len(list) % 2 = 0
                   /\ \A i \in names : list[i].tag = "OID" /\ list[i + 1] # Malformed
                   /\ common \in {{}, {last}}
                   /\ common # {} => list[last + 1].tag = "UTF8String"
            /\ found.result = "Ok" => found.value = IF common = {} THEN None
                                                   ELSE Some(list[last + 1].content)
=============================================================================
