-------------------------------- MODULE X509 --------------------------------
(***************************************************************************)
(* Extensions of certificates, CRLs and CRL entries, and names of          *)
(* distribution points (x509.rs).                                          *)
(*                                                                         *)
(* An extension is [id, critical, value]: the id is the name of the        *)
(* extension, the value the sequence of elements in its OCTET STRING.      *)
(***************************************************************************)
EXTENDS DerElements

\* The standard extensions with their last arc; other names are outside id-ce.
ID_CE == [
    keyUsage |-> 15, subjectAltName |-> 17, basicConstraints |-> 19,
    cRLNumber |-> 20, cRLReasons |-> 21, invalidityDate |-> 24,
    deltaCRLIndicator |-> 27, issuingDistributionPoint |-> 28,
    certificateIssuer |-> 29, nameConstraints |-> 30,
    cRLDistributionPoints |-> 31, certificatePolicies |-> 32,
    authorityKeyIdentifier |-> 35, extKeyUsage |-> 37 ]

\* Extension::from_der.
Extension_from_der(reader) ==
    AndThen(expect_tag(reader, "OID"), LAMBDA id :
    AndThen(bool_from_der(id.rest), LAMBDA critical :
    AndThen(expect_tag(critical.rest, "OctetString"), LAMBDA value :
        Read([id |-> id.value, critical |-> critical.value, value |-> value.value],
             value.rest))))

\* Mutant of Extension::unsupported: what is not understood is ignored.
unsupported_ignored(extension, holder) == Ok(holder)

\* Extension::unsupported; `holder' is the object the extensions are for.
unsupported(extension, holder) ==
    IF extension.critical THEN Err("UnsupportedCriticalExtension") ELSE Ok(holder)

\* Mutant of set_extension_once: the last value counts.
set_extension_always(holder, field, parsed) ==
    AndThen(parsed, LAMBDA v : Ok([holder EXCEPT ![field] = Some(v)]))

\* The parser only runs if the extension has no value yet.
set_extension_once(holder, field, parsed) ==
    IF IsSome(holder[field]) THEN Err("ExtensionValueInvalid")
    ELSE AndThen(parsed, LAMBDA v : Ok([holder EXCEPT ![field] = Some(v)]))

\* Handler gets the last arc of a standard extension.
remember_extension(extension, holder, Handler(_)) ==
    IF extension.id \in DOMAIN ID_CE THEN Handler(ID_CE[extension.id])
    ELSE unsupported(extension, holder)

\* One round of der::nested_of_mut: the decoder, which remembers the extension,
\* runs before the end of the element is looked at.
nested_extension(reader, Remember(_)) ==
    nested(reader, "Sequence", "TrailingData",
           LAMBDA inner : AndThen(Extension_from_der(inner), LAMBDA extension :
                          AndThen(Remember(extension.value), LAMBDA holder :
                              Read(holder, extension.rest))))

\* der::nested_of_mut over extensions: one or more of them, each remembered in
\* the holder before the next one is read.
nested_extensions(reader, holder, Remember(_, _)) ==
    nested(reader, "Sequence", "TrailingData", LAMBDA outer :
        IF outer = << >> THEN Err("TrailingData")
        ELSE AndThen(Loop(LAMBDA h, e : AndThen(
                              nested_extension(<< e >>, LAMBDA x : Remember(h, x)),
                              LAMBDA r : Ok(r.value)),
                          holder, outer),
                     LAMBDA h : Read(h, << >>)))

\* DistributionPointName::from_der: the sequence of general names, if the name is
\* a full one.  The names are decoded when they are used.
DistributionPointName_from_der(reader) ==
    IF reader = << >> THEN Err("BadDer")
    ELSE CASE Head(reader).tag = "ContextSpecificConstructed0" ->
                  Ok([type |-> "FullName", names |-> Head(reader).content])
           [] Head(reader).tag = "ContextSpecificConstructed1" ->
                  Ok([type |-> "NameRelativeToCrlIssuer"])
           [] OTHER -> Err("BadDer")

-----------------------------------------------------------------------------
(* What an extension is to be, read off its elements as a whole.           *)

WellFormedExtension(e) ==
    /\ e.tag = "Sequence"
    /\ Tags(e.content) \in {<< "OID", "OctetString" >>, << "OID", "Boolean", "OctetString" >>}
    /\ Len(e.content) = 3 => e.content[2].content \in {<< 0 >>, << 255 >>}

Id(e)       == e.content[1].content
Critical(e) == Len(e.content) = 3 /\ e.content[2].content = << 255 >>
Content(e)  == e.content[Len(e.content)].content
=============================================================================
