---------------------------- MODULE MCCertParsing ----------------------------
(***************************************************************************)
(* Certificates with one structural defect in one place, lists of up to    *)
(* MaxExtensions extensions, and subjects of many forms.                   *)
(***************************************************************************)
EXTENDS CertParsing

CONSTANTS MaxExtensions, MaxAttributes

Seq1(elements) == << [tag |-> "Sequence", content |-> elements] >>

\* One element left out, doubled, swapped with the next one, unreadable or added.
Edits(s) ==
    {s, << Malformed >> \o s, Append(s, Element("Sequence", << >>))}
    \cup {RemoveAt(s, i) : i \in DOMAIN s}
    \cup {InsertAt(s, i, s[i]) : i \in DOMAIN s}
    \cup {[s EXCEPT ![i] = Malformed] : i \in DOMAIN s}
    \cup {[s EXCEPT ![i] = s[i + 1], ![i + 1] = s[i]] : i \in 1..(Len(s) - 1)}

Leaf(name) == Seq1(<< Element("OID", name) >>)

Ext(id, critical, value) ==
    Element("Sequence", << Element("OID", id), Element("Boolean", critical),
                           Element("OctetString", value) >>)

WholeExtensions == {
    Ext("keyUsage", << 255 >>, << Element("BitString", << 1, 6 >>) >>),
    Ext("nameConstraints", << 255 >>, Seq1(Leaf("example.com"))),
    Ext("nameConstraints", << 0 >>, Seq1(Leaf("example.org"))),
    Ext("subjectAltName", << 0 >>, Leaf("name")),
    Ext("certificatePolicies", << 0 >>, << >>),
    Ext("certificatePolicies", << 255 >>, << >>),
    Ext("logotype", << 0 >>, << >>),
    Ext("logotype", << 255 >>, << >>) }

BrokenExtensions ==
    {Element("Sequence", edited) :
         edited \in Edits(Ext("nameConstraints", << 255 >>, Leaf("example.com")).content)}
    \cup {Ext("subjectAltName", << 0 >>, edited) : edited \in Edits(Leaf("name"))}
    \cup {Ext("keyUsage", octets, << >>) : octets \in {<< >>, << 1 >>, << 255, 0 >>}}
    \cup {Malformed}

Lists ==
    UNION {[1..n -> WholeExtensions] : n \in 0..MaxExtensions}
    \cup UNION {{<< e >>, << e, w >>, << w, e >>} : e \in BrokenExtensions, w \in WholeExtensions}

Algorithm == Leaf("ecdsa-with-SHA256")

Version(octets) == Element("ContextSpecificConstructed0", << Element("Integer", octets) >>)

Mandatory ==
    << Version(<< 2 >>), Element("Integer", << 77 >>) >>
    \o Seq1(Algorithm) \o Seq1(Leaf("issuer")) \o Seq1(Leaf("validity"))
    \o Seq1(Leaf("subject")) \o Seq1(Leaf("key"))

Tagged(inner) == << Element("ContextSpecificConstructed3", inner) >>

Body(tbs_value) ==
    Seq1(tbs_value) \o Seq1(Algorithm) \o << Element("BitString", << 0, 9 >>) >>

OneList == << CHOOSE e \in WholeExtensions : Id(e) = "nameConstraints" >>

Plain == Mandatory \o Tagged(Seq1(OneList))

\* A certificate of version 1 has no version field and no extensions.
V1 == Tail(Mandatory)

\* Subjects: attribute lists of up to MaxAttributes elements, and names around them.
AttributeElements == {
    Element("OID", "commonName"), Element("OID", "organizationName"),
    Element("UTF8String", "host"), Element("PrintableString", "host"), Malformed }

AttributeLists == UNION {[1..n -> AttributeElements] : n \in 0..MaxAttributes}

OneAttribute(oid) == Seq1(<< Element("OID", oid), Element("UTF8String", "host") >>)

RelativeNames ==
    {Element("Set", inner) : inner \in Edits(OneAttribute("commonName"))}
    \cup {Element("Set", OneAttribute("organizationName")), Malformed}

Subjects ==
    {<< Element("Set", Seq1(list)) >> : list \in AttributeLists}
    \cup UNION {[1..n -> RelativeNames] : n \in 0..2}

MCCertificates ==
    {Seq1(Body([Plain EXCEPT ![6] = Element("Sequence", subject)])) : subject \in Subjects}
    \cup
    {Seq1(Body(Mandatory \o Tagged(Seq1(list)))) : list \in Lists}
    \cup {Seq1(Body(Mandatory \o Tagged(inner))) : inner \in Edits(Seq1(OneList))}
    \cup {Seq1(Body(t)) : t \in Edits(Plain) \cup Edits(Mandatory)
                                \cup Edits(V1) \cup Edits(V1 \o Tagged(Seq1(OneList)))}
    \cup {Seq1(Body([Plain EXCEPT ![1] = v])) :
              v \in {Version(<< 0 >>), Version(<< 1 >>), Version(<< 0, 2 >>), Version(<< 1, 0 >>)}
                    \cup {Element("ContextSpecificConstructed0", inner) :
                              inner \in Edits(Version(<< 2 >>).content)}}
    \cup {Seq1(body) : body \in Edits(Body(Plain)) \cup Edits(Body(V1))}
    \cup {Seq1([Body(Plain) EXCEPT ![3] = Element("BitString", bits)]) :
              bits \in {<< >>, << 0 >>, << 3, 8 >>}}
    \cup {Seq1([Body(Plain) EXCEPT ![2] = Element("Sequence", Leaf("ed25519"))])}
    \cup Edits(Seq1(Body(Plain))) \cup Edits(Seq1(Body(V1)))
=============================================================================
