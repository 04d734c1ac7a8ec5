------------------------- MODULE MCRevocationClient -------------------------
(***************************************************************************)
(* CRLs with one structural defect in one place, with issuing distribution *)
(* points of up to MaxFields fields, or that many after a full name, and   *)
(* with up to MaxEntries entries.                                          *)
(***************************************************************************)
EXTENDS RevocationClient

CONSTANTS MaxFields, MaxEntries

One(elements) == << [tag |-> "Sequence", content |-> elements] >>

\* One element left out, doubled, swapped with the next one, unreadable or added.
Edits(s) ==
    {s, << Malformed >> \o s, Append(s, Element("OID", "added"))}
    \cup {RemoveAt(s, i) : i \in DOMAIN s}
    \cup {InsertAt(s, i, s[i]) : i \in DOMAIN s}
    \cup {[s EXCEPT ![i] = Malformed] : i \in DOMAIN s}
    \cup {[s EXCEPT ![i] = s[i + 1], ![i + 1] = s[i]] : i \in 1..(Len(s) - 1)}

Leaf(name) == One(<< Element("OID", name) >>)

Ext(id, critical, value) ==
    Element("Sequence", << Element("OID", id), Element("Boolean", critical),
                           Element("OctetString", value) >>)

Number(octets) == Ext("cRLNumber", << 0 >>, << Element("Integer", octets) >>)

Long(n, first) == [i \in 1..n |-> IF i = 1 THEN first ELSE 200]

Uri(u) == Element("ContextSpecific6", u)

Point(elements) == Element("ContextSpecificConstructed0", elements)

FullName(uris) == Point(<< Point(uris) >>)

IdpFields == {
    FullName(<< Uri("u") >>), FullName(<< Element("ContextSpecific2", "u") >>),
    Point(<< Element("ContextSpecificConstructed1", << >>) >>), Point(<< >>),
    Point(<< Point(<< Uri("u") >>), Uri("u") >>),
    Element("ContextSpecific1", << 255 >>), Element("ContextSpecific2", << 255 >>),
    Element("ContextSpecific3", << 0, 128 >>),
    Element("ContextSpecific4", << 255 >>), Element("ContextSpecific4", << 0 >>),
    Element("ContextSpecific5", << 255 >>), Element("ContextSpecific5", << 1 >>),
    Malformed }

Idp(value) == Ext("issuingDistributionPoint", << 255 >>, value)

PlainIdp == Idp(One(<< FullName(<< Uri("u") >>) >>))

ExtensionLists ==
    {<< Idp(One(fields)) >> : fields \in UNION {[1..n -> IdpFields] : n \in 0..MaxFields}}
    \cup {<< Idp(One(<< FullName(<< Uri("u") >>) >> \o fields)) >> :
              fields \in [1..MaxFields -> IdpFields]}
    \cup {<< Idp(edited) >> : edited \in Edits(Head(PlainIdp.content[3].content).content)}
    \cup {<< Idp(edited) >> : edited \in Edits(PlainIdp.content[3].content)}
    \cup {<< Number(v) >> : v \in {<< >>, << 0 >>, << 0, 7 >>, << 0, 200 >>, << 128 >>,
                                   Long(20, 1), Long(20, 0), Long(21, 0), Long(21, 1)}}
    \cup {<< Ext(id, c, << >>) >> : id \in {"authorityKeyIdentifier", "deltaCRLIndicator",
                                            "nameConstraints", "logotype"},
                                    c \in {<< 0 >>, << 255 >>, << 1 >>}}
    \cup Edits(<< Number(<< 1 >>), PlainIdp >>)

Revoked(serial, extensions) ==
    Element("Sequence", << Element("Integer", << serial >>), Element("UTCTime", "t") >>
                        \o extensions)

Reason(octets) == Ext("cRLReasons", << 0 >>, << Element("Enum", octets) >>)

InvalidityDate(date) == Ext("invalidityDate", << 0 >>, << Element("GeneralizedTime", date) >>)

Entries == {
    Revoked(1, << >>), Revoked(2, One(<< >>)), Revoked(1, One(<< Reason(<< 4 >>) >>)),
    Revoked(2, One(<< InvalidityDate("t"), Reason(<< 10 >>) >>)),
    Revoked(1, One(<< Reason(<< 7 >>) >>)), Revoked(1, One(<< Reason(<< 1 >>), Reason(<< 1 >>) >>)),
    Revoked(2, One(<< InvalidityDate("malformed") >>)),
    Revoked(1, One(<< Ext("certificateIssuer", << 255 >>, << >>) >>)),
    Revoked(1, One(<< Ext("logotype", << 255 >>, << >>) >>)),
    Revoked(1, << Malformed >>), Element("Sequence", << Element("UTCTime", "t") >>),
    Malformed }

EntryLists == UNION {[1..n -> Entries] : n \in 0..MaxEntries}

Algorithm == Leaf("ecdsa-with-SHA256")

Tbs(entry_list, extensions) ==
    << Element("Integer", << 1 >>) >> \o One(Algorithm) \o One(Leaf("issuer"))
    \o << Element("UTCTime", "t"), Element("GeneralizedTime", "t") >>
    \o One(entry_list) \o << Point(One(extensions)) >>

Body(tbs) == One(tbs) \o One(Algorithm) \o << Element("BitString", << 0, 9 >>) >>

Plain == Tbs(<< Revoked(1, << >>) >>, << Number(<< 1 >>) >>)

Unlisted == RemoveAt(Plain, 6)

\* Names of a distribution point, readable or not, and lists of them.
GeneralNames == {Uri("u"), Uri("v"), Element("ContextSpecific2", "u"), Malformed}

NameLists == UNION {[1..n -> GeneralNames] : n \in 0..2}

ScopedCrls ==
    {One(Body(Tbs(<< Revoked(1, << >>) >>, << Idp(One(<< FullName(l) >>)) >>))) : l \in NameLists}

MCCrlInputs ==
    ScopedCrls \cup
    {One(Body(Tbs(<< Revoked(1, << >>) >>, list))) : list \in ExtensionLists}
    \cup {One(Body(Tbs(list, << Number(<< 1 >>) >>))) : list \in EntryLists}
    \cup {One(Body(tbs)) : tbs \in Edits(Plain) \cup Edits(Unlisted)}
    \cup {One(Body([Plain EXCEPT ![7] = Point(inner)])) : inner \in Edits(Plain[7].content)}
    \cup {One(Body([Plain EXCEPT ![1].content = v])) : v \in {<< 0 >>, << 2 >>, << 1, 1 >>}}
    \cup {One(Body([Plain EXCEPT ![i].content = "malformed"])) : i \in {4, 5}}
    \cup {One(body) : body \in Edits(Body(Plain))}
    \cup {One([Body(Plain) EXCEPT ![2].content = Leaf("ed25519")])}
    \cup {One([Body(Plain) EXCEPT ![3].content = << 0, 8 >>])}
    \cup Edits(One(Body(Plain)))

Spki(key) == Ok([algorithm |-> "ec", key |-> << key >>])

Query(issuer, serial, points, is_ca, issuer_ku) ==
    [ issuer |-> Leaf(issuer), serial |-> << serial >>, points |-> points, is_ca |-> is_ca,
      issuer_spki |-> Spki(9), issuer_ku |-> issuer_ku ]

Dp(uris) == Element("Sequence", << FullName(uris) >>)

At(uris) == Some(<< Dp(uris) >>)

SomeNames == {<< >>, << Element("ContextSpecific2", "u") >>, << Uri("u"), Malformed >>,
              << Element("ContextSpecific2", "u"), Uri("u") >>}

FewNames == {<< Uri("u") >>, << Malformed, Uri("v") >>, << Uri("v"), Uri("u") >>}

MCQueries ==
    {Query("issuer", serial, None, is_ca, None) : serial \in {1, 2, 3}, is_ca \in BOOLEAN}
    \cup {Query("issuer", serial, points, FALSE, Some(Ok({6}))) :
              serial \in {1, 3},
              points \in {At(<< Uri("u") >>), At(<< Uri("v") >>), Some(<< Malformed >>),
                          Some(One(<< FullName(<< Uri("u") >>),
                                      Element("ContextSpecific1", << 0, 128 >>) >>)),
                          Some(One(<< Element("ContextSpecific1", << 0, 128 >>) >>)),
                          Some(One(<< Element("ContextSpecificConstructed2", << >>) >>))}}
    \cup {Query("issuer", 1, At(l), FALSE, None) : l \in SomeNames \cup FewNames}
    \cup {Query("issuer", 1, Some(<< Dp(l), Dp(m) >>), FALSE, None) : l, m \in FewNames}
    \cup {Query("issuer", 1, Some(<< Malformed, Dp(l) >>), FALSE, None) : l \in FewNames}
    \cup {Query("other", 3, None, is_ca, None) : is_ca \in BOOLEAN}
    \cup {Query("issuer", 3, None, FALSE, Some(Ok({})))}

MCAlgorithms == << [signature_alg |-> Algorithm, public_key_alg |-> "ec"] >>
=============================================================================
