----------------------------- MODULE CrlParsing -----------------------------
(***************************************************************************)
(* Parsing of a certificate revocation list and of its entries (crl.rs:    *)
(* BorrowedCertRevocationList, BorrowedRevokedCert, RevocationReason), and *)
(* the conversion to an owned list.                                        *)
(***************************************************************************)
EXTENDS DistributionPoints

\* Mutant of crl_number_sensible: the leading zero is counted as well.
crl_number_as_encoded(value) ==
    LET number == nonnegative_integer(value)
    IN  /\ number.result = "Ok" /\ number.value.rest = << >>
        /\ Len(Head(value).content) <= 20

\* The number of a CRL is checked and not kept.
crl_number_sensible(value) ==
    LET number == nonnegative_integer(value)
    IN  number.result = "Ok" /\ number.value.rest = << >> /\ Len(number.value.value) <= 20

\* BorrowedCertRevocationList::remember_extension.
remember_crl_extension(crl, extension) ==
    remember_extension(extension, crl, LAMBDA id :
        CASE id = 20 -> IF crl_number_sensible(extension.value)
                        THEN Ok(crl) ELSE Err("InvalidCrlNumber")
          [] id = 27 -> Err("UnsupportedDeltaCrl")
          [] id = 28 -> set_extension_once(crl, "issuing_distribution_point",
                                           Ok(extension.value))
          [] id = 35 -> Ok(crl)
          [] OTHER   -> unsupported(extension, crl))

\* The entries are optional and only decoded when they are looked at.
revoked_certs(reader) ==
    IF peek(reader, "Sequence") THEN expect_tag(reader, "Sequence") ELSE Read(<< >>, reader)

\* The to-be-signed part.
tbs_cert_list(tbs, signed_data) ==
    AndThen(u8_from_der(tbs), LAMBDA version :
    IF version.value # 1 THEN Err("UnsupportedCrlVersion") ELSE
    AndThen(expect_tag(version.rest, "Sequence"), LAMBDA signature :
    IF signature.value # signed_data.algorithm THEN Err("SignatureAlgorithmMismatch") ELSE
    AndThen(expect_tag(signature.rest, "Sequence"), LAMBDA issuer :
    AndThen(Time_from_der(issuer.rest), LAMBDA this_update :
    AndThen(Time_from_der(this_update.rest), LAMBDA next_update :
    AndThen(revoked_certs(next_update.rest), LAMBDA revoked :
        LET crl == [ signed_data |-> signed_data, issuer |-> issuer.value,
                     revoked_certs |-> revoked.value, issuing_distribution_point |-> None ]
        IN  nested(revoked.rest, "ContextSpecificConstructed0", "MalformedExtensions",
                   LAMBDA tagged : nested_extensions(tagged, crl, remember_crl_extension))))))))

\* An issuing distribution point is parsed up front.
idp_checked(crl) ==
    IF ~IsSome(crl.issuing_distribution_point) THEN Ok(crl)
    ELSE AndThen(IssuingDistributionPoint_from_der(The(crl.issuing_distribution_point)),
                 LAMBDA idp : Ok(crl))

\* BorrowedCertRevocationList::from_der, with the read_all of the public function
\* of that name.
crl_from_der(crl_der) ==
    AndThen(nested(crl_der, "Sequence", "TrailingData", SignedData_from_der), LAMBDA outer :
    AndThen(read_to_end(outer.value.tbs, "BadDer", LAMBDA tbs :
                tbs_cert_list(tbs, outer.value.signed_data)), LAMBDA crl :
    AndThen(idp_checked(crl), LAMBDA checked :
        IF outer.rest = << >> THEN Ok(checked) ELSE Err("TrailingData"))))

-----------------------------------------------------------------------------
(* Entries.                                                                *)

RevocationReason == (0..10) \ {7}

\* RevocationReason::from_der.
RevocationReason_from_der(reader) ==
    AndThen(expect_tag(reader, "Enum"), LAMBDA r :
        IF Len(r.value) # 1 THEN Err("BadDer")
        ELSE IF r.value[1] \in RevocationReason THEN Read(r.value[1], r.rest)
        ELSE Err("UnsupportedRevocationReason"))

\* BorrowedRevokedCert::remember_extension.
remember_entry_extension(entry, extension) ==
    remember_extension(extension, entry, LAMBDA id :
        CASE id = 21 -> set_extension_once(entry, "reason_code",
                            read_to_end(extension.value, "TrailingData",
                                        RevocationReason_from_der))
          [] id = 24 -> set_extension_once(entry, "invalidity_date",
                            read_to_end(extension.value, "BadDer", Time_from_der))
          [] id = 29 -> Err("UnsupportedIndirectCrl")
          [] OTHER   -> unsupported(extension, entry))

\* The extensions of an entry; none is sometimes encoded as an empty SEQUENCE.
entry_extensions(entry, reader) ==
    IF reader = << >> THEN Read(entry, reader)
    ELSE IF ~peek(reader, "Sequence") THEN Err("BadDer")
    ELSE IF Head(reader).content = << >> THEN Read(entry, Tail(reader))
    ELSE AndThen(nested_extensions(<< Head(reader) >>, entry, remember_entry_extension),
                 LAMBDA r : Read(r.value, Tail(reader)))

\* BorrowedRevokedCert::from_der of the reader's next element.
revoked_cert_from_der(reader) ==
    nested(reader, "Sequence", "TrailingData", LAMBDA der :
        IF ~peek(der, "Integer") THEN Err("InvalidSerialNumber")
        ELSE AndThen(Time_from_der(Tail(der)), LAMBDA date :
                 entry_extensions([ serial_number |-> Head(der).content,
                                    revocation_date |-> date.value,
                                    reason_code |-> None, invalidity_date |-> None ],
                                  date.rest)))

\* What the iterator yields for the entries of a CRL, one by one.
entries(crl) ==
    [i \in DOMAIN crl.revoked_certs |->
        AndThen(revoked_cert_from_der(<< crl.revoked_certs[i] >>), LAMBDA r : Ok(r.value))]

\* Mutant of to_owned: entries that do not decode are left out.
to_owned_filtered(crl) ==
    Ok({ e.value : e \in { entries(crl)[i] : i \in { k \in DOMAIN entries(crl) :
                                                     entries(crl)[k].result = "Ok" } } })

\* BorrowedCertRevocationList::to_owned: the map from serial numbers to entries, as
\* a set of entries.  The first error ends it, the last entry of a serial stays.
to_owned(crl) ==
    LET es      == entries(crl)
        failing == {i \in DOMAIN es : es[i].result # "Ok"}
        kept(i) == \A j \in DOMAIN es :
                       es[j].value.serial_number = es[i].value.serial_number => j <= i
    IN  IF failing # {} THEN es[Min(failing)]
        ELSE Ok({es[i].value : i \in {k \in DOMAIN es : kept(k)}})
=============================================================================
