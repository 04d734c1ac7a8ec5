------------------------------- MODULE Errors -------------------------------
(***************************************************************************)
(* Results and errors of webpki (error.rs).                                *)
(*                                                                         *)
(* A Rust Result<(), Error> is a string: "Ok", or the name of the Error    *)
(* variant.  A Result<T, Error> is a record Ok(v) or Err(e).  An Option<T> *)
(* is a sequence of length at most one.  The payload of TrailingData (a    *)
(* DerTypeId, used in messages only) is left out.                          *)
(***************************************************************************)
EXTENDS Integers, Sequences, FiniteSetsExt

\* Error::rank: how specific an error is, the larger the more specific.
rank == [
    CertNotValidYet |-> 29, CertExpired |-> 29,
    CertNotValidForName |-> 28,
    CertRevoked |-> 27, UnknownRevocationStatus |-> 27,
    InvalidCrlSignatureForPublicKey |-> 26, InvalidSignatureForPublicKey |-> 26,
    SignatureAlgorithmMismatch |-> 25,
    RequiredEkuNotFound |-> 24,
    NameConstraintViolation |-> 23,
    PathLenConstraintViolated |-> 22,
    CaUsedAsEndEntity |-> 21, EndEntityUsedAsCa |-> 21,
    IssuerNotCrlSigner |-> 20,
    InvalidCertValidity |-> 19,
    InvalidNetworkMaskConstraint |-> 18,
    InvalidSerialNumber |-> 17,
    InvalidCrlNumber |-> 16,
    UnsupportedCrlSignatureAlgorithmForPublicKey |-> 15,
    UnsupportedSignatureAlgorithmForPublicKey |-> 15,
    UnsupportedCrlSignatureAlgorithm |-> 14, UnsupportedSignatureAlgorithm |-> 14,
    UnsupportedCriticalExtension |-> 13, UnsupportedCertVersion |-> 13,
    UnsupportedCrlVersion |-> 12,
    UnsupportedDeltaCrl |-> 11,
    UnsupportedIndirectCrl |-> 10,
    UnsupportedRevocationReason |-> 9,
    UnsupportedRevocationReasonsPartitioning |-> 8,
    UnsupportedCrlIssuingDistributionPoint |-> 7,
    MalformedDnsIdentifier |-> 6,
    MalformedNameConstraint |-> 5,
    MalformedExtensions |-> 4, TrailingData |-> 4,
    ExtensionValueInvalid |-> 3,
    BadDerTime |-> 2,
    BadDer |-> 1,
    MaximumSignatureChecksExceeded |-> 0,
    UnknownIssuer |-> 0 ]

\* The Error enum: every variant has a rank.
Error == DOMAIN rank

Results == Error \cup {"Ok"}

\* Error::most_specific: the better ranked of the two, the old one on a tie.
most_specific(self, new) == IF rank[self] >= rank[new] THEN self ELSE new

-----------------------------------------------------------------------------
(* Result<T, Error> and the operator `?'.                                  *)

Ok(v)  == [result |-> "Ok", value |-> v]
Err(e) == [result |-> e]

\* r ?? s is the Rust sequence `r?; s'.
r ?? s == IF r = "Ok" THEN s ELSE r

Require(condition, error) == IF condition THEN "Ok" ELSE error

\* The first failure among verdicts, which is indexed by iteration.
FirstFailure(verdicts) ==
    LET failures == {i \in DOMAIN verdicts : verdicts[i] # "Ok"}
    IN  IF failures = {} THEN "Ok" ELSE verdicts[Min(failures)]

\* A loop that stops at the first failure.  (Bound to v, the verdicts of nested
\* loops are computed once.)
FirstErr(verdicts) == CHOOSE r \in {FirstFailure(v) : v \in {verdicts}} : TRUE

-----------------------------------------------------------------------------
(* Option<T>.                                                              *)

None      == << >>
Some(x)   == << x >>
IsSome(o) == o # << >>
The(o)    == o[1]

\* untrusted::Input::read_all: the decoder's own error comes first, bytes it
\* did not consume are BadDer.
read_all(trailing, decoded) == decoded ?? Require(~trailing, "BadDer")
=============================================================================
