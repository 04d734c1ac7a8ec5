----------------------------- MODULE WellFormed -----------------------------
(***************************************************************************)
(* What is assumed of the arguments of the checks: lists are lists, and    *)
(* whatever fails to decode yields an Error, not the fatal one.            *)
(***************************************************************************)
EXTENDS Errors

\* The one fatal error; only check_signatures yields it.
Fatal == "MaximumSignatureChecksExceeded"

\* A sequence, of whatever.
IsSeq(s) == s \in Seq({s[i] : i \in DOMAIN s})

IsResult(r)   == r.result \in Results \ {Fatal}
AllResults(s) == Len(s) \in Nat /\ \A i \in 1..Len(s) : IsResult(s[i])

\* Subtrees that may be absent, but are results if present.
OptionalSubtrees(o) == IsSome(o) => AllResults(The(o))

SubtreesWellFormed(r) ==
    /\ IsResult(r)
    /\ r.result = "Ok" => OptionalSubtrees(r.value)

ConstraintsWellFormed(o) ==
    IsSome(o) => /\ SubtreesWellFormed(The(o).permitted)
                 /\ SubtreesWellFormed(The(o).excluded)

CertWellFormed(c) ==
    /\ IsResult(c.validity.not_before) /\ IsResult(c.validity.not_after)
    /\ IsSome(c.basic_constraints) =>
           LET bc == The(c.basic_constraints)
           IN  IsResult(bc.ca) /\ (IsSome(bc.path_len) => IsResult(The(bc.path_len)))
    /\ IsSome(c.eku) => AllResults(The(c.eku))
    /\ IsSome(c.key_usage) => IsResult(The(c.key_usage))
    /\ IsSome(c.subject_alt_name) => AllResults(The(c.subject_alt_name))
    /\ IsResult(c.common_name)
    /\ IsResult(c.spki)
    /\ ConstraintsWellFormed(c.name_constraints)
=============================================================================
