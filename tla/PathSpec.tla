------------------------------ MODULE PathSpec ------------------------------
(***************************************************************************)
(* What verifying a certificate promises, without saying how: an abstract  *)
(* specification that PathBuilding implements.  The call returns Ok only   *)
(* if there is a trusted path from the certificate to a trust anchor, and  *)
(* an error only if there is none or the search was cut short.             *)
(***************************************************************************)
EXTENDS Errors

CONSTANT Trusted(_)   \* the inputs for which a trusted path exists

VARIABLES
    input,      \* the arguments of the call
    verdict,    \* "pending" until the call returns
    exhausted   \* the search was cut short by the signature budget

vars == << input, verdict, exhausted >>

\* The input is whatever the caller passes.
Init == verdict = "pending" /\ exhausted = FALSE

\* The call returns.
Decide ==
    /\ verdict = "pending"
    /\ verdict' \in Results
    /\ exhausted' \in BOOLEAN
    /\ verdict' = "Ok" => Trusted(input) /\ ~exhausted'
    /\ verdict' # "Ok" /\ ~exhausted' => ~Trusted(input)
    /\ UNCHANGED input

Spec == Init /\ [][Decide]_vars
=============================================================================
