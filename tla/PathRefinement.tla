--------------------------- MODULE PathRefinement ---------------------------
(***************************************************************************)
(* Path building implements the abstract verifier of PathSpec, with the    *)
(* trusted paths of TrustedPaths.                                          *)
(***************************************************************************)
EXTENDS PathProperties

Reference == INSTANCE TrustedPaths

Abstract == INSTANCE PathSpec WITH
    Trusted   <- Reference!Trusted,
    verdict   <- IF pc = "done" THEN ret ELSE "pending",
    exhausted <- pc = "done" /\ signatures > MAX_SIGNATURES

\* build_chain decides exactly the trusted paths of PathSpec: it returns Ok only
\* if a trusted path exists, an error only if none exists or the signature budget
\* was exceeded, and it decides once.
ImplementsPathSpec == Abstract!Spec

-----------------------------------------------------------------------------
(* The same verifier, with the checks of the code to say what a path is.   *)

Search == INSTANCE PathSpec WITH
    Trusted   <- HasValidPath,
    verdict   <- IF pc = "done" THEN ret ELSE "pending",
    exhausted <- pc = "done" /\ signatures > MAX_SIGNATURES

\* The depth-first search of build_chain_inner decides whether some path passes the
\* checks, whatever the order of anchors and intermediates and the dead ends met.
DecidesValidPaths == Search!Spec

=============================================================================
