SPECIFICATION Spec
CONSTANTS
    Wildcard = "*"
    Queries <- MCQueries
INVARIANTS
    VerifiedByAlternativeName
    ListCoversVerified
    ComputesCheckNames
    ExcludedNamesNeverVerify
