SPECIFICATION Spec
CONSTANTS
    Wildcard = "*"
    Inputs <- MCInputs
    MAX_SUB_CA_COUNT = 3
    MAX_SIGNATURES = 5
INVARIANTS
    TypeOK
    Soundness
    NoRepeatedIssuer
    Completeness
    MostSpecificError
    OkWithinBudget
    RecursionBounded
    AssertionsHold
PROPERTIES
    Termination
    DecidesValidPaths
    ImplementsPathSpec
