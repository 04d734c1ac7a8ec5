SPECIFICATION Spec
CONSTANTS
    Wildcard = "*"
    Inputs <- BudgetInputs
    MAX_SUB_CA_COUNT = 2
    MAX_SIGNATURES = 3
INVARIANT
    FatalErrorReported
