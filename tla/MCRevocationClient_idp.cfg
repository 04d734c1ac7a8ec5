SPECIFICATION Spec
CONSTANTS
    MaxFields = 2
    MaxEntries = 2
    MaxCalls = 2
    CrlInputs <- MCCrlInputs
    Queries <- MCQueries
    Algorithms <- MCAlgorithms
INVARIANT LoadedIdpSupported
