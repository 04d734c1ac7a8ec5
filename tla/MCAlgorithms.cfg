SPECIFICATION Spec
CONSTANTS
    AlgorithmLists <- MCLists
    SpkiValues <- MCSpkiValues
    SignedObjects <- MCSignedObjects
INVARIANTS
    OrderFreeIfUnambiguous
    ComputesVerifySignedData
CHECK_DEADLOCK FALSE
