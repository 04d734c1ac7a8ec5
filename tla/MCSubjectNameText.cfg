SPECIFICATION Spec
CONSTANTS
    MAX_LABEL_LENGTH = 14
    MAX_NAME_LENGTH = 18
    OCTETS = 4
    BLOCKS = 3
    MaxLength = 5
    Texts <- MCTexts
    ConstraintNames <- MCConstraintNames
    PresentedNames <- MCPresented
INVARIANTS
    ReadsWhatIsWritten
    WithinArrays
    ValidityByLabels
    ComputesLabelMatching
CHECK_DEADLOCK FALSE
