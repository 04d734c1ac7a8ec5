SPECIFICATION Spec
CONSTANTS
    MaxOctets = 4
    MaxReads = 6
    Inputs <- MCInputs
INVARIANTS
    ReadsDistinguished
    IntegersAgree
    FlagsAgree
PROPERTY
    Exhausted
