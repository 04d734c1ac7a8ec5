SPECIFICATION Spec
CONSTANTS
    MaxOctets = 4
    MaxReads = 6
    Inputs <- MCInputs
INVARIANT
    EmptyFlagsDecode
