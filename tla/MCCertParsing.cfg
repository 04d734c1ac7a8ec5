SPECIFICATION Spec
CONSTANTS
    MaxExtensions = 3
    MaxAttributes = 4
    Certificates <- MCCertificates
INVARIANTS
    AcceptsConforming
    ExtensionsUnambiguous
    AnchorsKeepConstraints
    CommonNameIsUnambiguous
