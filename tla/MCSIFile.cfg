SPECIFICATION Spec
CONSTANTS
    Schema <- MCSchema
    NoParent = "none"
    Distinct <- MCDistinct
    CountMax = 15
    ValuesPerBlock = 2
    BufferSize = 3
    CopySize = 2
    MaxBuilds = 2
INVARIANTS AcceptedIsWhole BuiltIsAccepted NoLostUpdate NamesAgree
PROPERTIES ImplementsLife
