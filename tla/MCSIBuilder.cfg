SPECIFICATION Spec
CONSTANTS
    Doc <- MCDoc
    Vector <- MCVector
    MaxDocs = 5
    MaxRows = 2
    ValuesPerBlock = 2
    RowidsPerBlock = 2
    Align = 2
    Tolerance = 1
    Spoilt = Spoilt
INVARIANTS NothingLost IndexIsInverse DescribesItsRows BlocksSearchable
