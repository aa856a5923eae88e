SPECIFICATION Spec
CONSTANTS
    Byte = {1, 2, 3, 4, 5, 6, 7}
    Files <- MCFiles
    BufSize = 2
    MaxLen = 6
    Lost = Lost
INVARIANTS BufferIsWindow
PROPERTIES ImplementsReader
