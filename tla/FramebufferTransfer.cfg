SPECIFICATION Spec
CONSTANTS
    Readers = {r1, r2}
    Images = {i1, i2}
    Size = 5
    ChunkMax = 2
    MaxId = 4
    None = None
INVARIANTS FramesAreWhole
PROPERTY OnlyOvertakenReadersFail
