SPECIFICATION FairSpec
CONSTANTS
    a = a
    b = b
    NoSurface = NoSurface
    NoBuffer = NoBuffer
    Surfaces <- Two
    Renderless <- Only_a
    BufferCount = 1
    Attach = TRUE
    Strict = TRUE
    UnmappedFrames = TRUE
INVARIANTS
    CallbacksConserved
PROPERTIES
    KilledEnds
