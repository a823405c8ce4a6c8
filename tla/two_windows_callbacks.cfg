SPECIFICATION Spec
CONSTANTS
    a = a
    b = b
    NoSurface = NoSurface
    NoBuffer = NoBuffer
    Surfaces <- Two
    Renderless <- Nothing
    BufferCount = 2
    Attach = TRUE
    Strict = FALSE
    UnmappedFrames = FALSE
INVARIANTS
    OneCallback
