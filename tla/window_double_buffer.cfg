SPECIFICATION Spec
CONSTANTS
    a = a
    b = b
    NoSurface = NoSurface
    NoBuffer = NoBuffer
    Surfaces <- One
    Renderless <- Nothing
    BufferCount = 2
    Attach = TRUE
    Strict = FALSE
    UnmappedFrames = FALSE
PROPERTIES
    DrawsOffScreen
