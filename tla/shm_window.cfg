SPECIFICATION FairProgramSpec
CONSTANTS
    a = a
    NoSurface = NoSurface
    NoBuffer = NoBuffer
    Surfaces <- One
    Renderless <- Nothing
    BufferCount = 3
    Attach = TRUE
    Strict = TRUE
    UnmappedFrames = FALSE
    Wanted <- AllGlobals
    Repeated <- Seats
INVARIANTS
    ProgramTypeOK
    OneCallback
    ClientReturned
    MissingGlobalsCaught
PROPERTIES
    ChildrenFirst
    DrawsOffScreen
    FramesInOrder
    ShmFramesGoOn
    ProgramEnds
