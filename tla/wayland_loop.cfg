SPECIFICATION WFairSpec
CONSTANTS
    a = a
    i0 = i0
    i1 = i1
    NoImage = NoImage
    NoSurface = NoSurface
    NoBuffer = NoBuffer
    Surfaces <- One
    Images <- TwoImages
    FirstImage <- i0
    MaxEvents = 2
    Faults <- AcquireFault
PROPERTIES
    ImplementsFrameLoop
    HandlersReturn
    WFramesGoOn
    WCloseEnds
