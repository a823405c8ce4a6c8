SPECIFICATION Spec
CONSTANTS
    i0 = i0
    i1 = i1
    NoImage = NoImage
    Images <- TwoImages
    FirstImage <- i0
    MaxEvents = 2
    Faults <- AllFaults
CHECK_DEADLOCK FALSE
INVARIANTS
    TypeOK
    FrameInv
    DrawsLentImage
    HostOwnsFrameObjects
    AcquiredWhileDrawing
    DrawObjectsIdleAtDestroy
