SPECIFICATION XFairSpec
CONSTANTS
    i0 = i0
    i1 = i1
    i2 = i2
    NoImage = NoImage
    Images <- ThreeImages
    FirstImage <- i0
    MaxEvents = 1
    MaxInbox = 2
    Faults <- NoFaults
PROPERTIES
    ImplementsFrameLoop
    SwapchainSpec
    QuitEnds
    XFramesGoOn
