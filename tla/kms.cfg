\* Any call may fail.  Two devices, connectors, planes, crtcs, framebuffers and
\* buffers; a buffer has one or two planes; descriptors 0 to 4 are taken.  The
\* buffers get the handles 4 and 6, and descriptors 5 and up: those of the first
\* buffer have the numbers of a handle of the driver and of the second buffer.
SPECIFICATION Spec
CONSTANTS
    Devices = 2
    Faults <- AllFaults
    Connectors = 2
    Planes = 2
    Crtcs = {c1, c2}
    Fbs = {f1, f2}
    None = None
    BufferCount = 2
    PlaneCounts = {1, 2}
    FirstFd = 5
    DriverHandles = {1, 2, 3, 5}
    MaxHandle = 6
INVARIANTS
    TypeOK
    TerminalRestored
    DevicesReturned
    StdinStaysOpen
    FreedOnce
    ChainConnected
    PrimaryFound
    BuffersKeepHandles
    DisplayReturned
    NodeOutlivesBuffers
