\* TakeControl may fail.
SPECIFICATION Spec
CONSTANTS
    Devices = 1
    Faults <- ControlFault
    Connectors = 1
    Planes = 1
    Crtcs = {c1}
    Fbs = {f1}
    None = None
    BufferCount = 2
    PlaneCounts = {1}
    FirstFd = 5
    DriverHandles = {1, 2, 3, 5}
    MaxHandle = 6
INVARIANTS
    ControlBeforeDevices
