\* Selection, creation, failure of any call, and teardown with three images.
SPECIFICATION Spec
CONSTANTS
    ImageCount = 3
    Reports <- AllReports
    Garbage <- AnyIndex
    Size = 2
    Unset <- AnySize
INVARIANTS
    TypeOK
    Ledger
    UsersFirst
    DeviceSuits
    SwapchainFits
