\* The number of images against the one that is documented.
SPECIFICATION Spec
CONSTANTS
    ImageCount = 3
    Reports <- AllReports
    Garbage <- AnyIndex
    Size = 2
    Unset <- AnySize
INVARIANTS
    ImageCountIsLeastPlusOne
