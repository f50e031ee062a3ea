\* A family that declares no machine, beside two that declare different ones.
SPECIFICATION Spec
CONSTANTS
    Workloads = {"canonical", "batch"}
    BatchSize <- MCBatch
    HasContract = {"batch"}
    Unknown = Unknown
    Legacy = Legacy
    NoDevice = NoDevice
    Implementations <- MCThree
    BundleOrder <- MCThreeBundles
    SortedIds <- MCTwoSorted
    OrderedIds <- MCTwoWorkloads
    Variants = {"batch"}
    SharedHost <- MCShared
    Rows <- MCPlainRows
    TextRank <- MCTextRank
    MaxRows = 3
INVARIANTS
    WinnerAmongComparable
