\* The four families of the report.
SPECIFICATION Spec
CONSTANTS
    Workloads = {"canonical", "batch"}
    BatchSize <- MCBatch
    HasContract = {"batch"}
    Unknown = Unknown
    Legacy = Legacy
    NoDevice = NoDevice
    Implementations <- MCFour
    BundleOrder <- MCFourBundles
    SortedIds <- MCTwoSorted
    OrderedIds <- MCTwoWorkloads
    Variants = {"batch"}
    SharedHost <- MCShared
    Rows <- MCPlainRows
    TextRank <- MCTextRank
    MaxRows = 1
INVARIANTS
    RowsMatchHeader
