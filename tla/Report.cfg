\* Rows without execution metadata, whose hosts, build modes and timings vary, and
\* rows with it, on processors and devices, several of a family.
SPECIFICATION Spec
CONSTANTS
    Workloads = {"canonical", "batch"}
    BatchSize <- MCBatch
    HasContract = {"batch"}
    Unknown = Unknown
    Legacy = Legacy
    NoDevice = NoDevice
    Implementations <- MCThree
    BundleOrder <- MCThreeBundles
    SortedIds <- MCTwoSorted
    OrderedIds <- MCTwoWorkloads
    Variants = {"batch"}
    SharedHost <- MCShared
    Rows <- MCRows
    TextRank <- MCTextRank
    MaxRows = 3
INVARIANTS
    TypeOK
    RatiosAreExactlyTheComparable
    RatiosStayWithinABoundary
    WinnerIsFastest
    NoteIsTrue
    CellsAreTheEvidence
    LabelsAreUnique
    OrderDoesNotMatter
