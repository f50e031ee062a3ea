\* Two runners whose clocks may return one timestamp, of whose two names an
\* archived run took one; any write may fail and any process may be killed.
SPECIFICATION Spec
CONSTANTS
    Families = {"cpp", "rust"}
    Implementations <- MCTwoFamilies
    Runners = {r1, r2}
    Reporters = {}
    Stems = {1, 2}
    MaxSuffix = 1
    Archived <- MCArchived
    NoRun = NoRun
    Faults = {"kill", "disk"}
    Hasty = {}
SYMMETRY MCRunnerSymmetry
INVARIANTS
    TypeOK
    DistinctRuns
    BundleHasEvidence
    NoAdapterSkipped
PROPERTIES
    EvidenceIsWriteOnce
