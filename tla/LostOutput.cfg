\* One undisturbed runner whose adapter processes may exit non-zero.
SPECIFICATION Spec
CONSTANTS
    Families = {"cpp", "rust"}
    Implementations <- MCTwoFamilies
    Runners = {r1}
    Reporters = {}
    Stems = {1}
    MaxSuffix = 0
    Archived <- MCNothingArchived
    NoRun = NoRun
    Faults = {}
    Hasty = {}
INVARIANTS
    FailedAdapterLeavesEvidence
