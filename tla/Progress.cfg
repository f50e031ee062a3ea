\* Two runners, either of them killed at any moment.
SPECIFICATION FairSpec
CONSTANTS
    Families = {"cpp", "rust"}
    Implementations <- MCTwoFamilies
    Runners = {r1, r2}
    Reporters = {}
    Stems = {1}
    MaxSuffix = 2
    Archived <- MCArchived
    NoRun = NoRun
    Faults = {"kill"}
    Hasty = {}
PROPERTIES
    EndsUnlessAdapterHangs
    ReturnedOutputIsKept
    FailureIsDiagnosed
