\* One runner, a reporter that waits for the end of a run and one that does not.
SPECIFICATION Spec
CONSTANTS
    Families = {"cpp", "rust"}
    Implementations <- MCTwoFamilies
    Runners = {r1}
    Reporters = {q1, q2}
    Stems = {1}
    MaxSuffix = 1
    Archived <- MCArchived
    NoRun = NoRun
    Faults = {"kill", "disk"}
    Hasty = {q2}
INVARIANTS
    SummaryIsBacked
    SummaryMatchesEvidence
PROPERTIES
    ImplementsArchive
