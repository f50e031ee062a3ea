\* Every combination of what three members may do, on hosts with and without the
\* prerequisites of the third.
SPECIFICATION Spec
CONSTANTS
    ContractIds <- MCContractIds
    NativeOutputs <- MCNative
    BenchOutputs <- MCBench
    NoTime = NoTime
    Malformed = Malformed
INVARIANTS
    TypeOK
    TableIsFaithful
    FailureIsNotHidden
    FstarIsHarmless
    GapIsVisible
    SummariesAgree
