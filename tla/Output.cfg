\* An adapter whose output is completed with gaps and one that must report every
\* workload, with either profile.
SPECIFICATION Spec
CONSTANTS
    Workloads = {"canonical", "batch"}
    BatchSize <- MCBatch
    HasContract = {"batch"}
    Unknown = Unknown
    Legacy = Legacy
    NoDevice = NoDevice
    Adapters = {"cpp", "rust"}
    Completing = {"cpp", "idris2"}
    UniformFamily = "idris2"
    UniformOperations <- MCUniform
    OperationsPerSample <- MCManifest
    OutputRows <- MCOutput
    MaxOutput = 3
INVARIANTS
    TypeOK
    AcceptedIsSound
    HonestIsNotRejected
    EvidenceIsKept
