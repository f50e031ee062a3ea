\* Every contract and command line of the instance.
SPECIFICATION Spec
CONSTANTS
    Contracts <- MCContracts
    Arguments <- MCArguments
    Answers <- MCAnswers
    NoAnswer = NoAnswer
    Unstarted = Unstarted
    MiB = 2
    NoLimit = NoLimit
INVARIANTS
    PlanIsWhatFits
    TruncationIsRecorded
    PlansComeFromCheckedContracts
    DeviceDoesNotMatter
