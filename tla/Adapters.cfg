\* The three programs with both profiles, on builds sound and unsound, with a
\* clock that may stand still for a scalar and for a batch workload.
SPECIFICATION Spec
CONSTANTS
    Suspects <- MCSuspects
    Quick = {"rotor", "motors16"}
    Unknown = Unknown
    Legacy = Legacy
    NoDevice = NoDevice
INVARIANTS
    TypeOK
    OutputIsHonest
    PrintedMeansChecked
    NoTimeIsNoMeasurement
