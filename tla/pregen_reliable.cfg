SPECIFICATION FairSpec
CONSTANTS
    Commands <- MCCommands
    Faults <- MCNoFaults
    MaxID = 3
    MaxInFlight = 2
INVARIANTS
    TypeOK
    BeliefIsTruth
    YieldsWhenUnsafe
PROPERTIES
    ResumesOnFreshReads
    EventuallyYields
    EventuallyResumes
    KeepsPromise
