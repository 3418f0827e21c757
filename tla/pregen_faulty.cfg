SPECIFICATION FairSpec
CONSTANTS
    Commands <- MCCommands
    Faults <- MCAllFaults
    MaxID = 4
    MaxInFlight = 2
INVARIANTS
    DoubtlessBeliefIsTruth
    SentMeansExecuted
PROPERTIES
    StoppedStaysPaused
