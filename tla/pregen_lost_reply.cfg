SPECIFICATION FairSpec
CONSTANTS
    Commands <- MCCommands
    Faults <- MCLateAnswers
    MaxID = 4
    MaxInFlight = 2
PROPERTIES
    EventuallyYields
