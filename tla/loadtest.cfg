SPECIFICATION Spec
CONSTANTS
    Loads <- MCLoads
    Duration = 2
    BenchIntervals = {1, 3}
    MaxRuns = 3
    MaxFaults = 3
    MaxDelays = 2
INVARIANTS
    TypeOK
    LeftoversExplained
PROPERTIES
    QuietRunCleans
    LoadOutlastsBench
CHECK_DEADLOCK FALSE
