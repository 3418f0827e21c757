SPECIFICATION Spec
CONSTANTS
    Levels = {"leaf", "root"}
    Stalls <- MCStalls
    StarvePct = 10
    MemPct = 5
    Interval = 4
    GCStallPct = 50
    GCTimes = {0, 3}
    PlayerCounts = {1, 2}
    GateSets <- MCGateSets
    MaxIntervals = 3
    MaxCrashes = 1
INVARIANTS
    PeakSurvives
PROPERTIES
    StarveIsExact
    StallIsCollected
