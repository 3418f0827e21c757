SPECIFICATION Spec
CONSTANTS
    Operators = {o1, o2}
    Patches <- MCPatches
    StartKnobs <- MCValidKnobs
    Defaults <- MCDefaults
    RaiseDebounce = 2
    MaxDecisions = 2
    Lowest = 2
    Highest = 4
    TickBudget = 50
    Readings <- MCReadings
    StartSim = 3
    StartView = 4
    MaxAsks = 1
    MaxRestarts = 1
PROPERTIES
    EditChangesItsFieldsOnly
