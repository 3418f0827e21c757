SPECIFICATION Spec
CONSTANTS
    Containers <- MCContainers
    Devices <- MCTwoDevices
    Mounts <- MCTwoMounts
    Rates = {5}
    Pressures = {0, 1}
    Fractions = {0, 1}
    WriterMin = 3
    PressureMin = 1
    FractionMin = 1
    SuggestedWbps = 4
    FloorWbps = 2
    CommandLines <- MCCommandLines
    NoDevice = NoDevice
    MaxBytes = 10
PROPERTIES
    UndoRemovesThrottle
