SPECIFICATION Spec
CONSTANTS
    Containers <- MCContainers
    Devices <- MCOneDevice
    Mounts <- MCOneMount
    Rates = {5}
    Pressures = {0, 1}
    Fractions = {0}
    WriterMin = 3
    PressureMin = 1
    FractionMin = 1
    SuggestedWbps = 4
    FloorWbps = 2
    CommandLines <- MCCommandLines
    NoDevice = NoDevice
    MaxBytes = 10
INVARIANTS
    TypeOK
    NoPhantomWrites
PROPERTIES
    OnlyTheWorstIsCapped
