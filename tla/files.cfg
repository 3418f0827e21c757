SPECIFICATION Spec
CONSTANTS
    GiB = 4
    Machines <- MCMachines
    Flags <- MCFlags
    Jars <- MCJars
    Directories <- MCDirectories
    EditedKeys <- MCKeys
    EditedValue = 7
    MaxEdits = 1
INVARIANTS
    BackupIsWhole
    JarsAreWhole
PROPERTIES
    PreviewIsWhatHappens
    LocksHold
    InitKeepsExisting
