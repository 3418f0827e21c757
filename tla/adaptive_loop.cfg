SPECIFICATION Spec
CONSTANTS
    Cfg <- MCCfg
    RaiseDebounce = 2
    SlowMSPT = 10000
    Base = 150
    Costs <- MCCosts
    MaxPlayers = 2
    InitialSims <- MCInitialSims
    InitialViews <- MCInitialViews
INVARIANTS
    TypeOK
PROPERTIES
    RampsAreBounded
    NoYoYo
    RaisesAreSpaced
    JoinsForceNoCut
    SettlesWithinBudget
    HeadroomIsSpent
