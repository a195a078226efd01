\* Every operation and mode, with a failing call and a restart.
SPECIFICATION Spec
CONSTANTS
    o1 = o1
    o2 = o2
    o3 = o3
    NoEntry = NoEntry
    Ops <- MCOps
    OpTypes <- AllOpTypes
    Amounts = {1, 2}
    Modes <- AllModes
    InitialQuota = 2
    MaxWalletQuota = 3
    MaxFaults = 1
    MaxCrashes = 1
SYMMETRY Symmetry
INVARIANTS
    TypeOK
    ResultsMatchBooks
    CacheTracksBooks
    ReservesCovered
