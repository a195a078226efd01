\* Reservations and readers only, with Redis and the batch updater.
SPECIFICATION Spec
CONSTANTS
    o1 = o1
    o2 = o2
    o3 = o3
    NoEntry = NoEntry
    Ops <- MCOps
    OpTypes = {"reserve"}
    Amounts = {2}
    Modes <- BatchMode
    InitialQuota = 2
    MaxWalletQuota = 3
    MaxFaults = 0
    MaxCrashes = 0
INVARIANT NeverOverdrawn
