\* Liveness of the batch updater.
SPECIFICATION FairSpec
CONSTANTS
    o1 = o1
    o2 = o2
    o3 = o3
    NoEntry = NoEntry
    Ops <- MCOps
    OpTypes = {"reserve", "increase", "decrease"}
    Amounts = {1}
    Modes <- BatchMode
    InitialQuota = 1
    MaxWalletQuota = 3
    MaxFaults = 0
    MaxCrashes = 0
PROPERTY BooksReachRow
