\* Overlapping passes over one task, with failures and a restart.
SPECIFICATION FairSpec
CONSTANTS
    t1 = t1
    w1 = w1
    w2 = w2
    Tasks <- OneTask
    Workers <- TwoWorkers
    Quotas = {1, 2}
    RealtimeTasks <- OneTask
    OrphanTasks <- OneTask
    MaxPollFailures = 2
    MaxPolls = 2
    MaxFaults = 1
    MaxCrashes = 1
INVARIANTS
    TypeOK
    OneFinalizer
    RowHoldsCharge
    TerminalIsBilledUnlessBypassed
PROPERTIES
    FinalIsFinal
    EveryTaskEnds
