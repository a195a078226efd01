\* Two tabs of one browser, with a failing exchange or a reload.
SPECIFICATION FairSpec
CONSTANTS
    a = a
    b = b
    Tabs <- TwoTabs
    MaxLogins = 2
    WebLocks = {TRUE, FALSE}
    MaxActs <- ActBound
    MaxFaults = 1
    MaxOrphans = 1
INVARIANTS
    TypeOK
    ActiveSessionsAreNotRefused
    JarIsCurrent
PROPERTIES
    NoSilentAccountSwitch
    RefreshSettles
    RejectedCallLeavesDeadSession
CHECK_DEADLOCK FALSE
