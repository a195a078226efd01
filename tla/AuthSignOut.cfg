\* What the documentation says of sign-out; no exchange fails.
SPECIFICATION Spec
CONSTANTS
    a = a
    b = b
    Tabs <- TwoTabs
    MaxLogins = 2
    WebLocks = {TRUE}
    MaxActs <- ActBound
    MaxFaults = 0
    MaxOrphans = 0
PROPERTY SignOutRevokes
CHECK_DEADLOCK FALSE
