\* Liveness, and the refinement of RequestCharge, without faults.
SPECIFICATION FairSpec
CONSTANTS
    r1 = r1
    r2 = r2
    Requests <- MCRequests
    Quotas = {1, 2}
    Profiles <- TextAndTaskProfiles
    WalletQuota = 3
    TokenQuota = 3
    TokenUnlimited = FALSE
    SubscriptionTotal = 2
    TrustQuota = 2
    ViolationFees = {}
    RetryTimes = 1
    MaxFaults = 0
PROPERTIES
    ImplementsRequestCharge
    EveryRequestCloses
