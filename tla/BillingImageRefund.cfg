\* An image request topped up by Reserve, then refunded.
SPECIFICATION Spec
CONSTANTS
    r1 = r1
    r2 = r2
    Requests <- MCRequests
    Quotas = {0, 1, 2}
    Profiles <- ImageProfiles
    WalletQuota = 3
    TokenQuota = 3
    TokenUnlimited = FALSE
    SubscriptionTotal = 2
    TrustQuota = 2
    ViolationFees = {}
    RetryTimes = 1
    MaxFaults = 0
INVARIANT RefundReturnsReservation
