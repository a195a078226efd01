\* Two requests race for one wallet, one token and one subscription.
SPECIFICATION Spec
CONSTANTS
    r1 = r1
    r2 = r2
    Requests <- MCRequests
    Quotas = {1, 2}
    Profiles <- RequestProfiles
    WalletQuota = 3
    TokenQuota = 3
    TokenUnlimited = FALSE
    SubscriptionTotal = 2
    TrustQuota = 2
    ViolationFees = {1}
    RetryTimes = 1
    MaxFaults = 1
SYMMETRY Symmetry
INVARIANTS
    TypeOK
    OpenSessionHoldsReservation
    SettledExactly
    RefundReturnsReservationExceptImages
    DebtIsExplained
    NoSessionHoldsNothing
    SubscriptionWithinTotal
