--------------------------- MODULE BillingSession ---------------------------
(***************************************************************************)
(* The charge of one relayed request, from the pre-consume of its estimate *)
(* to its settlement or its refund (service/billing_session.go,            *)
(* service/funding_source.go), driven the way the relay loop and the task  *)
(* submission drive it (controller/relay.go, relay/request_billing.go).    *)
(*                                                                         *)
(* Several requests of one user run concurrently.  They share the wallet,  *)
(* the token and the subscription of that user; everything else is private *)
(* to a request.  Each ledger is kept as what every request has withdrawn  *)
(* from it, net of what was given back, so a balance is the initial quota  *)
(* minus a sum.  A ledger write is atomic and may fail: a fault.           *)
(*                                                                         *)
(* Quotas are natural numbers; prices, tokens and channels are abstracted  *)
(* to the estimate, the target and the final cost they produce.            *)
(***************************************************************************)
EXTENDS Integers, FiniteSets, Functions

CONSTANTS
    Requests,           \* concurrent requests of one user
    Quotas,             \* the costs an estimate, a target or a usage may have
    Profiles,           \* the RelayInfo a request may come with
    WalletQuota,        \* users.quota when the requests start
    TokenQuota,         \* tokens.remain_quota when the requests start
    TokenUnlimited,     \* tokens.unlimited_quota
    SubscriptionTotal,  \* user_subscriptions.amount_total, 0 is unlimited
    TrustQuota,         \* TrustQuotaUSD * QuotaPerUnit, 0 is disabled
    ViolationFees,      \* the fees a violation may cost, {} is disabled
    RetryTimes,         \* common.RetryTimes
    MaxFaults           \* bound on failing ledger writes

RequestKinds == {"text", "image", "task"}
BillingPreferences ==
    {"subscription_only", "wallet_only", "wallet_first", "subscription_first"}

\* What billing reads from RelayInfo: the kind of request, the user's billing
\* preference, IsPlayground, and whether the token quota the authentication
\* middleware stored in the context exceeds the trust quota.
RelayInfo == [kind : RequestKinds, preference : BillingPreferences,
              playground : BOOLEAN, tokenTrusted : BOOLEAN]

ASSUME BillingAssumption ==
    /\ IsFiniteSet(Requests)
    /\ Quotas \subseteq Nat
    /\ ViolationFees \subseteq Nat \ {0}
    /\ Profiles \subseteq RelayInfo
    /\ WalletQuota \in Nat /\ TokenQuota \in Nat /\ SubscriptionTotal \in Nat
    /\ TokenUnlimited \in BOOLEAN
    /\ TrustQuota \in Nat /\ RetryTimes \in Nat /\ MaxFaults \in Nat

VARIABLES
    \* the request (RelayInfo)
    pc, info, estimate, retry,
    \* its BillingSession and FundingSource
    source, preConsumedQuota, tokenConsumed, extraReserved, fundingConsumed,
    trusted, fundingSettled, settled, refunded,
    \* a Reserve between its funding half and its token half
    reserveDelta,
    \* the asynchronous part of Refund
    refundStep,
    \* the ledgers: what each request has taken, net
    charged, tokenCharged,
    \* whether the user's subscription is still active
    subscriptionActive,
    faults,
    \* history: the final cost, the fee, and whether a compensation was lost
    actual, fee, lost

flagVars    == <<fundingSettled, settled, refunded>>
amountVars  == <<preConsumedQuota, tokenConsumed, extraReserved,
                 fundingConsumed, trusted>>
ledgerVars  == <<charged, tokenCharged>>
historyVars == <<actual, fee, lost>>
sessionVars == <<source, amountVars, flagVars, reserveDelta, refundStep>>
worldVars   == <<ledgerVars, subscriptionActive, faults, historyVars>>
vars == <<pc, info, estimate, retry, sessionVars, worldVars>>

ControlPoints ==
    {"idle", "new", "tryWallet", "reserveToken", "reserveFunding",
     "rollbackToken", "rollbackReject", "attempt", "reserving", "upstream", "submitted",
     "insert", "settle", "settled", "failing", "fee", "closed"}
RefundSteps == {"none", "funding", "extra", "token", "done"}

-----------------------------------------------------------------------------
(* The ledgers.                                                            *)

\* users.quota; it may be negative, a settlement admits debt.
Wallet == WalletQuota - SumFunctionOnSet(charged,
                            {r \in Requests : source[r] # "subscription"})

\* tokens.remain_quota
Token == TokenQuota - SumFunction(tokenCharged)

\* user_subscriptions.amount_used
SubscriptionUsed == SumFunctionOnSet(charged,
                            {r \in Requests : source[r] = "subscription"})

SubscriptionFits(delta) ==
    \/ SubscriptionTotal = 0
    \/ SubscriptionUsed + delta <= SubscriptionTotal

\* One ledger write of the step succeeds, or fails and is counted.
Succeeds == UNCHANGED faults
Fails == faults < MaxFaults /\ faults' = faults + 1

\* What PreConsumeTokenQuota and reserveToken take from the token.
TokenShare(r, delta) == IF info[r].playground THEN 0 ELSE delta

\* TryReserveTokenQuota: an unlimited token skips the balance check.
TokenAvailable(r, delta) ==
    TokenShare(r, delta) = 0 \/ TokenUnlimited \/ Token >= delta

-----------------------------------------------------------------------------
Init ==
    /\ pc = [r \in Requests |-> "idle"]
    /\ info \in [Requests -> Profiles]
    /\ estimate = [r \in Requests |-> 0]
    /\ retry = [r \in Requests |-> 0]
    /\ source = [r \in Requests |-> "none"]
    /\ preConsumedQuota = [r \in Requests |-> 0]
    /\ tokenConsumed = [r \in Requests |-> 0]
    /\ extraReserved = [r \in Requests |-> 0]
    /\ fundingConsumed = [r \in Requests |-> 0]
    /\ trusted = [r \in Requests |-> FALSE]
    /\ fundingSettled = [r \in Requests |-> FALSE]
    /\ settled = [r \in Requests |-> FALSE]
    /\ refunded = [r \in Requests |-> FALSE]
    /\ reserveDelta = [r \in Requests |-> 0]
    /\ refundStep = [r \in Requests |-> "none"]
    /\ charged = [r \in Requests |-> 0]
    /\ tokenCharged = [r \in Requests |-> 0]
    /\ subscriptionActive \in BOOLEAN
    /\ faults = 0
    /\ actual = [r \in Requests |-> 0]
    /\ fee = [r \in Requests |-> 0]
    /\ lost = [r \in Requests |-> FALSE]

-----------------------------------------------------------------------------
(* NewBillingSession.                                                      *)

Goto(r, point) == pc' = [pc EXCEPT ![r] = point]

\* The request reaches PrepareRequestBilling.  A task prepares its billing
\* inside the attempt, and a free model skips the pre-consume.
StartRequest(r) ==
    /\ pc[r] = "idle"
    /\ \/ Goto(r, "attempt") /\ UNCHANGED estimate
       \/ /\ info[r].kind # "task"
          /\ \E q \in Quotas : estimate' = [estimate EXCEPT ![r] = q]
          /\ Goto(r, "new")
    /\ UNCHANGED <<info, retry, sessionVars, worldVars>>

\* An attempt without a session opens one: the first attempt of a task, a
\* retry that moves from a free group to a paid one, a priced image.
OpenSession(r) ==
    /\ pc[r] = "attempt"
    /\ source[r] = "none"
    /\ \E q \in Quotas : estimate' = [estimate EXCEPT ![r] = q]
    /\ Goto(r, "new")
    /\ UNCHANGED <<info, retry, sessionVars, worldVars>>

\* PreConsumeBilling returned an error and no session.  Its errors carry
\* SkipRetry, which a task submission drops: it may try the next channel.
Reject(r) ==
    /\ source' = [source EXCEPT ![r] = "none"]
    /\ \/ Goto(r, "closed") /\ UNCHANGED retry
       \/ /\ info[r].kind = "task" /\ retry[r] < RetryTimes
          /\ retry' = [retry EXCEPT ![r] = @ + 1]
          /\ Goto(r, "attempt")

\* A candidate source turned out insufficient: try the other one, once, in
\* the order of the preference.
Fallback(r) ==
    \/ /\ info[r].preference = "wallet_first" /\ source[r] = "wallet"
       /\ source' = [source EXCEPT ![r] = "subscription"]
       /\ Goto(r, "reserveToken")
       /\ UNCHANGED retry
    \/ /\ info[r].preference = "subscription_first"
       /\ source[r] = "subscription"
       /\ source' = [source EXCEPT ![r] = "wallet"]
       /\ Goto(r, "tryWallet")
       /\ UNCHANGED retry
    \* no other source is left, or the subscription forbids wallet overflow
    \/ /\ ~(info[r].preference = "wallet_first" /\ source[r] = "wallet")
       /\ Reject(r)

\* The switch on the billing preference picks the first source, asking for an
\* active subscription when the subscription comes first.
ChooseSource(r) ==
    /\ pc[r] = "new"
    /\ \/ /\ \/ info[r].preference = "subscription_only"
             \/ info[r].preference = "subscription_first" /\ subscriptionActive
          /\ source' = [source EXCEPT ![r] = "subscription"]
          /\ Goto(r, "reserveToken")
          /\ Succeeds /\ UNCHANGED retry
       \/ /\ \/ info[r].preference \in {"wallet_only", "wallet_first"}
             \/ info[r].preference = "subscription_first" /\ ~subscriptionActive
          /\ source' = [source EXCEPT ![r] = "wallet"]
          /\ Goto(r, "tryWallet")
          /\ Succeeds /\ UNCHANGED retry
       \/ info[r].preference = "subscription_first" /\ Fails /\ Reject(r)
    /\ UNCHANGED <<info, estimate, amountVars, flagVars, reserveDelta,
                   refundStep, ledgerVars, subscriptionActive, historyVars>>

\* shouldTrust, for a wallet whose quota was just read.
ShouldTrust(r) ==
    /\ info[r].kind # "task"
    /\ TrustQuota > 0
    /\ TokenUnlimited \/ info[r].tokenTrusted
    /\ Wallet > TrustQuota

\* tryWallet up to the reservation: the quota is only read here.
TryWallet(r) ==
    /\ pc[r] = "tryWallet"
    /\ \/ /\ Wallet <= 0 \/ Wallet < estimate[r]
          /\ Fallback(r)
          /\ Succeeds /\ UNCHANGED trusted
       \/ /\ Wallet > 0 /\ Wallet >= estimate[r]
          /\ trusted' = [trusted EXCEPT ![r] = ShouldTrust(r)]
          /\ Goto(r, "reserveToken")
          /\ Succeeds /\ UNCHANGED <<source, retry>>
       \/ Fails /\ Reject(r) /\ UNCHANGED trusted
    /\ UNCHANGED <<info, estimate, preConsumedQuota, tokenConsumed,
                   extraReserved, fundingConsumed, flagVars, reserveDelta,
                   refundStep, ledgerVars, subscriptionActive, historyVars>>

\* subConsume of trySubscription is at least 1; a trusted wallet takes 0.
EffectiveQuota(r) ==
    IF source[r] = "subscription"
    THEN IF estimate[r] = 0 THEN 1 ELSE estimate[r]
    ELSE IF trusted[r] THEN 0 ELSE estimate[r]

\* preConsume, step 1: the token.  Its error is not ErrInsufficientUserQuota,
\* so no other source is tried.
PreConsumeToken(r) ==
    /\ pc[r] = "reserveToken"
    /\ \/ /\ TokenAvailable(r, EffectiveQuota(r))
          /\ Succeeds
          /\ tokenConsumed' = [tokenConsumed EXCEPT ![r] = EffectiveQuota(r)]
          /\ tokenCharged' = [tokenCharged EXCEPT
                                ![r] = @ + TokenShare(r, EffectiveQuota(r))]
          /\ Goto(r, "reserveFunding")
          /\ UNCHANGED <<source, retry>>
       \/ /\ TokenShare(r, EffectiveQuota(r)) > 0
          /\ \/ ~TokenAvailable(r, EffectiveQuota(r)) /\ Succeeds
             \/ Fails
          /\ Reject(r)
          /\ UNCHANGED <<tokenConsumed, tokenCharged>>
    /\ UNCHANGED <<info, estimate, preConsumedQuota, extraReserved,
                   fundingConsumed, trusted, flagVars, reserveDelta,
                   refundStep, charged, subscriptionActive,
                   historyVars>>

\* The funding source holds the quota, and the session is returned.
FundingReserved(r) ==
    /\ charged' = [charged EXCEPT ![r] = @ + EffectiveQuota(r)]
    /\ fundingConsumed' = [fundingConsumed EXCEPT ![r] = EffectiveQuota(r)]
    /\ preConsumedQuota' = [preConsumedQuota EXCEPT ![r] = EffectiveQuota(r)]
    /\ Goto(r, "attempt")

\* Mutant: the balance TryWallet has read is trusted, not checked again.
FundingUnchecked(r) ==
    IF source[r] = "subscription"
    THEN subscriptionActive /\ SubscriptionFits(EffectiveQuota(r))
    ELSE TRUE

\* Whether the chosen source can take the pre-consume at this moment:
\* TryReserveUserQuota, PreConsumeUserSubscription.
FundingAvailable(r) ==
    IF source[r] = "subscription"
    THEN subscriptionActive /\ SubscriptionFits(EffectiveQuota(r))
    ELSE EffectiveQuota(r) = 0 \/ Wallet >= EffectiveQuota(r)

\* preConsume, step 2: the funding source.  On failure the token is rolled
\* back next; only an insufficient source may be followed by another one.
PreConsumeFunding(r) ==
    /\ pc[r] = "reserveFunding"
    /\ \/ FundingAvailable(r) /\ Succeeds /\ FundingReserved(r)
       \/ /\ \/ ~FundingAvailable(r) /\ Succeeds /\ Goto(r, "rollbackToken")
             \/ EffectiveQuota(r) > 0 /\ Fails /\ Goto(r, "rollbackReject")
          /\ UNCHANGED <<charged, fundingConsumed, preConsumedQuota>>
    /\ UNCHANGED <<info, estimate, retry, source, tokenConsumed,
                   extraReserved, trusted, flagVars, reserveDelta,
                   refundStep, tokenCharged, subscriptionActive,
                   historyVars>>

\* Mutant: another source is tried without giving the token back.
RollbackTokenForgotten(r) ==
    /\ \/ pc[r] = "rollbackToken" /\ Fallback(r)
       \/ pc[r] = "rollbackReject" /\ Reject(r)
    /\ \/ /\ Succeeds
          /\ tokenCharged' = [tokenCharged EXCEPT
                                ![r] = @]
          /\ UNCHANGED lost
       \/ /\ TokenShare(r, tokenConsumed[r]) > 0 /\ Fails
          /\ lost' = [lost EXCEPT ![r] = TRUE]
          /\ UNCHANGED tokenCharged
    /\ tokenConsumed' = [tokenConsumed EXCEPT ![r] = 0]
    /\ UNCHANGED <<info, estimate, preConsumedQuota, extraReserved,
                   fundingConsumed, trusted, flagVars, reserveDelta,
                   refundStep, charged, subscriptionActive, actual,
                   fee>>

\* preConsume, after a funding error: IncreaseTokenQuota; its own error is
\* only logged.  The session is dropped, then another source may be tried.
RollbackToken(r) ==
    /\ \/ pc[r] = "rollbackToken" /\ Fallback(r)
       \/ pc[r] = "rollbackReject" /\ Reject(r)
    /\ \/ /\ Succeeds
          /\ tokenCharged' = [tokenCharged EXCEPT
                                ![r] = @ - TokenShare(r, tokenConsumed[r])]
          /\ UNCHANGED lost
       \/ /\ TokenShare(r, tokenConsumed[r]) > 0 /\ Fails
          /\ lost' = [lost EXCEPT ![r] = TRUE]
          /\ UNCHANGED tokenCharged
    /\ tokenConsumed' = [tokenConsumed EXCEPT ![r] = 0]
    /\ UNCHANGED <<info, estimate, preConsumedQuota, extraReserved,
                   fundingConsumed, trusted, flagVars, reserveDelta,
                   refundStep, charged, subscriptionActive, actual,
                   fee>>

-----------------------------------------------------------------------------
(* Reserve: raise the reservation to a target before an upstream attempt,  *)
(* or to the adjusted cost of a submitted task.                            *)

\* Where control is before and after a Reserve.
ReservePoint(r) == IF info[r].kind = "task" THEN "submitted" ELSE "attempt"
AfterReserve(r) == IF info[r].kind = "task" THEN "insert" ELSE "attempt"

\* The targets: a task reserves the cost it was quoted, anything else the
\* estimate of the attempt.
ReserveTargets(r) == IF info[r].kind = "task" THEN {actual[r]} ELSE Quotas

\* The early return of Reserve; a trusted session is only topped up for an
\* image.
ReserveSkipped(r, target) ==
    \/ settled[r] \/ refunded[r]
    \/ trusted[r] /\ info[r].kind # "image"
    \/ target <= preConsumedQuota[r]

\* Mutant: a subscription is topped up by what it had left at the pre-consume.
ReserveUnchecked(r, delta) ==
    source[r] = "subscription" \/ (info[r].kind = "image" => Wallet >= delta)

\* The balance is checked for an image and for a subscription; any other
\* wallet request may go into debt.
ReserveAvailable(r, delta) ==
    IF source[r] = "subscription" THEN SubscriptionFits(delta)
    ELSE info[r].kind = "image" => Wallet >= delta

\* reserveFunding.  For an image it is WalletFunding.PreConsume, which
\* assigns consumed instead of adding to it.
ReserveFunding(r) ==
    /\ pc[r] = ReservePoint(r)
    /\ source[r] # "none"
    /\ \E target \in ReserveTargets(r) :
        LET delta == target - preConsumedQuota[r] IN
        /\ ~ReserveSkipped(r, target)
        /\ \/ /\ ReserveAvailable(r, delta)
              /\ Succeeds
              /\ charged' = [charged EXCEPT ![r] = @ + delta]
              /\ fundingConsumed' =
                   [fundingConsumed EXCEPT ![r] =
                       IF source[r] = "subscription" THEN @
                       ELSE IF info[r].kind = "image" THEN delta
                       ELSE @ + delta]
              /\ reserveDelta' = [reserveDelta EXCEPT ![r] = delta]
              /\ Goto(r, "reserving")
           \/ /\ \/ ~ReserveAvailable(r, delta) /\ Succeeds
                 \/ Fails
              /\ Goto(r, "failing")
              /\ UNCHANGED <<charged, fundingConsumed, reserveDelta>>
    /\ UNCHANGED <<info, estimate, retry, source, preConsumedQuota,
                   tokenConsumed, extraReserved, trusted, flagVars,
                   refundStep, tokenCharged, subscriptionActive,
                   historyVars>>

\* Mutant: the session does not count what Reserve added.
ReserveTokenUncounted(r) ==
    /\ pc[r] = "reserving"
    /\ TokenAvailable(r, reserveDelta[r])
    /\ tokenCharged' = [tokenCharged EXCEPT
                          ![r] = @ + TokenShare(r, reserveDelta[r])]
    /\ UNCHANGED preConsumedQuota
    /\ tokenConsumed' = [tokenConsumed EXCEPT ![r] = @ + reserveDelta[r]]
    /\ extraReserved' = [extraReserved EXCEPT ![r] = @ + reserveDelta[r]]
    /\ trusted' = [trusted EXCEPT ![r] = @ /\ info[r].kind # "image"]
    /\ reserveDelta' = [reserveDelta EXCEPT ![r] = 0]
    /\ Goto(r, AfterReserve(r))
    /\ UNCHANGED <<info, estimate, retry, source, fundingConsumed, flagVars,
                   refundStep, charged, subscriptionActive, faults,
                   historyVars>>

\* reserveToken succeeded: the session accounts for the larger reservation.
ReserveToken(r) ==
    /\ pc[r] = "reserving"
    /\ TokenAvailable(r, reserveDelta[r])
    /\ tokenCharged' = [tokenCharged EXCEPT
                          ![r] = @ + TokenShare(r, reserveDelta[r])]
    /\ preConsumedQuota' = [preConsumedQuota EXCEPT ![r] = @ + reserveDelta[r]]
    /\ tokenConsumed' = [tokenConsumed EXCEPT ![r] = @ + reserveDelta[r]]
    /\ extraReserved' = [extraReserved EXCEPT ![r] = @ + reserveDelta[r]]
    /\ trusted' = [trusted EXCEPT ![r] = @ /\ info[r].kind # "image"]
    /\ reserveDelta' = [reserveDelta EXCEPT ![r] = 0]
    /\ Goto(r, AfterReserve(r))
    /\ UNCHANGED <<info, estimate, retry, source, fundingConsumed, flagVars,
                   refundStep, charged, subscriptionActive, faults,
                   historyVars>>

\* Mutant: the rollback leaves the wallet's consumed as it is.
RollbackReserveKeepsConsumed(r) ==
    /\ pc[r] = "reserving"
    /\ TokenShare(r, reserveDelta[r]) > 0
    /\ \E tokenFault, rollbackFault \in {0, 1} :
        /\ tokenFault = 0 => ~TokenAvailable(r, reserveDelta[r])
        /\ faults' = faults + tokenFault + rollbackFault
        /\ faults' <= MaxFaults
        /\ IF rollbackFault = 0
           THEN /\ charged' = [charged EXCEPT ![r] = @ - reserveDelta[r]]
                /\ fundingConsumed' =
                     [fundingConsumed EXCEPT ![r] =
                         IF source[r] = "subscription" THEN @
                         ELSE @]
                /\ UNCHANGED lost
           ELSE /\ lost' = [lost EXCEPT ![r] = TRUE]
                /\ UNCHANGED <<charged, fundingConsumed>>
    /\ reserveDelta' = [reserveDelta EXCEPT ![r] = 0]
    /\ Goto(r, "failing")
    /\ UNCHANGED <<info, estimate, retry, source, preConsumedQuota,
                   tokenConsumed, extraReserved, trusted, flagVars,
                   refundStep, tokenCharged, subscriptionActive,
                   actual, fee>>

\* reserveToken failed: rollbackFundingReserve, and the request fails.  When
\* the rollback fails as well, it is logged and the funding keeps the delta.
RollbackFundingReserve(r) ==
    /\ pc[r] = "reserving"
    /\ TokenShare(r, reserveDelta[r]) > 0
    /\ \E tokenFault, rollbackFault \in {0, 1} :
        /\ tokenFault = 0 => ~TokenAvailable(r, reserveDelta[r])
        /\ faults' = faults + tokenFault + rollbackFault
        /\ faults' <= MaxFaults
        /\ IF rollbackFault = 0
           THEN /\ charged' = [charged EXCEPT ![r] = @ - reserveDelta[r]]
                /\ fundingConsumed' =
                     [fundingConsumed EXCEPT ![r] =
                         IF source[r] = "subscription" THEN @
                         ELSE @ - reserveDelta[r]]
                /\ UNCHANGED lost
           ELSE /\ lost' = [lost EXCEPT ![r] = TRUE]
                /\ UNCHANGED <<charged, fundingConsumed>>
    /\ reserveDelta' = [reserveDelta EXCEPT ![r] = 0]
    /\ Goto(r, "failing")
    /\ UNCHANGED <<info, estimate, retry, source, preConsumedQuota,
                   tokenConsumed, extraReserved, trusted, flagVars,
                   refundStep, tokenCharged, subscriptionActive,
                   actual, fee>>

-----------------------------------------------------------------------------
(* The attempts.                                                           *)

\* A text or image attempt is sent; a task is submitted.
SendUpstream(r) ==
    /\ pc[r] = "attempt"
    /\ Goto(r, "upstream")
    /\ UNCHANGED <<info, estimate, retry, sessionVars, worldVars>>

\* Mutant: a retry is not counted.
UpstreamFailsUncounted(r) ==
    /\ pc[r] = "upstream"
    /\ \/ /\ retry[r] < RetryTimes
          /\ retry' = [retry EXCEPT ![r] = @]
          /\ Goto(r, "attempt")
       \/ Goto(r, "failing") /\ UNCHANGED retry
    /\ UNCHANGED <<info, estimate, sessionVars, worldVars>>

\* The attempt failed.  The retry policy tries another channel or stops.
UpstreamFails(r) ==
    /\ pc[r] = "upstream"
    /\ \/ /\ retry[r] < RetryTimes
          /\ retry' = [retry EXCEPT ![r] = @ + 1]
          /\ Goto(r, "attempt")
       \/ Goto(r, "failing") /\ UNCHANGED retry
    /\ UNCHANGED <<info, estimate, sessionVars, worldVars>>

\* No channel, an unreadable body, a cancelled submission, a failed insert.
Abandon(r) ==
    /\ \/ pc[r] = "attempt"
       \/ pc[r] \in {"submitted", "insert"}
    /\ Goto(r, "failing")
    /\ UNCHANGED <<info, estimate, retry, sessionVars, worldVars>>

\* The answer fixes what the request costs.
UpstreamAnswers(r) ==
    /\ pc[r] = "upstream"
    /\ \E q \in Quotas : actual' = [actual EXCEPT ![r] = q]
    /\ Goto(r, IF info[r].kind = "task" THEN "submitted" ELSE "settle")
    /\ UNCHANGED <<info, estimate, retry, sessionVars, ledgerVars,
                   subscriptionActive, faults, fee, lost>>

\* executeTaskSubmissionWith: Reserve had nothing to do.
SkipTaskReserve(r) ==
    /\ pc[r] = "submitted"
    /\ source[r] = "none" \/ ReserveSkipped(r, actual[r])
    /\ Goto(r, "insert")
    /\ UNCHANGED <<info, estimate, retry, sessionVars, worldVars>>

\* The task row is durable: from here the submission settles, never refunds.
InsertTask(r) ==
    /\ pc[r] = "insert"
    /\ Goto(r, "settle")
    /\ UNCHANGED <<info, estimate, retry, sessionVars, worldVars>>

-----------------------------------------------------------------------------
(* Settle and Refund.                                                      *)

\* funding.Settle: the wallet admits debt, the subscription does not.
FundingSettles(r, delta) ==
    source[r] = "subscription" => SubscriptionFits(delta)

\* Both halves of an adjustment of a request's charge: the funding source,
\* then the token.  A failing token half is only logged.
Adjust(r, delta) ==
    /\ charged' = [charged EXCEPT ![r] = @ + delta]
    /\ \/ /\ Succeeds
          /\ tokenCharged' = [tokenCharged EXCEPT ![r] = @ + TokenShare(r, delta)]
          /\ UNCHANGED lost
       \/ /\ TokenShare(r, delta) # 0 /\ Fails
          /\ lost' = [lost EXCEPT ![r] = TRUE]
          /\ UNCHANGED tokenCharged

\* The funding half failed, so nothing was adjusted; the error is logged.
AdjustFails(r, delta) ==
    /\ delta # 0
    /\ \/ ~FundingSettles(r, delta) /\ Succeeds
       \/ Fails
    /\ UNCHANGED <<ledgerVars, lost>>

\* BillingSession.Settle(actualQuota), under the session's mutex.
Settle(r) ==
    /\ pc[r] = "settle" /\ source[r] # "none"
    /\ ~settled[r]
    /\ LET delta == actual[r] - preConsumedQuota[r] IN
        \/ /\ FundingSettles(r, delta)
           /\ Adjust(r, delta)
           /\ settled' = [settled EXCEPT ![r] = TRUE]
           /\ fundingSettled' = [fundingSettled EXCEPT ![r] = delta # 0]
        \/ AdjustFails(r, delta) /\ UNCHANGED <<settled, fundingSettled>>
    /\ Goto(r, "settled")
    /\ UNCHANGED <<info, estimate, retry, source, amountVars, refunded,
                   reserveDelta, refundStep, subscriptionActive,
                   actual, fee>>

\* SettleBilling without a session: PostConsumeQuota of the whole cost.
SettleWithoutSession(r) ==
    /\ pc[r] = "settle" /\ source[r] = "none"
    /\ \/ Adjust(r, actual[r])
       \/ AdjustFails(r, actual[r])
    /\ Goto(r, "settled")
    /\ UNCHANGED <<info, estimate, retry, sessionVars, subscriptionActive,
                   actual, fee>>

\* The handler returns without an error, and the request is over.
Finish(r) ==
    /\ pc[r] = "settled"
    /\ Goto(r, "closed")
    /\ UNCHANGED <<info, estimate, retry, sessionVars, worldVars>>

\* A Responses WebSocket call recovers a panic after it settled, and its
\* deferred handler runs RefundFailedRequestBilling.
PanicAfterSettle(r) ==
    /\ pc[r] = "settled" /\ info[r].kind = "text"
    /\ Goto(r, "failing")
    /\ UNCHANGED <<info, estimate, retry, sessionVars, worldVars>>

\* Mutant: the settled flags are not looked at.
NeedsRefundSettled(r) ==
    /\ source[r] # "none"
    /\ ~refunded[r]
    /\ \/ tokenConsumed[r] > 0
       \/ source[r] = "subscription" /\ fundingConsumed[r] > 0

\* needsRefundLocked, with the guard of Refund around it.
NeedsRefund(r) ==
    /\ source[r] # "none"
    /\ ~settled[r] /\ ~refunded[r] /\ ~fundingSettled[r]
    /\ \/ tokenConsumed[r] > 0
       \/ source[r] = "subscription" /\ fundingConsumed[r] > 0

\* Refund, the part under the mutex: it claims the refund and starts it.  A
\* request then owes the violation fee if there is one; a task does not.
Refund(r) ==
    /\ pc[r] = "failing"
    /\ IF NeedsRefund(r)
       THEN /\ refunded' = [refunded EXCEPT ![r] = TRUE]
            /\ refundStep' = [refundStep EXCEPT ![r] = "funding"]
       ELSE UNCHANGED <<refunded, refundStep>>
    /\ Goto(r, IF info[r].kind = "task" THEN "closed" ELSE "fee")
    /\ UNCHANGED <<info, estimate, retry, source, amountVars, fundingSettled,
                   settled, reserveDelta, worldVars>>

\* ChargeViolationFeeIfNeeded, while the refund is running.
ChargeViolationFee(r) ==
    /\ pc[r] = "fee"
    /\ \/ UNCHANGED <<ledgerVars, fee, lost, faults>>
       \/ \E q \in ViolationFees :
            \/ /\ FundingSettles(r, q)
               /\ Adjust(r, q)
               /\ fee' = [fee EXCEPT ![r] = q]
            \/ AdjustFails(r, q) /\ UNCHANGED fee
    /\ Goto(r, "closed")
    /\ UNCHANGED <<info, estimate, retry, sessionVars, subscriptionActive,
                   actual>>

\* Mutant: the wallet's refund is retried although it succeeded.
RefundFundingRetried(r) ==
    /\ refundStep[r] = "funding"
    /\ \/ /\ Succeeds
          /\ charged' = [charged EXCEPT ![r] = @ - fundingConsumed[r]]
          /\ UNCHANGED lost
       \/ /\ fundingConsumed[r] > 0 /\ Fails
          /\ lost' = [lost EXCEPT ![r] = TRUE]
          /\ UNCHANGED charged
    /\ refundStep' = [refundStep EXCEPT ![r] =
                        IF source[r] = "subscription" THEN "extra" ELSE "funding"]
    /\ UNCHANGED <<pc, info, estimate, retry, source, amountVars, flagVars,
                   reserveDelta, tokenCharged, subscriptionActive,
                   actual, fee>>

\* Step 1 of the refund goroutine, funding.Refund: the wallet gets back
\* consumed, the subscription the recorded pre-consume.
RefundFunding(r) ==
    /\ refundStep[r] = "funding"
    /\ \/ /\ Succeeds
          /\ charged' = [charged EXCEPT ![r] = @ - fundingConsumed[r]]
          /\ UNCHANGED lost
       \/ /\ fundingConsumed[r] > 0 /\ Fails
          /\ lost' = [lost EXCEPT ![r] = TRUE]
          /\ UNCHANGED charged
    /\ refundStep' = [refundStep EXCEPT ![r] =
                        IF source[r] = "subscription" THEN "extra" ELSE "token"]
    /\ UNCHANGED <<pc, info, estimate, retry, source, amountVars, flagVars,
                   reserveDelta, tokenCharged, subscriptionActive,
                   actual, fee>>

\* ... what Reserve added to a subscription,
RefundExtra(r) ==
    /\ refundStep[r] = "extra"
    /\ \/ /\ Succeeds
          /\ charged' = [charged EXCEPT ![r] = @ - extraReserved[r]]
          /\ UNCHANGED lost
       \/ /\ extraReserved[r] > 0 /\ Fails
          /\ lost' = [lost EXCEPT ![r] = TRUE]
          /\ UNCHANGED charged
    /\ refundStep' = [refundStep EXCEPT ![r] = "token"]
    /\ UNCHANGED <<pc, info, estimate, retry, source, amountVars, flagVars,
                   reserveDelta, tokenCharged, subscriptionActive,
                   actual, fee>>

\* ... and step 2, the token.
RefundToken(r) ==
    /\ refundStep[r] = "token"
    /\ \/ /\ Succeeds
          /\ tokenCharged' = [tokenCharged EXCEPT
                                ![r] = @ - TokenShare(r, tokenConsumed[r])]
          /\ UNCHANGED lost
       \/ /\ TokenShare(r, tokenConsumed[r]) > 0 /\ Fails
          /\ lost' = [lost EXCEPT ![r] = TRUE]
          /\ UNCHANGED tokenCharged
    /\ refundStep' = [refundStep EXCEPT ![r] = "done"]
    /\ UNCHANGED <<pc, info, estimate, retry, source, amountVars, flagVars,
                   reserveDelta, charged, subscriptionActive, actual,
                   fee>>

\* The subscription expires or is cancelled under the running requests.
ExpireSubscription ==
    /\ subscriptionActive
    /\ subscriptionActive' = FALSE
    /\ UNCHANGED <<pc, info, estimate, retry, sessionVars, ledgerVars, faults,
                   historyVars>>

-----------------------------------------------------------------------------
Open(r) ==
    \/ StartRequest(r) \/ OpenSession(r) \/ ChooseSource(r) \/ TryWallet(r)
    \/ PreConsumeToken(r) \/ PreConsumeFunding(r) \/ RollbackToken(r)

Attempt(r) ==
    \/ ReserveFunding(r) \/ ReserveToken(r) \/ RollbackFundingReserve(r)
    \/ SendUpstream(r) \/ UpstreamFails(r) \/ UpstreamAnswers(r)
    \/ Abandon(r) \/ SkipTaskReserve(r) \/ InsertTask(r)

Close(r) ==
    \/ Settle(r) \/ SettleWithoutSession(r) \/ Finish(r) \/ PanicAfterSettle(r)
    \/ Refund(r) \/ ChargeViolationFee(r)

RefundAsync(r) == RefundFunding(r) \/ RefundExtra(r) \/ RefundToken(r)

\* Every request is over and no refund is running.
Closed(r) == pc[r] = "closed" /\ refundStep[r] \in {"none", "done"}
Terminated == (\A r \in Requests : Closed(r)) /\ UNCHANGED vars

Next ==
    \/ \E r \in Requests : Open(r) \/ Attempt(r) \/ Close(r) \/ RefundAsync(r)
    \/ ExpireSubscription
    \/ Terminated

\* The goroutine of a request and that of its refund are always scheduled,
\* and an upstream call always returns: it has a timeout.
Fairness ==
    \A r \in Requests :
        /\ WF_vars(Open(r) /\ pc[r] # "idle")
        /\ WF_vars(Attempt(r))
        /\ WF_vars(Close(r))
        /\ WF_vars(RefundAsync(r))

Spec == Init /\ [][Next]_vars
FairSpec == Spec /\ Fairness

-----------------------------------------------------------------------------
(* Properties.                                                             *)

\* Type correctness of the session, the ledgers and the history.
TypeOK ==
    /\ pc \in [Requests -> ControlPoints]
    /\ info \in [Requests -> Profiles]
    /\ estimate \in [Requests -> Quotas \cup {0}]
    /\ retry \in [Requests -> 0..RetryTimes]
    /\ source \in [Requests -> {"none", "wallet", "subscription"}]
    /\ preConsumedQuota \in [Requests -> Nat]
    /\ tokenConsumed \in [Requests -> Nat]
    /\ extraReserved \in [Requests -> Nat]
    /\ fundingConsumed \in [Requests -> Nat]
    /\ trusted \in [Requests -> BOOLEAN]
    /\ fundingSettled \in [Requests -> BOOLEAN]
    /\ settled \in [Requests -> BOOLEAN]
    /\ refunded \in [Requests -> BOOLEAN]
    /\ reserveDelta \in [Requests -> Nat]
    /\ refundStep \in [Requests -> RefundSteps]
    /\ charged \in [Requests -> Nat]
    /\ tokenCharged \in [Requests -> Nat]
    /\ subscriptionActive \in BOOLEAN
    /\ faults \in 0..MaxFaults
    /\ actual \in [Requests -> Quotas \cup {0}]
    /\ fee \in [Requests -> ViolationFees \cup {0}]
    /\ lost \in [Requests -> BOOLEAN]

\* The control points at which a session is open and no step is half done.
Holding == {"attempt", "upstream", "submitted", "insert", "settle"}

\* Between the steps of an open session, what the funding source and the
\* token have given up is exactly the reservation the session accounts for
\* (preConsumedQuota), so Settle's delta charges the actual cost.
OpenSessionHoldsReservation ==
    \A r \in Requests :
        pc[r] \in Holding /\ source[r] # "none" /\ ~lost[r] =>
            /\ charged[r] = preConsumedQuota[r]
            /\ tokenCharged[r] = TokenShare(r, preConsumedQuota[r])

\* A settled request has paid its actual cost, and a violation fee if it owed
\* one, from its funding source and from its token: Settle, and no Refund
\* after it, whatever was reserved, trusted, topped up or retried before.
SettledExactly ==
    \A r \in Requests :
        settled[r] /\ ~lost[r] =>
            /\ charged[r] = actual[r] + fee[r]
            /\ tokenCharged[r] = TokenShare(r, actual[r] + fee[r])

\* A request that opened no session, because it was free or because every
\* source refused it, has paid nothing or the whole of its cost, and its token
\* agrees: preConsume gave back what it had taken from the token.
NoSessionHoldsNothing ==
    \A r \in Requests :
        /\ pc[r] \in {"closed", "attempt", "failing"}
        /\ source[r] = "none" /\ ~lost[r]
        => /\ charged[r] - fee[r] \in {0, actual[r]}
           /\ tokenCharged[r] = TokenShare(r, charged[r])

\* FundingSource.Refund and BillingSettler.Refund give back "all of the
\* pre-consumed quota": once the refund is done only a violation fee is left.
RefundReturnsReservation ==
    \A r \in Requests :
        refundStep[r] = "done" /\ ~lost[r] =>
            /\ charged[r] = fee[r]
            /\ tokenCharged[r] = TokenShare(r, fee[r])

\* The same, for every request but an image paid from the wallet.
RefundReturnsReservationExceptImages ==
    \A r \in Requests :
        /\ refundStep[r] = "done" /\ ~lost[r]
        /\ info[r].kind # "image" \/ source[r] = "subscription"
        => /\ charged[r] = fee[r]
           /\ tokenCharged[r] = TokenShare(r, fee[r])

\* The wallet is in debt only if some request settled for more than it had
\* reserved, paid without a session, topped up a request that is not an
\* image, owed a fee, or lost a compensation: the reservations themselves,
\* racing for the same balance, never overdraw it.
DebtIsExplained ==
    Wallet < 0 =>
        \E r \in Requests :
            /\ source[r] # "subscription"
            /\ \/ actual[r] > preConsumedQuota[r]
               \/ info[r].kind # "image" /\ extraReserved[r] + reserveDelta[r] > 0
               \/ fee[r] > 0
               \/ lost[r]

\* A subscription is never used beyond its total, whatever its requests reserve,
\* top up, settle or owe while they race for what is left of it: no path that
\* charges it trusts a balance it has read before.
SubscriptionWithinTotal ==
    SubscriptionTotal # 0 => SubscriptionUsed <= SubscriptionTotal

\* Every request that starts is eventually over, with its refund done.
EveryRequestCloses ==
    \A r \in Requests : pc[r] # "idle" ~> Closed(r)

\* The phase of a request's charge: committed by Settle (or by the payment of
\* a request that has no session), released once the refund has returned what
\* the funding source held.
ChargePhase(r) ==
    IF settled[r] \/ (source[r] = "none" /\ charged[r] > fee[r])
    THEN "committed"
    ELSE IF refundStep[r] \in {"token", "done"} THEN "released" ELSE "held"

Charge == INSTANCE RequestCharge WITH
    phase  <- [r \in Requests |-> ChargePhase(r)],
    amount <- [r \in Requests |-> charged[r] - fee[r]],
    cost   <- actual

\* While every ledger write succeeds, and images apart, the billing of the
\* requests implements RequestCharge: no interleaving of Reserve, Settle,
\* Refund and the refund goroutine charges a request after its charge is final.
ImplementsRequestCharge == Charge!Spec

=============================================================================
