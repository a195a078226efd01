------------------------ MODULE BillingBalanceProofs ------------------------
(***************************************************************************)
(* Proofs about the balances the requests of BillingSession share, for any *)
(* finite set of requests, any quotas and any number of failing writes.    *)
(*                                                                         *)
(* The invariant of BillingSessionProofs speaks of one request at a time;  *)
(* here the charges are summed.  Of a wallet charge only a part was ever   *)
(* compared with the balance.  Covered is that part, and BalanceInv says   *)
(* that the covered parts together fit into the wallet's initial quota and *)
(* the subscription charges into the subscription's total.  A step is      *)
(* Checked when it grows neither sum beyond what the balance it was        *)
(* compared with allows; then it preserves BalanceInv.  A debt is then due *)
(* to a part that is not covered: each clause of DebtIsExplained names     *)
(* one.                                                                    *)
(***************************************************************************)
EXTENDS BillingSessionProofs, SumTheorems

\* The smaller of two integers.
Lesser(a, b) == IF a <= b THEN a ELSE b

\* What request r has taken from the wallet, and from the subscription.
FromWallet == [r \in Requests |->
    IF source[r] = "subscription" THEN 0 ELSE charged[r]]
FromSubscription == [r \in Requests |->
    IF source[r] = "subscription" THEN charged[r] ELSE 0]

\* The part of a reservation that the wallet was asked for: not what Reserve
\* has added to a request that is not an image.
Asked(r) ==
    IF info[r].kind = "image"
    THEN preConsumedQuota[r] + reserveDelta[r]
    ELSE preConsumedQuota[r] - extraReserved[r]

\* What r still holds of it.
Covered == [r \in Requests |->
    IF source[r] = "subscription" THEN 0
    ELSE Lesser(charged[r] - fee[r], Asked(r))]

\* What all requests hold of the wallet that it was asked for.
CoveredSum == SumFunctionOnSet(Covered, Requests)

\* A refund never leaves more than the reservation and the fee.
RestInv(r) ==
    refundStep[r] \in {"token", "done"} /\ ~lost[r] =>
        charged[r] <= preConsumedQuota[r] + fee[r]

\* The covered charges fit the wallet, the others' their subscription.
BalanceInv ==
    /\ \A r \in Requests : RestInv(r)
    /\ CoveredSum <= WalletQuota
    /\ SubscriptionWithinTotal

\* The balances, as sums over all the requests.
LEMMA Sums ==
    ASSUME TypeOK
    PROVE  /\ FromWallet \in [Requests -> Int]
           /\ FromSubscription \in [Requests -> Int]
           /\ Covered \in [Requests -> Int]
           /\ Wallet = WalletQuota - SumFunctionOnSet(FromWallet, Requests)
           /\ SubscriptionUsed = SumFunctionOnSet(FromSubscription, Requests)
           /\ Wallet \in Int /\ SubscriptionUsed \in Int /\ CoveredSum \in Int
           /\ CoveredSum <= WalletQuota - Wallet
<1>0. IsFiniteSet(Requests) /\ WalletQuota \in Nat
  BY BillingAssumption
<1>1. \A r \in Requests : AmountsNat(r)
  BY RequestTypes
<1>2. /\ FromWallet \in [Requests -> Int]
      /\ FromSubscription \in [Requests -> Int]
  BY <1>1 DEF FromWallet, FromSubscription, AmountsNat
<1>3. /\ Covered \in [Requests -> Int]
      /\ \A r \in Requests : Covered[r] <= FromWallet[r]
  BY <1>1 DEF Covered, FromWallet, Asked, Lesser, AmountsNat
<1>4. Wallet = WalletQuota - SumFunctionOnSet(FromWallet, Requests)
  <2> DEFINE T == {r \in Requests : source[r] # "subscription"}
  <2>1. T \subseteq Requests
        /\ \A r \in Requests : FromWallet[r] = IF r \in T THEN charged[r] ELSE 0
    BY DEF FromWallet
  <2>2. \A r \in Requests : charged[r] \in Int
    BY <1>1 DEF AmountsNat
  <2>3. Wallet = WalletQuota - SumFunctionOnSet(charged, T)
    BY DEF Wallet
  <2> HIDE DEF T
  <2>4. SumFunctionOnSet(charged, T) = SumFunctionOnSet(FromWallet, Requests)
    BY <1>0, <2>1, <2>2, SumSubset
  <2> QED BY <2>3, <2>4
<1>5. SubscriptionUsed = SumFunctionOnSet(FromSubscription, Requests)
  <2> DEFINE T == {r \in Requests : source[r] = "subscription"}
  <2>1. T \subseteq Requests
        /\ \A r \in Requests :
              FromSubscription[r] = IF r \in T THEN charged[r] ELSE 0
    BY DEF FromSubscription
  <2>2. \A r \in Requests : charged[r] \in Int
    BY <1>1 DEF AmountsNat
  <2>3. SubscriptionUsed = SumFunctionOnSet(charged, T)
    BY DEF SubscriptionUsed
  <2> HIDE DEF T
  <2>4. SumFunctionOnSet(charged, T)
          = SumFunctionOnSet(FromSubscription, Requests)
    BY <1>0, <2>1, <2>2, SumSubset
  <2> QED BY <2>3, <2>4
<1>6. /\ SumFunctionOnSet(FromWallet, Requests) \in Int
      /\ SumFunctionOnSet(FromSubscription, Requests) \in Int
      /\ SumFunctionOnSet(Covered, Requests) \in Int
  BY <1>0, <1>2, <1>3, SumType
<1>7. SumFunctionOnSet(Covered, Requests)
        <= SumFunctionOnSet(FromWallet, Requests)
  BY <1>0, <1>2, <1>3, SumOrder
<1> QED BY <1>0, <1>2, <1>3, <1>4, <1>5, <1>6, <1>7 DEF CoveredSum

\* The same after a step.
LEMMA NextSums ==
    ASSUME TypeOK'
    PROVE  /\ FromSubscription' \in [Requests -> Int]
           /\ Covered' \in [Requests -> Int]
           /\ SubscriptionUsed' = SumFunctionOnSet(FromSubscription', Requests)
<1>0. IsFiniteSet(Requests)
  BY BillingAssumption
<1>1. \A r \in Requests :
        /\ charged'[r] \in Nat /\ fee'[r] \in Nat /\ preConsumedQuota'[r] \in Nat
        /\ reserveDelta'[r] \in Nat /\ extraReserved'[r] \in Nat
  <2>1. \A r \in Requests : fee'[r] \in ViolationFees \cup {0}
    BY DEF TypeOK
  <2>2. \A r \in Requests :
          /\ charged'[r] \in Nat /\ preConsumedQuota'[r] \in Nat
          /\ reserveDelta'[r] \in Nat /\ extraReserved'[r] \in Nat
    BY DEF TypeOK
  <2>3. \A r \in Requests : fee'[r] \in Nat
    BY <2>1, Bounds
  <2> QED BY <2>2, <2>3
<1>2. FromSubscription' \in [Requests -> Int] /\ Covered' \in [Requests -> Int]
  BY <1>1 DEF FromSubscription, Covered, Asked, Lesser
<1>3. SubscriptionUsed' = SumFunctionOnSet(FromSubscription', Requests)
  <2> DEFINE T == {r \in Requests : source'[r] = "subscription"}
  <2>1. T \subseteq Requests
        /\ \A r \in Requests :
              FromSubscription'[r] = IF r \in T THEN charged'[r] ELSE 0
    BY DEF FromSubscription
  <2>2. \A r \in Requests : charged'[r] \in Int
    BY <1>1
  <2>3. SubscriptionUsed' = SumFunctionOnSet(charged', T)
    BY DEF SubscriptionUsed
  <2> HIDE DEF T
  <2>4. SumFunctionOnSet(charged', T)
          = SumFunctionOnSet(FromSubscription', Requests)
    BY <1>0, <2>1, <2>2, SumSubset
  <2> QED BY <2>3, <2>4
<1> QED BY <1>2, <1>3

\* The step leaves the amounts of the other requests alone.
OthersKeep(r) ==
    \A s \in Requests \ {r} :
        /\ info'[s] = info[s] /\ source'[s] = source[s]
        /\ charged'[s] = charged[s] /\ fee'[s] = fee[s]
        /\ preConsumedQuota'[s] = preConsumedQuota[s]
        /\ extraReserved'[s] = extraReserved[s]
        /\ reserveDelta'[s] = reserveDelta[s]
        /\ refundStep'[s] = refundStep[s] /\ lost'[s] = lost[s]

\* A balance-checked step of r: the covered part of its charge and its part of
\* the subscription grow at most by what the balance was asked for.
Checked(r) ==
    /\ RestInv(r)'
    /\ \/ Covered'[r] <= Covered[r]
       \/ Covered'[r] <= Covered[r] + Wallet
    /\ \/ FromSubscription'[r] <= FromSubscription[r]
       \/ SubscriptionFits(FromSubscription'[r] - FromSubscription[r])

\* A checked step of one request preserves BalanceInv.
LEMMA CheckedKeeps ==
    ASSUME TypeOK, TypeOK', BalanceInv, NEW r \in Requests, OthersKeep(r),
           Checked(r)
    PROVE  BalanceInv'
<1>0. IsFiniteSet(Requests) /\ WalletQuota \in Nat /\ SubscriptionTotal \in Nat
  BY BillingAssumption
<1>1. /\ \A s \in Requests \ {r} : Covered'[s] = Covered[s]
      /\ \A s \in Requests \ {r} : FromSubscription'[s] = FromSubscription[s]
  BY DEF OthersKeep, Covered, FromSubscription, Asked
<1>2. SumFunctionOnSet(Covered', Requests)
        = SumFunctionOnSet(Covered, Requests) - Covered[r] + Covered'[r]
  BY <1>0, <1>1, Sums, NextSums, SumChange
<1>3. SumFunctionOnSet(FromSubscription', Requests)
        = SumFunctionOnSet(FromSubscription, Requests)
            - FromSubscription[r] + FromSubscription'[r]
  BY <1>0, <1>1, Sums, NextSums, SumChange
<1>4. /\ Covered[r] \in Int /\ Covered'[r] \in Int
      /\ FromSubscription[r] \in Int /\ FromSubscription'[r] \in Int
      /\ Wallet \in Int /\ SubscriptionUsed \in Int /\ CoveredSum \in Int
      /\ CoveredSum <= WalletQuota - Wallet
  BY Sums, NextSums
<1>5. CoveredSum' = CoveredSum - Covered[r] + Covered'[r]
  BY <1>2 DEF CoveredSum
<1>6. SubscriptionUsed'
        = SubscriptionUsed + (FromSubscription'[r] - FromSubscription[r])
  <2>1. /\ SubscriptionUsed = SumFunctionOnSet(FromSubscription, Requests)
        /\ SubscriptionUsed' = SumFunctionOnSet(FromSubscription', Requests)
    BY Sums, NextSums
  <2> QED BY <1>3, <1>4, <2>1
<1>7. CoveredSum' <= WalletQuota
  <2>1. CASE Covered'[r] <= Covered[r]
    BY <1>0, <1>4, <1>5, <2>1 DEF BalanceInv
  <2>2. CASE Covered'[r] <= Covered[r] + Wallet
    BY <1>0, <1>4, <1>5, <2>2
  <2> QED BY <2>1, <2>2 DEF Checked
<1>8. SubscriptionWithinTotal'
  <2> DEFINE d == FromSubscription'[r] - FromSubscription[r]
  <2>1. SUFFICES ASSUME SubscriptionTotal # 0
                 PROVE  SubscriptionUsed' <= SubscriptionTotal
    BY DEF SubscriptionWithinTotal
  <2>2. SubscriptionUsed <= SubscriptionTotal
    BY <2>1 DEF BalanceInv, SubscriptionWithinTotal
  <2>3. CASE FromSubscription'[r] <= FromSubscription[r]
    BY <1>0, <1>4, <1>6, <2>2, <2>3
  <2>4. CASE SubscriptionFits(d)
    BY <1>0, <1>4, <1>6, <2>1, <2>4 DEF SubscriptionFits
  <2> QED BY <2>3, <2>4 DEF Checked
<1>9. \A s \in Requests : RestInv(s)'
  <2>1. ASSUME NEW s \in Requests, s # r PROVE RestInv(s)'
    BY <2>1 DEF OthersKeep, BalanceInv, RestInv
  <2> QED BY <2>1 DEF Checked
<1> QED BY <1>7, <1>8, <1>9 DEF BalanceInv

USE DEF Goto, sessionVars, worldVars, amountVars, flagVars, ledgerVars,
        historyVars, Opening, TokenStage, Holding, Closing

\* A step that leaves the amounts of a request alone, or gives some back.
LEMMA NothingTaken ==
    ASSUME IInv, BalanceInv, NEW r \in Requests, info'[r] = info[r],
           source'[r] = source[r], charged'[r] \in Nat,
           charged'[r] <= charged[r], fee'[r] = fee[r],
           preConsumedQuota'[r] = preConsumedQuota[r],
           extraReserved'[r] = extraReserved[r],
           reserveDelta'[r] \in {0, reserveDelta[r]},
           refundStep'[r] = refundStep[r], lost[r] => lost'[r]
    PROVE  Checked(r)
<1>1. AmountsNat(r) /\ RestInv(r)
  BY RequestTypes DEF IInv, BalanceInv
<1>2. RestInv(r)'
  BY <1>1 DEF RestInv, AmountsNat
<1>3. Covered'[r] <= Covered[r]
  BY <1>1 DEF Covered, Asked, Lesser, AmountsNat
<1>4. FromSubscription'[r] <= FromSubscription[r]
  BY <1>1 DEF FromSubscription, AmountsNat
<1> QED BY <1>2, <1>3, <1>4 DEF Checked

\* Until the funding source has answered, a request has taken nothing, and
\* which source it asks does not matter.
LEMMA NothingHeld ==
    ASSUME IInv, NEW r \in Requests, pc[r] \in Opening \cup TokenStage,
           UNCHANGED <<info, charged, fee, preConsumedQuota, extraReserved,
                       reserveDelta, refundStep>>
    PROVE  Checked(r)
<1>1. AmountsNat(r) /\ RequestInv(r)
  BY RequestTypes DEF IInv
<1>2. /\ charged[r] = 0 /\ fee[r] = 0 /\ preConsumedQuota[r] = 0
      /\ extraReserved[r] = 0 /\ reserveDelta[r] = 0 /\ refundStep[r] = "none"
  BY <1>1 DEF RequestInv, ControlInv, AmountInv, FundingInv
<1>3. RestInv(r)'
  BY <1>2 DEF RestInv
<1>4. Covered[r] = 0 /\ Covered'[r] = 0
  BY <1>2 DEF Covered, Asked, Lesser
<1>5. FromSubscription[r] = 0 /\ FromSubscription'[r] = 0
  BY <1>2 DEF FromSubscription
<1> QED BY <1>3, <1>4, <1>5 DEF Checked

\* The pre-consume takes what the balance was compared with, or nothing.
LEMMA OpenChecked ==
    ASSUME IInv, IInv', BalanceInv, NEW r \in Requests, Open(r)
    PROVE  Checked(r) /\ OthersKeep(r)
<1>1. OthersKeep(r)
  BY DEF IInv, TypeOK, Open, StartRequest, OpenSession, ChooseSource,
     TryWallet, PreConsumeToken, PreConsumeFunding, FundingReserved,
     RollbackToken, Fallback, Reject, OthersKeep
<1>2. AmountsNat(r) /\ RequestInv(r)
  BY RequestTypes DEF IInv
<1>3. CASE StartRequest(r) \/ OpenSession(r)
  <2>1. /\ UNCHANGED <<info, source, charged, fee, preConsumedQuota,
                       extraReserved, reserveDelta, refundStep, lost>>
    BY <1>3 DEF StartRequest, OpenSession
  <2> QED BY <1>1, <1>2, <2>1, NothingTaken DEF AmountsNat
<1>4. CASE ChooseSource(r) \/ TryWallet(r) \/ PreConsumeToken(r) \/ RollbackToken(r)
  <2>1. pc[r] \in Opening \cup TokenStage
    BY <1>4 DEF ChooseSource, TryWallet, PreConsumeToken, RollbackToken
  <2>2. UNCHANGED <<info, charged, fee, preConsumedQuota, extraReserved,
                    reserveDelta, refundStep>>
    BY <1>4 DEF ChooseSource, TryWallet, PreConsumeToken, RollbackToken
  <2> QED BY <1>1, <2>1, <2>2, NothingHeld
<1>5. CASE PreConsumeFunding(r)
  <2>1. pc[r] = "reserveFunding"
    BY <1>5 DEF PreConsumeFunding
  <2>2. CASE UNCHANGED <<charged, preConsumedQuota>>
    <3>1. UNCHANGED <<info, fee, extraReserved, reserveDelta, refundStep>>
      BY <1>5 DEF PreConsumeFunding
    <3> QED BY <1>1, <2>1, <2>2, <3>1, NothingHeld
  <2>3. CASE FundingAvailable(r) /\ FundingReserved(r)
    <3> DEFINE q == EffectiveQuota(r)
    <3>1. /\ charged[r] = 0 /\ fee[r] = 0 /\ preConsumedQuota[r] = 0
          /\ extraReserved[r] = 0 /\ reserveDelta[r] = 0
          /\ refundStep[r] = "none"
      BY <1>2, <2>1 DEF RequestInv, ControlInv, AmountInv, FundingInv
    <3>2. q \in Nat
      BY <1>2 DEF EffectiveQuota, AmountsNat
    <3>3. /\ charged'[r] = q /\ preConsumedQuota'[r] = q /\ fee'[r] = 0
          /\ extraReserved'[r] = 0 /\ reserveDelta'[r] = 0
          /\ refundStep'[r] = "none" /\ source'[r] = source[r]
          /\ info'[r] = info[r]
      BY <1>5, <2>3, <3>1, <3>2 DEF PreConsumeFunding, FundingReserved, IInv,
         TypeOK
    <3>4. RestInv(r)'
      BY <3>3 DEF RestInv
    <3>5. /\ Covered[r] = 0 /\ FromSubscription[r] = 0
      BY <3>1 DEF Covered, FromSubscription, Asked, Lesser
    <3>6. CASE source[r] = "subscription"
      <4>1. Covered'[r] = 0 /\ FromSubscription'[r] = q
        BY <3>3, <3>6 DEF Covered, FromSubscription
      <4>2. SubscriptionFits(q)
        BY <2>3, <3>6 DEF FundingAvailable
      <4>3. q - 0 = q
        BY <3>2
      <4> QED BY <1>1, <3>4, <3>5, <4>1, <4>2, <4>3 DEF Checked
    <3>7. CASE source[r] # "subscription"
      <4>1. Covered'[r] = q /\ FromSubscription'[r] = 0
        BY <3>2, <3>3, <3>7 DEF Covered, FromSubscription, Asked, Lesser
      <4>2. q = 0 \/ Wallet >= q
        BY <2>3, <3>7 DEF FundingAvailable
      <4>3. Wallet \in Int
        BY Sums DEF IInv
      <4> HIDE DEF q
      <4> QED BY <1>1, <3>2, <3>4, <3>5, <4>1, <4>2, <4>3 DEF Checked
    <3> QED BY <3>6, <3>7
  <2> QED BY <1>5, <2>2, <2>3 DEF PreConsumeFunding
<1> QED BY <1>3, <1>4, <1>5 DEF Open

\* A top-up takes from a subscription, or from the wallet for an image, what the
\* balance was compared with; any other top-up is outside of the covered part.
LEMMA ReserveFundingChecked ==
    ASSUME IInv, IInv', BalanceInv, NEW r \in Requests, ReserveFunding(r)
    PROVE  Checked(r) /\ OthersKeep(r)
<1>1. OthersKeep(r)
  BY DEF IInv, TypeOK, ReserveFunding, OthersKeep
<1>2. AmountsNat(r) /\ RequestInv(r)
  BY RequestTypes DEF IInv
<1>3. pc[r] \in Holding
  BY DEF ReserveFunding, ReservePoint
<1>4. /\ fee[r] = 0 /\ reserveDelta[r] = 0 /\ refundStep[r] = "none"
      /\ charged[r] = preConsumedQuota[r]
  BY <1>2, <1>3 DEF RequestInv, ControlInv, FundingInv, AmountsNat
<1>5. CASE UNCHANGED <<charged, fundingConsumed, reserveDelta>>
  <2>1. UNCHANGED <<info, source, fee, preConsumedQuota, extraReserved,
                    refundStep, lost>>
    BY DEF ReserveFunding
  <2> QED BY <1>1, <1>2, <1>5, <2>1, NothingTaken DEF AmountsNat
<1>6. ASSUME NEW target \in ReserveTargets(r),
             ~ReserveSkipped(r, target),
             ReserveAvailable(r, target - preConsumedQuota[r]),
             charged' = [charged EXCEPT ![r] = @ + (target - preConsumedQuota[r])],
             reserveDelta' =
               [reserveDelta EXCEPT ![r] = target - preConsumedQuota[r]]
      PROVE  Checked(r) /\ OthersKeep(r)
  <2> DEFINE d == target - preConsumedQuota[r]
  <2>1. d \in Nat /\ d > 0
    <3>1. target \in Nat
      BY <1>2, <1>6, Bounds DEF ReserveTargets, AmountsNat
    <3>2. ~(target <= preConsumedQuota[r])
      BY <1>6 DEF ReserveSkipped
    <3> QED BY <1>2, <3>1, <3>2 DEF AmountsNat
  <2>2. /\ charged'[r] = charged[r] + d /\ reserveDelta'[r] = d
    BY <1>6 DEF IInv, TypeOK
  <2>3. /\ info'[r] = info[r] /\ source'[r] = source[r] /\ fee'[r] = 0
        /\ preConsumedQuota'[r] = preConsumedQuota[r]
        /\ extraReserved'[r] = extraReserved[r] /\ refundStep'[r] = "none"
    BY <1>4 DEF ReserveFunding
  <2>4. RestInv(r)'
    BY <2>3 DEF RestInv
  <2>5. Wallet \in Int
    BY Sums DEF IInv
  <2>6. ReserveAvailable(r, d)
    BY <1>6
  <2> HIDE DEF d
  <2>7. CASE source[r] = "subscription"
    <3>1. Covered'[r] = Covered[r]
      BY <2>3, <2>7 DEF Covered
    <3>2. FromSubscription'[r] - FromSubscription[r] = d
      BY <1>2, <2>1, <2>2, <2>3, <2>7 DEF FromSubscription, AmountsNat
    <3>3. SubscriptionFits(d)
      BY <2>6, <2>7 DEF ReserveAvailable
    <3>4. Covered[r] \in Int
      BY Sums DEF IInv
    <3> QED BY <1>1, <2>4, <3>1, <3>2, <3>3, <3>4 DEF Checked
  <2>8. CASE source[r] # "subscription" /\ info[r].kind = "image"
    <3>1. Covered[r] = preConsumedQuota[r]
          /\ Covered'[r] = preConsumedQuota[r] + d
      BY <1>2, <1>4, <2>1, <2>2, <2>3, <2>8
         DEF Covered, Asked, Lesser, AmountsNat
    <3>2. Wallet >= d
      BY <2>6, <2>8 DEF ReserveAvailable
    <3>3. FromSubscription'[r] = 0 /\ FromSubscription[r] = 0
      BY <2>3, <2>8 DEF FromSubscription
    <3>4. preConsumedQuota[r] \in Nat
      BY <1>2 DEF AmountsNat
    <3> QED BY <1>1, <2>1, <2>4, <2>5, <3>1, <3>2, <3>3, <3>4 DEF Checked
  <2>9. CASE source[r] # "subscription" /\ info[r].kind # "image"
    <3>1. Covered'[r] <= Covered[r]
      BY <1>2, <1>4, <2>1, <2>2, <2>3, <2>9
         DEF Covered, Asked, Lesser, AmountsNat
    <3>2. FromSubscription'[r] = 0 /\ FromSubscription[r] = 0
      BY <2>3, <2>9 DEF FromSubscription
    <3> QED BY <1>1, <2>4, <3>1, <3>2 DEF Checked
  <2> QED BY <2>7, <2>8, <2>9
<1> QED BY <1>5, <1>6 DEF ReserveFunding

\* Between the pre-consume and the outcome only a top-up takes quota.
LEMMA AttemptChecked ==
    ASSUME IInv, IInv', BalanceInv, NEW r \in Requests, Attempt(r)
    PROVE  Checked(r) /\ OthersKeep(r)
<1>1. CASE ReserveFunding(r)
  BY <1>1, ReserveFundingChecked
<1>2. AmountsNat(r) /\ RequestInv(r) /\ TypeOK
  BY RequestTypes DEF IInv
<1>3. CASE ReserveToken(r)
  <2>1. OthersKeep(r)
    BY <1>2, <1>3 DEF TypeOK, ReserveToken, OthersKeep
  <2>2. /\ charged' = charged /\ fee' = fee /\ info' = info /\ source' = source
        /\ preConsumedQuota'[r] = preConsumedQuota[r] + reserveDelta[r]
        /\ extraReserved'[r] = extraReserved[r] + reserveDelta[r]
        /\ reserveDelta'[r] = 0
        /\ refundStep' = refundStep
    BY <1>2, <1>3 DEF ReserveToken, TypeOK
  <2>3. refundStep[r] = "none"
    BY <1>2, <1>3 DEF ReserveToken, RequestInv, ControlInv
  <2>4. RestInv(r)'
    BY <2>2, <2>3 DEF RestInv
  <2>5. Covered'[r] <= Covered[r]
    BY <1>2, <2>2 DEF Covered, Asked, Lesser, AmountsNat
  <2>6. FromSubscription'[r] <= FromSubscription[r]
    BY <1>2, <2>2 DEF FromSubscription, AmountsNat
  <2> QED BY <2>1, <2>4, <2>5, <2>6 DEF Checked
<1>4. CASE RollbackFundingReserve(r)
  <2>1. OthersKeep(r)
    BY <1>2, <1>4 DEF TypeOK, RollbackFundingReserve, OthersKeep
  <2>2. UNCHANGED <<info, source, fee, preConsumedQuota, extraReserved,
                    refundStep>>
    BY <1>4 DEF RollbackFundingReserve
  <2>3. reserveDelta'[r] = 0 /\ charged'[r] <= charged[r]
    BY <1>2, <1>4 DEF RollbackFundingReserve, TypeOK, AmountsNat
  <2>4. charged'[r] \in Nat
    BY DEF IInv, TypeOK
  <2>5. lost[r] => lost'[r]
    BY <1>2, <1>4 DEF RollbackFundingReserve, TypeOK
  <2> QED BY <2>1, <2>2, <2>3, <2>4, <2>5, NothingTaken
<1>5. CASE \/ SendUpstream(r) \/ UpstreamFails(r) \/ UpstreamAnswers(r)
           \/ Abandon(r) \/ SkipTaskReserve(r) \/ InsertTask(r)
  <2>1. UNCHANGED <<info, source, charged, fee, preConsumedQuota,
                    extraReserved, reserveDelta, refundStep, lost>>
    BY <1>5 DEF SendUpstream, UpstreamFails, UpstreamAnswers, Abandon,
       SkipTaskReserve, InsertTask
  <2>2. OthersKeep(r)
    BY <2>1 DEF OthersKeep
  <2> QED BY <1>2, <2>1, <2>2, NothingTaken DEF AmountsNat
<1> QED BY <1>1, <1>3, <1>4, <1>5 DEF Attempt

\* A settlement or a fee takes from a subscription only what is left of it; what
\* it takes from the wallet beyond the reservation is not covered.
LEMMA CloseChecked ==
    ASSUME IInv, IInv', BalanceInv, NEW r \in Requests, Close(r)
    PROVE  Checked(r) /\ OthersKeep(r)
<1>1. OthersKeep(r)
  BY DEF IInv, TypeOK, OthersKeep, Close, Settle, SettleWithoutSession, Adjust,
     AdjustFails, Finish, PanicAfterSettle, Refund, ChargeViolationFee
<1>2. AmountsNat(r) /\ RequestInv(r) /\ TypeOK /\ RestInv(r)
  BY RequestTypes DEF IInv, BalanceInv
<1>3. CASE Settle(r) \/ SettleWithoutSession(r)
  <2>1. pc[r] = "settle"
    BY <1>3 DEF Settle, SettleWithoutSession
  <2>2. /\ fee[r] = 0 /\ reserveDelta[r] = 0 /\ refundStep[r] = "none"
        /\ charged[r] = preConsumedQuota[r]
    BY <1>2, <2>1 DEF RequestInv, ControlInv, FundingInv, AmountsNat
  <2>3. UNCHANGED <<info, source, fee, preConsumedQuota, extraReserved,
                    reserveDelta, refundStep>>
    BY <1>3 DEF Settle, SettleWithoutSession
  <2>4. RestInv(r)'
    BY <2>2, <2>3 DEF RestInv
  <2>5. charged'[r] \in Nat
    BY DEF IInv, TypeOK
  <2>6. Covered'[r] <= Covered[r]
    BY <1>2, <2>2, <2>3, <2>5 DEF Covered, Asked, Lesser, AmountsNat
  <2>7. \/ charged'[r] = charged[r]
        \/ source[r] # "subscription"
        \/ /\ SubscriptionFits(actual[r] - preConsumedQuota[r])
           /\ charged'[r] = charged[r] + (actual[r] - preConsumedQuota[r])
    BY <1>2, <1>3 DEF Settle, SettleWithoutSession, Adjust, AdjustFails,
       FundingSettles, TypeOK
  <2>8. \/ FromSubscription'[r] <= FromSubscription[r]
        \/ SubscriptionFits(FromSubscription'[r] - FromSubscription[r])
    <3>1. CASE charged'[r] = charged[r] \/ source[r] # "subscription"
      BY <1>2, <2>3, <3>1 DEF FromSubscription, AmountsNat
    <3>2. CASE /\ source[r] = "subscription"
               /\ SubscriptionFits(actual[r] - preConsumedQuota[r])
               /\ charged'[r] = charged[r] + (actual[r] - preConsumedQuota[r])
      <4>1. FromSubscription'[r] - FromSubscription[r]
              = actual[r] - preConsumedQuota[r]
        BY <1>2, <2>3, <3>2 DEF FromSubscription, AmountsNat
      <4> QED BY <3>2, <4>1
    <3> QED BY <2>7, <3>1, <3>2
  <2> QED BY <1>1, <2>4, <2>6, <2>8 DEF Checked
<1>4. CASE Finish(r) \/ PanicAfterSettle(r)
  <2>1. UNCHANGED <<info, source, charged, fee, preConsumedQuota,
                    extraReserved, reserveDelta, refundStep, lost>>
    BY <1>4 DEF Finish, PanicAfterSettle
  <2> QED BY <1>1, <1>2, <2>1, NothingTaken DEF AmountsNat
<1>5. CASE Refund(r)
  <2>1. UNCHANGED <<info, source, charged, fee, preConsumedQuota,
                    extraReserved, reserveDelta>>
    BY <1>5 DEF Refund
  <2>2. refundStep'[r] \in {"funding", "none"}
    BY <1>2, <1>5 DEF Refund, TypeOK, RequestInv, ControlInv
  <2>3. RestInv(r)'
    BY <2>2 DEF RestInv
  <2>4. Covered'[r] <= Covered[r] /\ FromSubscription'[r] <= FromSubscription[r]
    BY <1>2, <2>1 DEF Covered, FromSubscription, Asked, Lesser, AmountsNat
  <2> QED BY <1>1, <2>3, <2>4 DEF Checked
<1>6. CASE ChargeViolationFee(r)
  <2>1. UNCHANGED <<info, source, preConsumedQuota, extraReserved,
                    reserveDelta, refundStep>>
    BY <1>6 DEF ChargeViolationFee
  <2>2. fee[r] = 0
    BY <1>2, <1>6 DEF ChargeViolationFee, RequestInv, ControlInv
  <2>3. CASE UNCHANGED <<charged, fee, lost>>
    BY <1>1, <1>2, <2>1, <2>3, NothingTaken DEF AmountsNat
  <2>4. ASSUME NEW q \in ViolationFees, FundingSettles(r, q), Adjust(r, q),
               fee' = [fee EXCEPT ![r] = q]
        PROVE  Checked(r) /\ OthersKeep(r)
    <3>1. q \in Nat /\ charged'[r] = charged[r] + q /\ fee'[r] = q
      BY <1>2, <2>4, Bounds DEF Adjust, TypeOK
    <3>2. lost[r] => lost'[r]
      BY <1>2, <2>4 DEF Adjust, TypeOK
    <3>3. RestInv(r)'
      BY <1>2, <2>1, <2>2, <3>1, <3>2 DEF RestInv, AmountsNat
    <3>4. Covered'[r] <= Covered[r]
      BY <1>2, <2>1, <2>2, <3>1 DEF Covered, Asked, Lesser, AmountsNat
    <3>5. CASE source[r] = "subscription"
      <4>1. SubscriptionFits(q)
        BY <2>4, <3>5 DEF FundingSettles
      <4>2. FromSubscription'[r] - FromSubscription[r] = q
        BY <1>2, <2>1, <3>1, <3>5 DEF FromSubscription, AmountsNat
      <4> QED BY <1>1, <3>3, <3>4, <4>1, <4>2 DEF Checked
    <3>6. CASE source[r] # "subscription"
      <4>1. FromSubscription'[r] = 0 /\ FromSubscription[r] = 0
        BY <2>1, <3>6 DEF FromSubscription
      <4> QED BY <1>1, <3>3, <3>4, <4>1 DEF Checked
    <3> QED BY <3>5, <3>6
  <2> QED BY <1>6, <2>3, <2>4 DEF ChargeViolationFee, AdjustFails
<1> QED BY <1>3, <1>4, <1>5, <1>6 DEF Close

\* A refund only gives back.
LEMMA RefundChecked ==
    ASSUME IInv, IInv', BalanceInv, NEW r \in Requests, RefundAsync(r)
    PROVE  Checked(r) /\ OthersKeep(r)
<1>1. OthersKeep(r)
  BY DEF IInv, TypeOK, OthersKeep, RefundAsync, RefundFunding, RefundExtra,
     RefundToken
<1>2. AmountsNat(r) /\ RequestInv(r) /\ TypeOK /\ RestInv(r)
  BY RequestTypes DEF IInv, BalanceInv
<1>3. UNCHANGED <<info, source, fee, preConsumedQuota, extraReserved,
                  reserveDelta>>
  BY DEF RefundAsync, RefundFunding, RefundExtra, RefundToken
<1>4. charged'[r] <= charged[r]
  BY <1>2 DEF RefundAsync, RefundFunding, RefundExtra, RefundToken, TypeOK,
     AmountsNat
<1>5. charged'[r] \in Nat
  BY DEF IInv, TypeOK
<1>6. lost[r] => lost'[r]
  BY <1>2 DEF RefundAsync, RefundFunding, RefundExtra, RefundToken, TypeOK
<1>7. refundStep[r] \in {"funding", "extra", "token"}
  BY DEF RefundAsync, RefundFunding, RefundExtra, RefundToken
<1>8. ~lost[r] => charged[r] <= preConsumedQuota[r] + fee[r]
  <2>1. CASE refundStep[r] = "token"
    BY <1>2, <2>1 DEF RestInv
  <2>2. CASE refundStep[r] = "funding"
    <3>1. /\ pc[r] \in Closing /\ source[r] # "none" /\ ~settled[r]
      BY <1>2, <2>2 DEF RequestInv, ControlInv
    <3> QED BY <1>2, <2>2, <3>1 DEF RequestInv, FundingInv, AmountsNat
  <2>3. CASE refundStep[r] = "extra"
    <3>1. source[r] = "subscription" /\ pc[r] \in Closing
      BY <1>2, <2>3 DEF RequestInv, ControlInv
    <3>2. extraReserved[r] <= preConsumedQuota[r]
      BY <1>2, <3>1 DEF RequestInv, AmountInv, Due, AmountsNat
    <3> QED BY <1>2, <2>3, <3>2 DEF RequestInv, FundingInv, AmountsNat
  <2> QED BY <1>7, <2>1, <2>2, <2>3
<1>9. RestInv(r)'
  BY <1>2, <1>3, <1>4, <1>5, <1>6, <1>8 DEF RestInv, AmountsNat
<1>10. Covered'[r] <= Covered[r]
  BY <1>2, <1>3, <1>4, <1>5 DEF Covered, Asked, Lesser, AmountsNat
<1>11. FromSubscription'[r] <= FromSubscription[r]
  BY <1>2, <1>3, <1>4, <1>5 DEF FromSubscription, AmountsNat
<1> QED BY <1>1, <1>9, <1>10, <1>11 DEF Checked

\* Every step preserves BalanceInv.
LEMMA BalanceStep == IInv /\ IInv' /\ BalanceInv /\ [Next]_vars => BalanceInv'
<1> SUFFICES ASSUME IInv, IInv', BalanceInv, [Next]_vars PROVE BalanceInv'
  OBVIOUS
<1>1. ASSUME NEW r \in Requests,
             Open(r) \/ Attempt(r) \/ Close(r) \/ RefundAsync(r)
      PROVE  BalanceInv'
  BY <1>1, OpenChecked, AttemptChecked, CloseChecked, RefundChecked,
     CheckedKeeps DEF IInv
<1>2. CASE ExpireSubscription \/ Terminated \/ UNCHANGED vars
  <2>1. UNCHANGED <<info, source, charged, fee, preConsumedQuota,
                    extraReserved, reserveDelta, refundStep, lost>>
    BY <1>2 DEF ExpireSubscription, Terminated, vars
  <2>2. Covered' = Covered /\ SubscriptionUsed' = SubscriptionUsed
    BY <2>1 DEF Covered, Asked, SubscriptionUsed
  <2> QED BY <2>1, <2>2 DEF BalanceInv, RestInv, CoveredSum,
             SubscriptionWithinTotal
<1> QED BY <1>1, <1>2 DEF Next

\* Nothing is charged at the start.
LEMMA BalanceInit == Init => BalanceInv
<1> SUFFICES ASSUME Init PROVE BalanceInv
  OBVIOUS
<1>0. /\ IsFiniteSet(Requests) /\ WalletQuota \in Nat
      /\ SubscriptionTotal \in Nat
  BY BillingAssumption
<1>1. TypeOK
  BY InitInv DEF IInv
<1>2. \A r \in Requests : RestInv(r)
  BY DEF Init, RestInv
<1>3. \A r \in Requests : Covered[r] = 0 /\ FromSubscription[r] = 0
  BY DEF Init, Covered, FromSubscription, Asked, Lesser
<1>4. CoveredSum = 0
  BY <1>0, <1>3, SumZero DEF CoveredSum
<1>5. SubscriptionUsed = 0
  <2>1. SumFunctionOnSet(FromSubscription, Requests) = 0
    BY <1>0, <1>3, SumZero
  <2> QED BY <1>1, <2>1, Sums
<1> QED BY <1>0, <1>2, <1>4, <1>5 DEF BalanceInv, SubscriptionWithinTotal

\* While no request explains a debt, all that the wallet has given is covered.
LEMMA AllCovered ==
    ASSUME IInv, BalanceInv, NEW r \in Requests,
           source[r] # "subscription" =>
               /\ actual[r] <= preConsumedQuota[r]
               /\ info[r].kind # "image" => extraReserved[r] + reserveDelta[r] <= 0
               /\ fee[r] <= 0 /\ ~lost[r]
    PROVE  FromWallet[r] <= Covered[r]
<1>1. AmountsNat(r) /\ RequestInv(r) /\ RestInv(r) /\ TypeOK
  BY RequestTypes DEF IInv, BalanceInv
<1>2. CASE source[r] = "subscription"
  BY <1>2 DEF FromWallet, Covered
<1>3. CASE source[r] # "subscription"
  <2>1. fee[r] = 0 /\ ~lost[r] /\ actual[r] <= preConsumedQuota[r]
    BY <1>1, <1>3 DEF AmountsNat
  <2>2. Asked(r) = preConsumedQuota[r] + reserveDelta[r]
    BY <1>1, <1>3 DEF AmountsNat, Asked
  <2>3. charged[r] <= preConsumedQuota[r] + reserveDelta[r]
    <3>1. CASE pc[r] \in Opening \cup TokenStage \cup Holding \cup {"reserving"}
      BY <1>1, <3>1 DEF AmountsNat, RequestInv, FundingInv
    <3>2. CASE pc[r] \in Closing /\ (source[r] = "none" \/ settled[r])
      BY <1>1, <2>1, <3>2 DEF AmountsNat, RequestInv, FundingInv
    <3>3. CASE pc[r] \in Closing /\ source[r] # "none" /\ ~settled[r]
      <4>1. CASE refundStep[r] \in {"none", "funding"}
        BY <1>1, <2>1, <3>3, <4>1 DEF AmountsNat, RequestInv, FundingInv
      <4>2. CASE refundStep[r] \in {"token", "done"}
        BY <1>1, <2>1, <4>2 DEF AmountsNat, RestInv
      <4>3. refundStep[r] # "extra"
        BY <1>1, <1>3 DEF RequestInv, ControlInv
      <4>4. refundStep[r] \in RefundSteps
        BY <1>1 DEF TypeOK
      <4> QED BY <4>1, <4>2, <4>3, <4>4 DEF RefundSteps
    <3>4. pc[r] \in ControlPoints
      BY <1>1 DEF TypeOK
    <3> QED BY <3>1, <3>2, <3>3, <3>4 DEF ControlPoints
  <2> QED BY <1>1, <1>3, <2>1, <2>2, <2>3 DEF FromWallet, Covered, Lesser, AmountsNat
<1> QED BY <1>2, <1>3

\* The balance invariant holds in every reachable state, next to the invariant of
\* the single requests.
THEOREM Balances == Spec => [](IInv /\ BalanceInv)
<1>1. Init => IInv /\ BalanceInv
  BY InitInv, BalanceInit
<1>2. (IInv /\ BalanceInv) /\ [Next]_vars => (IInv /\ BalanceInv)'
  BY NextInv, BalanceStep
<1> QED BY <1>1, <1>2, PTL DEF Spec

\* A wallet below zero always has a request in debt to it by a path the code lets
\* go unchecked: a settlement above the reservation, a top-up of a request that is
\* not an image, a violation fee, or a compensation that was lost.  Concurrent
\* pre-consumes and image top-ups alone never overdraw it.
THEOREM DebtHasCause == Spec => []DebtIsExplained
<1>1. IInv /\ BalanceInv => DebtIsExplained
  <2> SUFFICES ASSUME IInv, BalanceInv, Wallet < 0, ~DebtIsExplained
               PROVE  FALSE
    BY DEF DebtIsExplained
  <2>1. ASSUME NEW r \in Requests, source[r] # "subscription"
        PROVE  /\ actual[r] <= preConsumedQuota[r]
               /\ info[r].kind # "image" => extraReserved[r] + reserveDelta[r] <= 0
               /\ fee[r] <= 0 /\ ~lost[r]
    <3>1. AmountsNat(r)
      BY RequestTypes DEF IInv
    <3>2. /\ ~(actual[r] > preConsumedQuota[r])
          /\ ~(info[r].kind # "image" /\ extraReserved[r] + reserveDelta[r] > 0)
          /\ ~(fee[r] > 0) /\ ~lost[r]
      BY <2>1 DEF DebtIsExplained
    <3> QED BY <3>1, <3>2 DEF AmountsNat
  <2>2. \A r \in Requests : FromWallet[r] <= Covered[r]
    BY <2>1, AllCovered
  <2>3. IsFiniteSet(Requests) /\ WalletQuota \in Nat
    BY BillingAssumption
  <2>4. SumFunctionOnSet(FromWallet, Requests)
          <= SumFunctionOnSet(Covered, Requests)
    BY <2>2, <2>3, Sums, SumOrder DEF IInv
  <2>5. SumFunctionOnSet(FromWallet, Requests) \in Int
    BY <2>3, Sums, SumType DEF IInv
  <2>6. SumFunctionOnSet(Covered, Requests) <= WalletQuota
        /\ SumFunctionOnSet(Covered, Requests) \in Int
    BY Sums DEF BalanceInv, CoveredSum, IInv
  <2>7. Wallet = WalletQuota - SumFunctionOnSet(FromWallet, Requests)
    BY Sums DEF IInv
  <2> QED BY <2>3, <2>4, <2>5, <2>6, <2>7
<1> QED BY <1>1, Balances, PTL

\* No interleaving of reservations, top-ups, settlements and fees uses a
\* subscription beyond its total (PreConsumeUserSubscription,
\* PostConsumeUserSubscriptionDelta).
THEOREM SubscriptionNotOverused == Spec => []SubscriptionWithinTotal
<1>1. BalanceInv => SubscriptionWithinTotal
  BY DEF BalanceInv
<1> QED BY <1>1, Balances, PTL
=============================================================================
