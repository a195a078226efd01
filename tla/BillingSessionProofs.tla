------------------------ MODULE BillingSessionProofs ------------------------
(***************************************************************************)
(* Proofs about BillingSession, for any number of requests and any quotas. *)
(*                                                                         *)
(* A request's charge can only be followed through Reserve, Settle and     *)
(* Refund together with the amounts its session believes in, so the        *)
(* inductive invariant IInv relates, at every control point, what the two  *)
(* ledgers have given up to preConsumedQuota, tokenConsumed, extraReserved *)
(* and the funding source's consumed.                                      *)
(***************************************************************************)
EXTENDS BillingSession, TLAPS

-----------------------------------------------------------------------------
(* The inductive invariant.                                                *)

Opening == {"idle", "new", "tryWallet", "reserveToken"}
TokenStage == {"reserveFunding", "rollbackToken", "rollbackReject"}
Closing == {"settled", "failing", "fee", "closed"}

\* What the refund goroutine gives back to the funding source in all.
Due(r) == fundingConsumed[r] +
          (IF source[r] = "subscription" THEN extraReserved[r] ELSE 0)

\* The requests whose funding source remembers all of the reservation.
Exact(r) == info[r].kind # "image" \/ source[r] = "subscription"

\* Where control is, which flags are set and which source is chosen.
ControlInv(r) ==
    /\ pc[r] \in {"idle", "new"} => source[r] = "none"
    /\ pc[r] = "tryWallet" => source[r] = "wallet"
    /\ pc[r] \in {"reserveToken", "reserving"} \cup TokenStage
         => source[r] # "none"
    /\ settled[r] => pc[r] \in Closing /\ ~refunded[r] /\ source[r] # "none"
    /\ fundingSettled[r] => settled[r]
    /\ refunded[r] <=> refundStep[r] # "none"
    /\ refunded[r] => pc[r] \in {"fee", "closed"} /\ source[r] # "none"
    /\ refundStep[r] = "extra" => source[r] = "subscription"
    /\ fee[r] # 0 => pc[r] = "closed"
    /\ reserveDelta[r] # 0 <=> pc[r] = "reserving"

\* The amounts the session keeps agree with one another.
AmountInv(r) ==
    /\ (pc[r] \in Opening \cup TokenStage \/ source[r] = "none") =>
         /\ preConsumedQuota[r] = 0 /\ extraReserved[r] = 0
         /\ fundingConsumed[r] = 0
    /\ (pc[r] \in Opening \/ source[r] = "none") => tokenConsumed[r] = 0
    /\ pc[r] = "reserveFunding" => tokenConsumed[r] = EffectiveQuota(r)
    /\ pc[r] \in Holding \cup Closing \cup {"reserving"} =>
         tokenConsumed[r] = preConsumedQuota[r]
    /\ source[r] = "subscription" /\ pc[r] \notin TokenStage =>
         Due(r) = preConsumedQuota[r]
    /\ (/\ source[r] # "subscription" /\ Exact(r)
        /\ pc[r] \in Holding \cup {"reserving"} \/ ~lost[r]) =>
         fundingConsumed[r] = preConsumedQuota[r] + reserveDelta[r]
    /\ pc[r] = "reserving" /\ ~Exact(r) => fundingConsumed[r] = reserveDelta[r]
    /\ pc[r] \in Holding => Due(r) <= preConsumedQuota[r]

\* What the funding source has given up for r.
FundingInv(r) ==
    /\ pc[r] \in Opening \cup TokenStage => charged[r] = 0
    /\ pc[r] \in Holding \cup {"reserving"} =>
         charged[r] = preConsumedQuota[r] + reserveDelta[r]
    /\ pc[r] \in Closing /\ source[r] = "none" =>
         charged[r] = fee[r] \/ charged[r] = actual[r] + fee[r]
    /\ settled[r] => charged[r] = actual[r] + fee[r]
    /\ (/\ pc[r] \in Closing /\ source[r] # "none" /\ ~settled[r]
        /\ refundStep[r] \in {"none", "funding"}) =>
         /\ charged[r] >= Due(r) + fee[r]
         /\ ~lost[r] => charged[r] = preConsumedQuota[r] + fee[r]
    /\ refundStep[r] = "extra" =>
         /\ charged[r] >= extraReserved[r] + fee[r]
         /\ ~lost[r] => charged[r] = extraReserved[r] + fee[r]
    /\ refundStep[r] \in {"token", "done"} =>
         /\ charged[r] >= fee[r]
         /\ ~lost[r] /\ Exact(r) => charged[r] = fee[r]

\* What the token has given up for r.
TokenInv(r) ==
    /\ (pc[r] \in Opening \/ source[r] = "none") /\ ~lost[r] =>
         tokenCharged[r] = TokenShare(r, charged[r])
    /\ pc[r] \in TokenStage \cup Holding \cup {"reserving"} =>
         /\ tokenCharged[r] >= TokenShare(r, tokenConsumed[r])
         /\ ~lost[r] /\ source[r] # "none"
              => tokenCharged[r] = TokenShare(r, tokenConsumed[r])
    /\ settled[r] /\ ~lost[r] =>
         tokenCharged[r] = TokenShare(r, actual[r] + fee[r])
    /\ (/\ pc[r] \in Closing /\ source[r] # "none" /\ ~settled[r]
        /\ refundStep[r] # "done") =>
         /\ tokenCharged[r] >= TokenShare(r, tokenConsumed[r])
         /\ ~lost[r] =>
              tokenCharged[r] = TokenShare(r, tokenConsumed[r] + fee[r])
    /\ refundStep[r] = "done" /\ ~lost[r] =>
         tokenCharged[r] = TokenShare(r, fee[r])

RequestInv(r) == ControlInv(r) /\ AmountInv(r) /\ FundingInv(r) /\ TokenInv(r)

IInv == TypeOK /\ \A r \in Requests : RequestInv(r)

\* The amounts a request carries are natural numbers.
AmountsNat(r) ==
    /\ actual[r] \in Nat /\ fee[r] \in Nat /\ estimate[r] \in Nat
    /\ preConsumedQuota[r] \in Nat /\ tokenConsumed[r] \in Nat
    /\ extraReserved[r] \in Nat /\ fundingConsumed[r] \in Nat
    /\ reserveDelta[r] \in Nat
    /\ charged[r] \in Nat /\ tokenCharged[r] \in Nat

\* The parts of TypeOK, by what keeps them.
CounterTypes ==
    faults \in 0..MaxFaults /\ retry \in [Requests -> 0..RetryTimes]
LedgerTypes ==
    charged \in [Requests -> Nat] /\ tokenCharged \in [Requests -> Nat]
AmountTypes ==
    /\ preConsumedQuota \in [Requests -> Nat]
    /\ tokenConsumed \in [Requests -> Nat]
    /\ extraReserved \in [Requests -> Nat]
    /\ fundingConsumed \in [Requests -> Nat]
    /\ reserveDelta \in [Requests -> Nat]
FlagTypes ==
    /\ fundingSettled \in [Requests -> BOOLEAN]
    /\ settled \in [Requests -> BOOLEAN]
    /\ refunded \in [Requests -> BOOLEAN]
    /\ lost \in [Requests -> BOOLEAN]
    /\ trusted \in [Requests -> BOOLEAN]
    /\ subscriptionActive \in BOOLEAN
ControlTypes ==
    /\ pc \in [Requests -> ControlPoints]
    /\ info \in [Requests -> Profiles]
    /\ estimate \in [Requests -> Quotas \cup {0}]
    /\ source \in [Requests -> {"none", "wallet", "subscription"}]
    /\ refundStep \in [Requests -> RefundSteps]
    /\ actual \in [Requests -> Quotas \cup {0}]
    /\ fee \in [Requests -> ViolationFees \cup {0}]

-----------------------------------------------------------------------------
(* Typing facts, used by every action.                                     *)

\* Every amount a request carries is a natural number, by TypeOK.
LEMMA RequestTypes ==
    ASSUME TypeOK, NEW r \in Requests
    PROVE  AmountsNat(r)
<1>1. Quotas \cup {0} \subseteq Nat /\ ViolationFees \cup {0} \subseteq Nat
  BY BillingAssumption DEF BillingAssumption
<1>2. /\ actual[r] \in Quotas \cup {0} /\ estimate[r] \in Quotas \cup {0}
      /\ fee[r] \in ViolationFees \cup {0}
  BY DEF TypeOK
<1>3. /\ preConsumedQuota[r] \in Nat /\ tokenConsumed[r] \in Nat
      /\ extraReserved[r] \in Nat /\ fundingConsumed[r] \in Nat
      /\ reserveDelta[r] \in Nat
      /\ charged[r] \in Nat /\ tokenCharged[r] \in Nat
  BY DEF TypeOK
<1> QED
  BY <1>1, <1>2, <1>3 DEF AmountsNat

\* The bounds are natural numbers, and every quota and fee is one.
LEMMA Bounds ==
    /\ MaxFaults \in Nat /\ RetryTimes \in Nat
    /\ \A q \in Quotas : q \in Nat
    /\ \A q \in ViolationFees : q \in Nat
BY BillingAssumption DEF BillingAssumption

-----------------------------------------------------------------------------
(* Every action preserves the invariant.                                   *)

USE DEF Goto, sessionVars, worldVars, amountVars, flagVars, ledgerVars,
        historyVars, Opening, TokenStage, Holding, Closing

\* A request that starts holds nothing yet.
LEMMA StartRequestInv ==
    ASSUME IInv, NEW r \in Requests, StartRequest(r)
    PROVE  IInv'
<1>1. TypeOK /\ RequestInv(r)
  BY DEF IInv
<1>2. TypeOK'
  BY <1>1, Bounds DEF TypeOK, ControlPoints, StartRequest
<1>3. ASSUME NEW s \in Requests PROVE RequestInv(s)'
  <2>1. CASE s = r
    BY <1>1, <2>1, RequestTypes, Bounds DEF TypeOK, StartRequest, AmountsNat,
        RequestInv, ControlInv, AmountInv, FundingInv, TokenInv, Due, Exact,
        EffectiveQuota, TokenShare
  <2>2. CASE s # r
    BY <2>2 DEF IInv, TypeOK, StartRequest, RequestInv, ControlInv, AmountInv,
        FundingInv, TokenInv, Due, Exact, EffectiveQuota, TokenShare
  <2> QED
    BY <2>1, <2>2
<1> QED
  BY <1>2, <1>3 DEF IInv

\* A session is opened from an attempt that has none.
LEMMA OpenSessionInv ==
    ASSUME IInv, NEW r \in Requests, OpenSession(r)
    PROVE  IInv'
<1>1. TypeOK /\ RequestInv(r)
  BY DEF IInv
<1>2. TypeOK'
  BY <1>1, Bounds DEF TypeOK, ControlPoints, OpenSession
<1>3. ASSUME NEW s \in Requests PROVE RequestInv(s)'
  BY <1>1, RequestTypes, Bounds DEF IInv, TypeOK, OpenSession, AmountsNat,
      RequestInv, ControlInv, AmountInv, FundingInv, TokenInv, Due, Exact,
      EffectiveQuota, TokenShare
<1> QED
  BY <1>2, <1>3 DEF IInv

\* Choosing a source moves no quota.
LEMMA ChooseSourceInv ==
    ASSUME IInv, NEW r \in Requests, ChooseSource(r)
    PROVE  IInv'
<1>1. TypeOK /\ RequestInv(r) /\ AmountsNat(r)
  BY RequestTypes DEF IInv
<1>2. TypeOK'
  <2>1. CounterTypes'
    BY <1>1, Bounds DEF TypeOK, CounterTypes, ChooseSource, Reject, Succeeds,
        Fails
  <2>2. LedgerTypes'
    BY <1>1, Bounds DEF TypeOK, LedgerTypes, AmountsNat, ChooseSource, Reject,
        Succeeds, Fails, RequestInv, ControlInv, AmountInv, FundingInv,
        TokenInv, TokenShare, Due, EffectiveQuota
  <2>3. AmountTypes'
    BY <1>1, Bounds DEF TypeOK, AmountTypes, AmountsNat, ChooseSource, Reject,
        Succeeds, Fails, RequestInv, ControlInv, AmountInv, Exact,
        EffectiveQuota
  <2>4. FlagTypes'
    BY <1>1 DEF TypeOK, FlagTypes, ChooseSource, Reject, Succeeds, Fails
  <2>5. ControlTypes'
    BY <1>1 DEF TypeOK, ControlTypes, ChooseSource, Reject, Succeeds, Fails,
        ControlPoints, RefundSteps
  <2> QED
    BY <2>1, <2>2, <2>3, <2>4, <2>5 DEF TypeOK, CounterTypes, LedgerTypes,
        AmountTypes, FlagTypes, ControlTypes
<1>3. ASSUME NEW s \in Requests PROVE RequestInv(s)'
  <2>1. CASE s = r
    <3>1. ControlInv(r)'
      BY <1>1, Bounds DEF TypeOK, ChooseSource, Reject, Succeeds, Fails,
          RequestInv, ControlInv, RefundSteps
    <3>2. AmountInv(r)'
      BY <1>1, Bounds DEF TypeOK, AmountsNat, ChooseSource, Reject, Succeeds,
          Fails, RequestInv, ControlInv, AmountInv, Due, Exact, EffectiveQuota
    <3>3. FundingInv(r)'
      BY <1>1, Bounds DEF TypeOK, AmountsNat, ChooseSource, Reject, Succeeds,
          Fails, RequestInv, ControlInv, AmountInv, FundingInv, Due, Exact,
          EffectiveQuota
    <3>4. TokenInv(r)'
      BY <1>1, Bounds DEF TypeOK, AmountsNat, ChooseSource, Reject, Succeeds,
          Fails, RequestInv, ControlInv, AmountInv, FundingInv, TokenInv,
          TokenShare, EffectiveQuota
    <3> QED
      BY <2>1, <3>1, <3>2, <3>3, <3>4 DEF RequestInv
  <2>2. CASE s # r
    BY <2>2 DEF IInv, TypeOK, ChooseSource, Reject, Succeeds, Fails,
        RequestInv, ControlInv, AmountInv, FundingInv, TokenInv, Due, Exact,
        EffectiveQuota, TokenShare
  <2> QED
    BY <2>1, <2>2
<1> QED
  BY <1>2, <1>3 DEF IInv

\* Reading the wallet moves no quota, and a fallback changes the source
\* while nothing is held.
LEMMA TryWalletInv ==
    ASSUME IInv, NEW r \in Requests, TryWallet(r)
    PROVE  IInv'
<1>1. TypeOK /\ RequestInv(r) /\ AmountsNat(r)
  BY RequestTypes DEF IInv
<1>2. TypeOK'
  <2>1. CounterTypes'
    BY <1>1, Bounds DEF TypeOK, CounterTypes, TryWallet, Fallback, Reject,
        Succeeds, Fails, ShouldTrust
  <2>2. LedgerTypes'
    BY <1>1, Bounds DEF TypeOK, LedgerTypes, AmountsNat, TryWallet, Fallback,
        Reject, Succeeds, Fails, ShouldTrust, RequestInv, ControlInv,
        AmountInv, FundingInv, TokenInv, TokenShare, Due, EffectiveQuota
  <2>3. AmountTypes'
    BY <1>1, Bounds DEF TypeOK, AmountTypes, AmountsNat, TryWallet, Fallback,
        Reject, Succeeds, Fails, ShouldTrust, RequestInv, ControlInv,
        AmountInv, Exact, EffectiveQuota
  <2>4. FlagTypes'
    BY <1>1 DEF TypeOK, FlagTypes, TryWallet, Fallback, Reject, Succeeds,
        Fails, ShouldTrust
  <2>5. ControlTypes'
    BY <1>1 DEF TypeOK, ControlTypes, TryWallet, Fallback, Reject, Succeeds,
        Fails, ShouldTrust, ControlPoints, RefundSteps
  <2> QED
    BY <2>1, <2>2, <2>3, <2>4, <2>5 DEF TypeOK, CounterTypes, LedgerTypes,
        AmountTypes, FlagTypes, ControlTypes
<1>3. ASSUME NEW s \in Requests PROVE RequestInv(s)'
  <2>1. CASE s = r
    <3>1. ControlInv(r)'
      BY <1>1, Bounds DEF TypeOK, TryWallet, Fallback, Reject, Succeeds,
          Fails, ShouldTrust, RequestInv, ControlInv, RefundSteps
    <3>2. AmountInv(r)'
      BY <1>1, Bounds DEF TypeOK, AmountsNat, TryWallet, Fallback, Reject,
          Succeeds, Fails, ShouldTrust, RequestInv, ControlInv, AmountInv,
          Due, Exact, EffectiveQuota
    <3>3. FundingInv(r)'
      BY <1>1, Bounds DEF TypeOK, AmountsNat, TryWallet, Fallback, Reject,
          Succeeds, Fails, ShouldTrust, RequestInv, ControlInv, AmountInv,
          FundingInv, Due, Exact, EffectiveQuota
    <3>4. TokenInv(r)'
      BY <1>1, Bounds DEF TypeOK, AmountsNat, TryWallet, Fallback, Reject,
          Succeeds, Fails, ShouldTrust, RequestInv, ControlInv, AmountInv,
          FundingInv, TokenInv, TokenShare, EffectiveQuota
    <3> QED
      BY <2>1, <3>1, <3>2, <3>3, <3>4 DEF RequestInv
  <2>2. CASE s # r
    BY <2>2 DEF IInv, TypeOK, TryWallet, Fallback, Reject, Succeeds, Fails,
        ShouldTrust, RequestInv, ControlInv, AmountInv, FundingInv, TokenInv,
        Due, Exact, EffectiveQuota, TokenShare
  <2> QED
    BY <2>1, <2>2
<1> QED
  BY <1>2, <1>3 DEF IInv

\* The token half of preConsume.
LEMMA PreConsumeTokenInv ==
    ASSUME IInv, NEW r \in Requests, PreConsumeToken(r)
    PROVE  IInv'
<1>1. TypeOK /\ RequestInv(r) /\ AmountsNat(r)
  BY RequestTypes DEF IInv
<1>2. TypeOK'
  <2>1. CounterTypes'
    BY <1>1, Bounds DEF TypeOK, CounterTypes, PreConsumeToken, Reject,
        Succeeds, Fails
  <2>2. LedgerTypes'
    BY <1>1, Bounds DEF TypeOK, LedgerTypes, AmountsNat, PreConsumeToken,
        Reject, Succeeds, Fails, RequestInv, ControlInv, AmountInv,
        FundingInv, TokenInv, TokenShare, Due, EffectiveQuota
  <2>3. AmountTypes'
    BY <1>1, Bounds DEF TypeOK, AmountTypes, AmountsNat, PreConsumeToken,
        Reject, Succeeds, Fails, RequestInv, ControlInv, AmountInv, Exact,
        EffectiveQuota
  <2>4. FlagTypes'
    BY <1>1 DEF TypeOK, FlagTypes, PreConsumeToken, Reject, Succeeds, Fails
  <2>5. ControlTypes'
    BY <1>1 DEF TypeOK, ControlTypes, PreConsumeToken, Reject, Succeeds,
        Fails, ControlPoints, RefundSteps
  <2> QED
    BY <2>1, <2>2, <2>3, <2>4, <2>5 DEF TypeOK, CounterTypes, LedgerTypes,
        AmountTypes, FlagTypes, ControlTypes
<1>3. ASSUME NEW s \in Requests PROVE RequestInv(s)'
  <2>1. CASE s = r
    <3>1. ControlInv(r)'
      BY <1>1, Bounds DEF TypeOK, PreConsumeToken, Reject, Succeeds, Fails,
          RequestInv, ControlInv, RefundSteps
    <3>2. AmountInv(r)'
      BY <1>1, Bounds DEF TypeOK, AmountsNat, PreConsumeToken, Reject,
          Succeeds, Fails, RequestInv, ControlInv, AmountInv, Due, Exact,
          EffectiveQuota
    <3>3. FundingInv(r)'
      BY <1>1, Bounds DEF TypeOK, AmountsNat, PreConsumeToken, Reject,
          Succeeds, Fails, RequestInv, ControlInv, AmountInv, FundingInv, Due,
          Exact, EffectiveQuota
    <3>4. TokenInv(r)'
      BY <1>1, Bounds DEF TypeOK, AmountsNat, PreConsumeToken, Reject,
          Succeeds, Fails, RequestInv, ControlInv, AmountInv, FundingInv,
          TokenInv, TokenShare, EffectiveQuota
    <3> QED
      BY <2>1, <3>1, <3>2, <3>3, <3>4 DEF RequestInv
  <2>2. CASE s # r
    BY <2>2 DEF IInv, TypeOK, PreConsumeToken, Reject, Succeeds, Fails,
        RequestInv, ControlInv, AmountInv, FundingInv, TokenInv, Due, Exact,
        EffectiveQuota, TokenShare
  <2> QED
    BY <2>1, <2>2
<1> QED
  BY <1>2, <1>3 DEF IInv

\* The funding half of preConsume.
LEMMA PreConsumeFundingInv ==
    ASSUME IInv, NEW r \in Requests, PreConsumeFunding(r)
    PROVE  IInv'
<1>1. TypeOK /\ RequestInv(r) /\ AmountsNat(r)
  BY RequestTypes DEF IInv
<1>2. TypeOK'
  <2>1. CounterTypes'
    BY <1>1, Bounds DEF TypeOK, CounterTypes, PreConsumeFunding,
        FundingReserved, Succeeds, Fails
  <2>2. LedgerTypes'
    BY <1>1, Bounds DEF TypeOK, LedgerTypes, AmountsNat, PreConsumeFunding,
        FundingReserved, Succeeds, Fails, RequestInv, ControlInv, AmountInv,
        FundingInv, TokenInv, TokenShare, Due, EffectiveQuota
  <2>3. AmountTypes'
    BY <1>1, Bounds DEF TypeOK, AmountTypes, AmountsNat, PreConsumeFunding,
        FundingReserved, Succeeds, Fails, RequestInv, ControlInv, AmountInv,
        Exact, EffectiveQuota
  <2>4. FlagTypes'
    BY <1>1 DEF TypeOK, FlagTypes, PreConsumeFunding, FundingReserved,
        Succeeds, Fails
  <2>5. ControlTypes'
    BY <1>1 DEF TypeOK, ControlTypes, PreConsumeFunding, FundingReserved,
        Succeeds, Fails, ControlPoints, RefundSteps
  <2> QED
    BY <2>1, <2>2, <2>3, <2>4, <2>5 DEF TypeOK, CounterTypes, LedgerTypes,
        AmountTypes, FlagTypes, ControlTypes
<1>3. ASSUME NEW s \in Requests PROVE RequestInv(s)'
  <2>1. CASE s = r
    <3>1. ControlInv(r)'
      BY <1>1, Bounds DEF TypeOK, PreConsumeFunding, FundingReserved,
          Succeeds, Fails, RequestInv, ControlInv, RefundSteps
    <3>2. AmountInv(r)'
      BY <1>1, Bounds DEF TypeOK, AmountsNat, PreConsumeFunding,
          FundingReserved, Succeeds, Fails, RequestInv, ControlInv, AmountInv,
          Due, Exact, EffectiveQuota
    <3>3. FundingInv(r)'
      BY <1>1, Bounds DEF TypeOK, AmountsNat, PreConsumeFunding,
          FundingReserved, Succeeds, Fails, RequestInv, ControlInv, AmountInv,
          FundingInv, Due, Exact, EffectiveQuota
    <3>4. TokenInv(r)'
      BY <1>1, Bounds DEF TypeOK, AmountsNat, PreConsumeFunding,
          FundingReserved, Succeeds, Fails, RequestInv, ControlInv, AmountInv,
          FundingInv, TokenInv, TokenShare, EffectiveQuota
    <3> QED
      BY <2>1, <3>1, <3>2, <3>3, <3>4 DEF RequestInv
  <2>2. CASE s # r
    BY <2>2 DEF IInv, TypeOK, PreConsumeFunding, FundingReserved, Succeeds,
        Fails, RequestInv, ControlInv, AmountInv, FundingInv, TokenInv, Due,
        Exact, EffectiveQuota, TokenShare
  <2> QED
    BY <2>1, <2>2
<1> QED
  BY <1>2, <1>3 DEF IInv

\* preConsume gives the token back before another source is tried.
LEMMA RollbackTokenInv ==
    ASSUME IInv, NEW r \in Requests, RollbackToken(r)
    PROVE  IInv'
<1>1. TypeOK /\ RequestInv(r) /\ AmountsNat(r)
  BY RequestTypes DEF IInv
<1>2. TypeOK'
  <2>1. CounterTypes'
    BY <1>1, Bounds DEF TypeOK, CounterTypes, RollbackToken, Fallback, Reject,
        Succeeds, Fails
  <2>2. LedgerTypes'
    BY <1>1, Bounds DEF TypeOK, LedgerTypes, AmountsNat, RollbackToken,
        Fallback, Reject, Succeeds, Fails, RequestInv, ControlInv, AmountInv,
        FundingInv, TokenInv, TokenShare, Due, EffectiveQuota
  <2>3. AmountTypes'
    BY <1>1, Bounds DEF TypeOK, AmountTypes, AmountsNat, RollbackToken,
        Fallback, Reject, Succeeds, Fails, RequestInv, ControlInv, AmountInv,
        Exact, EffectiveQuota
  <2>4. FlagTypes'
    BY <1>1 DEF TypeOK, FlagTypes, RollbackToken, Fallback, Reject, Succeeds,
        Fails
  <2>5. ControlTypes'
    BY <1>1 DEF TypeOK, ControlTypes, RollbackToken, Fallback, Reject,
        Succeeds, Fails, ControlPoints, RefundSteps
  <2> QED
    BY <2>1, <2>2, <2>3, <2>4, <2>5 DEF TypeOK, CounterTypes, LedgerTypes,
        AmountTypes, FlagTypes, ControlTypes
<1>3. ASSUME NEW s \in Requests PROVE RequestInv(s)'
  <2>1. CASE s = r
    <3>1. ControlInv(r)'
      BY <1>1, Bounds DEF TypeOK, RollbackToken, Fallback, Reject, Succeeds,
          Fails, RequestInv, ControlInv, RefundSteps
    <3>2. AmountInv(r)'
      BY <1>1, Bounds DEF TypeOK, AmountsNat, RollbackToken, Fallback, Reject,
          Succeeds, Fails, RequestInv, ControlInv, AmountInv, Due, Exact,
          EffectiveQuota
    <3>3. FundingInv(r)'
      BY <1>1, Bounds DEF TypeOK, AmountsNat, RollbackToken, Fallback, Reject,
          Succeeds, Fails, RequestInv, ControlInv, AmountInv, FundingInv, Due,
          Exact, EffectiveQuota
    <3>4. TokenInv(r)'
      BY <1>1, Bounds DEF TypeOK, AmountsNat, RollbackToken, Fallback, Reject,
          Succeeds, Fails, RequestInv, ControlInv, AmountInv, FundingInv,
          TokenInv, TokenShare, EffectiveQuota
    <3> QED
      BY <2>1, <3>1, <3>2, <3>3, <3>4 DEF RequestInv
  <2>2. CASE s # r
    BY <2>2 DEF IInv, TypeOK, RollbackToken, Fallback, Reject, Succeeds,
        Fails, RequestInv, ControlInv, AmountInv, FundingInv, TokenInv, Due,
        Exact, EffectiveQuota, TokenShare
  <2> QED
    BY <2>1, <2>2
<1> QED
  BY <1>2, <1>3 DEF IInv

\* The funding half of Reserve.
LEMMA ReserveFundingInv ==
    ASSUME IInv, NEW r \in Requests, ReserveFunding(r)
    PROVE  IInv'
<1>1. TypeOK /\ RequestInv(r) /\ AmountsNat(r)
  BY RequestTypes DEF IInv
<1>2. PICK delta \in Nat \ {0} :
        \/ /\ charged' = [charged EXCEPT ![r] = @ + delta]
           /\ fundingConsumed' =
                [fundingConsumed EXCEPT ![r] =
                    IF source[r] = "subscription" THEN @
                    ELSE IF info[r].kind = "image" THEN delta
                    ELSE @ + delta]
           /\ reserveDelta' = [reserveDelta EXCEPT ![r] = delta]
           /\ Goto(r, "reserving") /\ Succeeds
        \/ /\ UNCHANGED <<charged, fundingConsumed, reserveDelta>>
           /\ Goto(r, "failing") /\ (Succeeds \/ Fails)
  <2>1. PICK target \in ReserveTargets(r) : ReserveFunding(r)!3!(target)
    BY DEF ReserveFunding
  <2>2. target \in Nat
    BY <1>1, Bounds DEF AmountsNat, ReserveTargets
  <2>3. target - preConsumedQuota[r] \in Nat \ {0}
    BY <1>1, <2>1, <2>2 DEF AmountsNat, ReserveSkipped
  <2> QED
    BY <2>1, <2>3
<1>3. /\ source[r] # "none" /\ pc[r] \in {"attempt", "submitted"}
      /\ UNCHANGED <<info, estimate, retry, source, preConsumedQuota,
                     tokenConsumed, extraReserved, trusted, flagVars,
                     refundStep, tokenCharged, subscriptionActive,
                     historyVars>>
  BY DEF ReserveFunding, ReservePoint
<1>4. TypeOK'
  <2>1. CounterTypes'
    BY <1>1, <1>2, <1>3, Bounds DEF TypeOK, CounterTypes, Succeeds, Fails
  <2>2. LedgerTypes' /\ AmountTypes'
    BY <1>1, <1>2, <1>3 DEF TypeOK, AmountsNat, LedgerTypes, AmountTypes
  <2>3. FlagTypes'
    BY <1>1, <1>3 DEF TypeOK, FlagTypes
  <2>4. ControlTypes'
    BY <1>1, <1>2, <1>3 DEF TypeOK, ControlTypes, ControlPoints
  <2> QED
    BY <2>1, <2>2, <2>3, <2>4 DEF TypeOK, CounterTypes, LedgerTypes,
        AmountTypes, FlagTypes, ControlTypes
<1>5. ASSUME NEW s \in Requests PROVE RequestInv(s)'
  <2>1. CASE s = r
    <3>1. ControlInv(r)'
      BY <1>1, <1>2, <1>3 DEF TypeOK, AmountsNat, RequestInv, ControlInv
    <3>2. AmountInv(r)'
      BY <1>1, <1>2, <1>3 DEF TypeOK, AmountsNat, RequestInv, ControlInv,
          AmountInv, Due, Exact, EffectiveQuota
    <3>3. FundingInv(r)'
      BY <1>1, <1>2, <1>3 DEF TypeOK, AmountsNat, RequestInv, ControlInv,
          AmountInv, FundingInv, Due, Exact
    <3>4. TokenInv(r)'
      BY <1>1, <1>2, <1>3 DEF TypeOK, AmountsNat, RequestInv, ControlInv,
          AmountInv, FundingInv, TokenInv, TokenShare
    <3> QED
      BY <2>1, <3>1, <3>2, <3>3, <3>4 DEF RequestInv
  <2>2. CASE s # r
    BY <1>1, <1>2, <1>3, <2>2 DEF IInv, TypeOK, RequestInv, ControlInv,
        AmountInv, FundingInv, TokenInv, Due, Exact, EffectiveQuota,
        TokenShare
  <2> QED
    BY <2>1, <2>2
<1> QED
  BY <1>4, <1>5 DEF IInv

\* The token half of Reserve completes it.
LEMMA ReserveTokenInv ==
    ASSUME IInv, NEW r \in Requests, ReserveToken(r)
    PROVE  IInv'
<1>1. TypeOK /\ RequestInv(r) /\ AmountsNat(r)
  BY RequestTypes DEF IInv
<1>2. TypeOK'
  <2>1. CounterTypes'
    BY <1>1, Bounds DEF TypeOK, CounterTypes, ReserveToken, AfterReserve
  <2>2. LedgerTypes'
    BY <1>1, Bounds DEF TypeOK, LedgerTypes, AmountsNat, ReserveToken,
        AfterReserve, RequestInv, ControlInv, AmountInv, FundingInv, TokenInv,
        TokenShare, Due, EffectiveQuota
  <2>3. AmountTypes'
    BY <1>1, Bounds DEF TypeOK, AmountTypes, AmountsNat, ReserveToken,
        AfterReserve, RequestInv, ControlInv, AmountInv, Exact, EffectiveQuota
  <2>4. FlagTypes'
    BY <1>1 DEF TypeOK, FlagTypes, ReserveToken, AfterReserve
  <2>5. ControlTypes'
    BY <1>1 DEF TypeOK, ControlTypes, ReserveToken, AfterReserve,
        ControlPoints, RefundSteps
  <2> QED
    BY <2>1, <2>2, <2>3, <2>4, <2>5 DEF TypeOK, CounterTypes, LedgerTypes,
        AmountTypes, FlagTypes, ControlTypes
<1>3. ASSUME NEW s \in Requests PROVE RequestInv(s)'
  <2>1. CASE s = r
    <3>1. ControlInv(r)'
      BY <1>1, Bounds DEF TypeOK, ReserveToken, AfterReserve, RequestInv,
          ControlInv, RefundSteps
    <3>2. AmountInv(r)'
      BY <1>1, Bounds DEF TypeOK, AmountsNat, ReserveToken, AfterReserve,
          RequestInv, ControlInv, AmountInv, Due, Exact, EffectiveQuota
    <3>3. FundingInv(r)'
      BY <1>1, Bounds DEF TypeOK, AmountsNat, ReserveToken, AfterReserve,
          RequestInv, ControlInv, AmountInv, FundingInv, Due, Exact,
          EffectiveQuota
    <3>4. TokenInv(r)'
      BY <1>1, Bounds DEF TypeOK, AmountsNat, ReserveToken, AfterReserve,
          RequestInv, ControlInv, AmountInv, FundingInv, TokenInv, TokenShare,
          EffectiveQuota
    <3> QED
      BY <2>1, <3>1, <3>2, <3>3, <3>4 DEF RequestInv
  <2>2. CASE s # r
    BY <2>2 DEF IInv, TypeOK, ReserveToken, AfterReserve, RequestInv,
        ControlInv, AmountInv, FundingInv, TokenInv, Due, Exact,
        EffectiveQuota, TokenShare
  <2> QED
    BY <2>1, <2>2
<1> QED
  BY <1>2, <1>3 DEF IInv

\* The token half of Reserve fails and the funding half is undone, or its
\* loss is recorded.
LEMMA RollbackFundingReserveInv ==
    ASSUME IInv, NEW r \in Requests, RollbackFundingReserve(r)
    PROVE  IInv'
<1>1. TypeOK /\ RequestInv(r) /\ AmountsNat(r)
  BY RequestTypes DEF IInv
<1>2. TypeOK'
  <2>1. CounterTypes'
    BY <1>1, Bounds DEF TypeOK, CounterTypes, RollbackFundingReserve
  <2>2. LedgerTypes'
    BY <1>1, Bounds DEF TypeOK, LedgerTypes, AmountsNat,
        RollbackFundingReserve, RequestInv, ControlInv, AmountInv, FundingInv,
        TokenInv, TokenShare, Due, EffectiveQuota
  <2>3. AmountTypes'
    BY <1>1, Bounds DEF TypeOK, AmountTypes, AmountsNat,
        RollbackFundingReserve, RequestInv, ControlInv, AmountInv, Exact,
        EffectiveQuota
  <2>4. FlagTypes'
    BY <1>1 DEF TypeOK, FlagTypes, RollbackFundingReserve
  <2>5. ControlTypes'
    BY <1>1 DEF TypeOK, ControlTypes, RollbackFundingReserve, ControlPoints,
        RefundSteps
  <2> QED
    BY <2>1, <2>2, <2>3, <2>4, <2>5 DEF TypeOK, CounterTypes, LedgerTypes,
        AmountTypes, FlagTypes, ControlTypes
<1>3. ASSUME NEW s \in Requests PROVE RequestInv(s)'
  <2>1. CASE s = r
    <3>1. ControlInv(r)'
      BY <1>1, Bounds DEF TypeOK, RollbackFundingReserve, RequestInv,
          ControlInv, RefundSteps
    <3>2. AmountInv(r)'
      BY <1>1, Bounds DEF TypeOK, AmountsNat, RollbackFundingReserve,
          RequestInv, ControlInv, AmountInv, Due, Exact, EffectiveQuota
    <3>3. FundingInv(r)'
      BY <1>1, Bounds DEF TypeOK, AmountsNat, RollbackFundingReserve,
          RequestInv, ControlInv, AmountInv, FundingInv, Due, Exact,
          EffectiveQuota
    <3>4. TokenInv(r)'
      BY <1>1, Bounds DEF TypeOK, AmountsNat, RollbackFundingReserve,
          RequestInv, ControlInv, AmountInv, FundingInv, TokenInv, TokenShare,
          EffectiveQuota
    <3> QED
      BY <2>1, <3>1, <3>2, <3>3, <3>4 DEF RequestInv
  <2>2. CASE s # r
    BY <2>2 DEF IInv, TypeOK, RollbackFundingReserve, RequestInv, ControlInv,
        AmountInv, FundingInv, TokenInv, Due, Exact, EffectiveQuota,
        TokenShare
  <2> QED
    BY <2>1, <2>2
<1> QED
  BY <1>2, <1>3 DEF IInv

\* Sending an attempt moves no quota.
LEMMA SendUpstreamInv ==
    ASSUME IInv, NEW r \in Requests, SendUpstream(r)
    PROVE  IInv'
<1>1. TypeOK /\ RequestInv(r)
  BY DEF IInv
<1>2. TypeOK'
  BY <1>1, Bounds DEF TypeOK, ControlPoints, SendUpstream
<1>3. ASSUME NEW s \in Requests PROVE RequestInv(s)'
  BY <1>1, RequestTypes, Bounds DEF IInv, TypeOK, SendUpstream, AmountsNat,
      RequestInv, ControlInv, AmountInv, FundingInv, TokenInv, Due, Exact,
      EffectiveQuota, TokenShare
<1> QED
  BY <1>2, <1>3 DEF IInv

\* A failed attempt keeps its reservation, to be retried or refunded.
LEMMA UpstreamFailsInv ==
    ASSUME IInv, NEW r \in Requests, UpstreamFails(r)
    PROVE  IInv'
<1>1. TypeOK /\ RequestInv(r) /\ AmountsNat(r)
  BY RequestTypes DEF IInv
<1>2. TypeOK'
  <2>1. CounterTypes'
    BY <1>1, Bounds DEF TypeOK, CounterTypes, UpstreamFails
  <2>2. LedgerTypes'
    BY <1>1, Bounds DEF TypeOK, LedgerTypes, AmountsNat, UpstreamFails,
        RequestInv, ControlInv, AmountInv, FundingInv, TokenInv, TokenShare,
        Due, EffectiveQuota
  <2>3. AmountTypes'
    BY <1>1, Bounds DEF TypeOK, AmountTypes, AmountsNat, UpstreamFails,
        RequestInv, ControlInv, AmountInv, Exact, EffectiveQuota
  <2>4. FlagTypes'
    BY <1>1 DEF TypeOK, FlagTypes, UpstreamFails
  <2>5. ControlTypes'
    BY <1>1 DEF TypeOK, ControlTypes, UpstreamFails, ControlPoints,
        RefundSteps
  <2> QED
    BY <2>1, <2>2, <2>3, <2>4, <2>5 DEF TypeOK, CounterTypes, LedgerTypes,
        AmountTypes, FlagTypes, ControlTypes
<1>3. ASSUME NEW s \in Requests PROVE RequestInv(s)'
  <2>1. CASE s = r
    <3>1. ControlInv(r)'
      BY <1>1, Bounds DEF TypeOK, UpstreamFails, RequestInv, ControlInv,
          RefundSteps
    <3>2. AmountInv(r)'
      BY <1>1, Bounds DEF TypeOK, AmountsNat, UpstreamFails, RequestInv,
          ControlInv, AmountInv, Due, Exact, EffectiveQuota
    <3>3. FundingInv(r)'
      BY <1>1, Bounds DEF TypeOK, AmountsNat, UpstreamFails, RequestInv,
          ControlInv, AmountInv, FundingInv, Due, Exact, EffectiveQuota
    <3>4. TokenInv(r)'
      BY <1>1, Bounds DEF TypeOK, AmountsNat, UpstreamFails, RequestInv,
          ControlInv, AmountInv, FundingInv, TokenInv, TokenShare,
          EffectiveQuota
    <3> QED
      BY <2>1, <3>1, <3>2, <3>3, <3>4 DEF RequestInv
  <2>2. CASE s # r
    BY <2>2 DEF IInv, TypeOK, UpstreamFails, RequestInv, ControlInv,
        AmountInv, FundingInv, TokenInv, Due, Exact, EffectiveQuota,
        TokenShare
  <2> QED
    BY <2>1, <2>2
<1> QED
  BY <1>2, <1>3 DEF IInv

\* Giving a request up keeps its reservation, to be refunded.
LEMMA AbandonInv ==
    ASSUME IInv, NEW r \in Requests, Abandon(r)
    PROVE  IInv'
<1>1. TypeOK /\ RequestInv(r)
  BY DEF IInv
<1>2. TypeOK'
  BY <1>1, Bounds DEF TypeOK, ControlPoints, Abandon
<1>3. ASSUME NEW s \in Requests PROVE RequestInv(s)'
  BY <1>1, RequestTypes, Bounds DEF IInv, TypeOK, Abandon, AmountsNat,
      RequestInv, ControlInv, AmountInv, FundingInv, TokenInv, Due, Exact,
      EffectiveQuota, TokenShare
<1> QED
  BY <1>2, <1>3 DEF IInv

\* An answer fixes the cost before anything is settled.
LEMMA UpstreamAnswersInv ==
    ASSUME IInv, NEW r \in Requests, UpstreamAnswers(r)
    PROVE  IInv'
<1>1. TypeOK /\ RequestInv(r)
  BY DEF IInv
<1>2. TypeOK'
  BY <1>1, Bounds DEF TypeOK, ControlPoints, UpstreamAnswers
<1>3. ASSUME NEW s \in Requests PROVE RequestInv(s)'
  BY <1>1, RequestTypes, Bounds DEF IInv, TypeOK, UpstreamAnswers, AmountsNat,
      RequestInv, ControlInv, AmountInv, FundingInv, TokenInv, Due, Exact,
      EffectiveQuota, TokenShare
<1> QED
  BY <1>2, <1>3 DEF IInv

\* A task that needs no larger reservation keeps the one it has.
LEMMA SkipTaskReserveInv ==
    ASSUME IInv, NEW r \in Requests, SkipTaskReserve(r)
    PROVE  IInv'
<1>1. TypeOK /\ RequestInv(r)
  BY DEF IInv
<1>2. TypeOK'
  BY <1>1, Bounds DEF TypeOK, ControlPoints, SkipTaskReserve
<1>3. ASSUME NEW s \in Requests PROVE RequestInv(s)'
  BY <1>1, RequestTypes, Bounds DEF IInv, TypeOK, SkipTaskReserve, AmountsNat,
      RequestInv, ControlInv, AmountInv, FundingInv, TokenInv, Due, Exact,
      EffectiveQuota, TokenShare
<1> QED
  BY <1>2, <1>3 DEF IInv

\* Inserting the task row moves no quota.
LEMMA InsertTaskInv ==
    ASSUME IInv, NEW r \in Requests, InsertTask(r)
    PROVE  IInv'
<1>1. TypeOK /\ RequestInv(r)
  BY DEF IInv
<1>2. TypeOK'
  BY <1>1, Bounds DEF TypeOK, ControlPoints, InsertTask
<1>3. ASSUME NEW s \in Requests PROVE RequestInv(s)'
  BY <1>1, RequestTypes, Bounds DEF IInv, TypeOK, InsertTask, AmountsNat,
      RequestInv, ControlInv, AmountInv, FundingInv, TokenInv, Due, Exact,
      EffectiveQuota, TokenShare
<1> QED
  BY <1>2, <1>3 DEF IInv

\* Settle charges the difference to the actual cost, or changes nothing.
LEMMA SettleInv ==
    ASSUME IInv, NEW r \in Requests, Settle(r)
    PROVE  IInv'
<1>1. TypeOK /\ RequestInv(r) /\ AmountsNat(r)
  BY RequestTypes DEF IInv
<1>2. TypeOK'
  <2>1. CounterTypes'
    BY <1>1, Bounds DEF TypeOK, CounterTypes, Settle, Adjust, AdjustFails,
        Succeeds, Fails
  <2>2. LedgerTypes'
    <3>1. charged[r] = preConsumedQuota[r]
          /\ tokenCharged[r] >= TokenShare(r, preConsumedQuota[r])
      BY <1>1 DEF TypeOK, AmountsNat, Settle, RequestInv, ControlInv,
          AmountInv, FundingInv, TokenInv
    <3>2. charged' \in [Requests -> Nat]
      BY <1>1, <3>1 DEF TypeOK, AmountsNat, Settle, Adjust, AdjustFails
    <3>3. tokenCharged' \in [Requests -> Nat]
      BY <1>1, <3>1 DEF TypeOK, AmountsNat, Settle, Adjust, AdjustFails,
          TokenShare
    <3> QED
      BY <3>2, <3>3 DEF LedgerTypes
  <2>3. AmountTypes'
    BY <1>1, Bounds DEF TypeOK, AmountTypes, AmountsNat, Settle, Adjust,
        AdjustFails, Succeeds, Fails, RequestInv, ControlInv, AmountInv,
        Exact, EffectiveQuota
  <2>4. FlagTypes'
    BY <1>1 DEF TypeOK, FlagTypes, Settle, Adjust, AdjustFails, Succeeds,
        Fails
  <2>5. ControlTypes'
    BY <1>1 DEF TypeOK, ControlTypes, Settle, Adjust, AdjustFails, Succeeds,
        Fails, ControlPoints, RefundSteps
  <2> QED
    BY <2>1, <2>2, <2>3, <2>4, <2>5 DEF TypeOK, CounterTypes, LedgerTypes,
        AmountTypes, FlagTypes, ControlTypes
<1>3. ASSUME NEW s \in Requests PROVE RequestInv(s)'
  <2>1. CASE s = r
    <3>1. ControlInv(r)'
      BY <1>1, Bounds DEF TypeOK, Settle, Adjust, AdjustFails, Succeeds,
          Fails, RequestInv, ControlInv, RefundSteps
    <3>2. AmountInv(r)'
      BY <1>1, Bounds DEF TypeOK, AmountsNat, Settle, Adjust, AdjustFails,
          Succeeds, Fails, RequestInv, ControlInv, AmountInv, Due, Exact,
          EffectiveQuota
    <3>3. FundingInv(r)'
      BY <1>1, Bounds DEF TypeOK, AmountsNat, Settle, Adjust, AdjustFails,
          Succeeds, Fails, RequestInv, ControlInv, AmountInv, FundingInv, Due,
          Exact, EffectiveQuota
    <3>4. TokenInv(r)'
      BY <1>1, Bounds DEF TypeOK, AmountsNat, Settle, Adjust, AdjustFails,
          Succeeds, Fails, RequestInv, ControlInv, AmountInv, FundingInv,
          TokenInv, TokenShare, EffectiveQuota
    <3> QED
      BY <2>1, <3>1, <3>2, <3>3, <3>4 DEF RequestInv
  <2>2. CASE s # r
    BY <2>2 DEF IInv, TypeOK, Settle, Adjust, AdjustFails, Succeeds, Fails,
        RequestInv, ControlInv, AmountInv, FundingInv, TokenInv, Due, Exact,
        EffectiveQuota, TokenShare
  <2> QED
    BY <2>1, <2>2
<1> QED
  BY <1>2, <1>3 DEF IInv

\* A request without a session pays its whole cost, or nothing.
LEMMA SettleWithoutSessionInv ==
    ASSUME IInv, NEW r \in Requests, SettleWithoutSession(r)
    PROVE  IInv'
<1>1. TypeOK /\ RequestInv(r) /\ AmountsNat(r)
  BY RequestTypes DEF IInv
<1>2. TypeOK'
  <2>1. CounterTypes'
    BY <1>1, Bounds DEF TypeOK, CounterTypes, SettleWithoutSession, Adjust,
        AdjustFails, Succeeds, Fails
  <2>2. LedgerTypes'
    BY <1>1, Bounds DEF TypeOK, LedgerTypes, AmountsNat, SettleWithoutSession,
        Adjust, AdjustFails, Succeeds, Fails, RequestInv, ControlInv,
        AmountInv, FundingInv, TokenInv, TokenShare, Due, EffectiveQuota
  <2>3. AmountTypes'
    BY <1>1, Bounds DEF TypeOK, AmountTypes, AmountsNat, SettleWithoutSession,
        Adjust, AdjustFails, Succeeds, Fails, RequestInv, ControlInv,
        AmountInv, Exact, EffectiveQuota
  <2>4. FlagTypes'
    BY <1>1 DEF TypeOK, FlagTypes, SettleWithoutSession, Adjust, AdjustFails,
        Succeeds, Fails
  <2>5. ControlTypes'
    BY <1>1 DEF TypeOK, ControlTypes, SettleWithoutSession, Adjust,
        AdjustFails, Succeeds, Fails, ControlPoints, RefundSteps
  <2> QED
    BY <2>1, <2>2, <2>3, <2>4, <2>5 DEF TypeOK, CounterTypes, LedgerTypes,
        AmountTypes, FlagTypes, ControlTypes
<1>3. ASSUME NEW s \in Requests PROVE RequestInv(s)'
  <2>1. CASE s = r
    <3>1. ControlInv(r)'
      BY <1>1, Bounds DEF TypeOK, SettleWithoutSession, Adjust, AdjustFails,
          Succeeds, Fails, RequestInv, ControlInv, RefundSteps
    <3>2. AmountInv(r)'
      BY <1>1, Bounds DEF TypeOK, AmountsNat, SettleWithoutSession, Adjust,
          AdjustFails, Succeeds, Fails, RequestInv, ControlInv, AmountInv,
          Due, Exact, EffectiveQuota
    <3>3. FundingInv(r)'
      BY <1>1, Bounds DEF TypeOK, AmountsNat, SettleWithoutSession, Adjust,
          AdjustFails, Succeeds, Fails, RequestInv, ControlInv, AmountInv,
          FundingInv, Due, Exact, EffectiveQuota
    <3>4. TokenInv(r)'
      BY <1>1, Bounds DEF TypeOK, AmountsNat, SettleWithoutSession, Adjust,
          AdjustFails, Succeeds, Fails, RequestInv, ControlInv, AmountInv,
          FundingInv, TokenInv, TokenShare, EffectiveQuota
    <3> QED
      BY <2>1, <3>1, <3>2, <3>3, <3>4 DEF RequestInv
  <2>2. CASE s # r
    BY <2>2 DEF IInv, TypeOK, SettleWithoutSession, Adjust, AdjustFails,
        Succeeds, Fails, RequestInv, ControlInv, AmountInv, FundingInv,
        TokenInv, Due, Exact, EffectiveQuota, TokenShare
  <2> QED
    BY <2>1, <2>2
<1> QED
  BY <1>2, <1>3 DEF IInv

\* A request that returns has been settled, or its settlement failed.
LEMMA FinishInv ==
    ASSUME IInv, NEW r \in Requests, Finish(r)
    PROVE  IInv'
<1>1. TypeOK /\ RequestInv(r)
  BY DEF IInv
<1>2. TypeOK'
  BY <1>1, Bounds DEF TypeOK, ControlPoints, Finish
<1>3. ASSUME NEW s \in Requests PROVE RequestInv(s)'
  BY <1>1, RequestTypes, Bounds DEF IInv, TypeOK, Finish, AmountsNat,
      RequestInv, ControlInv, AmountInv, FundingInv, TokenInv, Due, Exact,
      EffectiveQuota, TokenShare
<1> QED
  BY <1>2, <1>3 DEF IInv

\* A panic after the settlement leaves the settled flag set.
LEMMA PanicAfterSettleInv ==
    ASSUME IInv, NEW r \in Requests, PanicAfterSettle(r)
    PROVE  IInv'
<1>1. TypeOK /\ RequestInv(r)
  BY DEF IInv
<1>2. TypeOK'
  BY <1>1, Bounds DEF TypeOK, ControlPoints, PanicAfterSettle
<1>3. ASSUME NEW s \in Requests PROVE RequestInv(s)'
  BY <1>1, RequestTypes, Bounds DEF IInv, TypeOK, PanicAfterSettle,
      AmountsNat, RequestInv, ControlInv, AmountInv, FundingInv, TokenInv,
      Due, Exact, EffectiveQuota, TokenShare
<1> QED
  BY <1>2, <1>3 DEF IInv

\* The refund is claimed only for an unsettled session that holds quota.
LEMMA RefundInv ==
    ASSUME IInv, NEW r \in Requests, Refund(r)
    PROVE  IInv'
<1>1. TypeOK /\ RequestInv(r) /\ AmountsNat(r)
  BY RequestTypes DEF IInv
<1>2. TypeOK'
  <2>1. CounterTypes'
    BY <1>1, Bounds DEF TypeOK, CounterTypes, Refund, NeedsRefund
  <2>2. LedgerTypes'
    BY <1>1, Bounds DEF TypeOK, LedgerTypes, AmountsNat, Refund, NeedsRefund,
        RequestInv, ControlInv, AmountInv, FundingInv, TokenInv, TokenShare,
        Due, EffectiveQuota
  <2>3. AmountTypes'
    BY <1>1, Bounds DEF TypeOK, AmountTypes, AmountsNat, Refund, NeedsRefund,
        RequestInv, ControlInv, AmountInv, Exact, EffectiveQuota
  <2>4. FlagTypes'
    BY <1>1 DEF TypeOK, FlagTypes, Refund, NeedsRefund
  <2>5. ControlTypes'
    BY <1>1 DEF TypeOK, ControlTypes, Refund, NeedsRefund, ControlPoints,
        RefundSteps
  <2> QED
    BY <2>1, <2>2, <2>3, <2>4, <2>5 DEF TypeOK, CounterTypes, LedgerTypes,
        AmountTypes, FlagTypes, ControlTypes
<1>3. ASSUME NEW s \in Requests PROVE RequestInv(s)'
  <2>1. CASE s = r
    <3>1. ControlInv(r)'
      BY <1>1, Bounds DEF TypeOK, Refund, NeedsRefund, RequestInv, ControlInv,
          RefundSteps
    <3>2. AmountInv(r)'
      BY <1>1, Bounds DEF TypeOK, AmountsNat, Refund, NeedsRefund, RequestInv,
          ControlInv, AmountInv, Due, Exact, EffectiveQuota
    <3>3. FundingInv(r)'
      BY <1>1, Bounds DEF TypeOK, AmountsNat, Refund, NeedsRefund, RequestInv,
          ControlInv, AmountInv, FundingInv, Due, Exact, EffectiveQuota
    <3>4. TokenInv(r)'
      BY <1>1, Bounds DEF TypeOK, AmountsNat, Refund, NeedsRefund, RequestInv,
          ControlInv, AmountInv, FundingInv, TokenInv, TokenShare,
          EffectiveQuota
    <3> QED
      BY <2>1, <3>1, <3>2, <3>3, <3>4 DEF RequestInv
  <2>2. CASE s # r
    BY <2>2 DEF IInv, TypeOK, Refund, NeedsRefund, RequestInv, ControlInv,
        AmountInv, FundingInv, TokenInv, Due, Exact, EffectiveQuota,
        TokenShare
  <2> QED
    BY <2>1, <2>2
<1> QED
  BY <1>2, <1>3 DEF IInv

\* The fee is charged next to a running refund.
LEMMA ChargeViolationFeeInv ==
    ASSUME IInv, NEW r \in Requests, ChargeViolationFee(r)
    PROVE  IInv'
<1>1. TypeOK /\ RequestInv(r) /\ AmountsNat(r)
  BY RequestTypes DEF IInv
<1>2. TypeOK'
  <2>1. CounterTypes'
    BY <1>1, Bounds DEF TypeOK, CounterTypes, ChargeViolationFee, Adjust,
        AdjustFails, Succeeds, Fails
  <2>2. LedgerTypes'
    BY <1>1, Bounds DEF TypeOK, LedgerTypes, AmountsNat, ChargeViolationFee,
        Adjust, AdjustFails, Succeeds, Fails, RequestInv, ControlInv,
        AmountInv, FundingInv, TokenInv, TokenShare, Due, EffectiveQuota
  <2>3. AmountTypes'
    BY <1>1, Bounds DEF TypeOK, AmountTypes, AmountsNat, ChargeViolationFee,
        Adjust, AdjustFails, Succeeds, Fails, RequestInv, ControlInv,
        AmountInv, Exact, EffectiveQuota
  <2>4. FlagTypes'
    BY <1>1 DEF TypeOK, FlagTypes, ChargeViolationFee, Adjust, AdjustFails,
        Succeeds, Fails
  <2>5. ControlTypes'
    <3>1. fee' \in [Requests -> ViolationFees \cup {0}]
      BY <1>1 DEF TypeOK, ChargeViolationFee
    <3> QED
      BY <1>1, <3>1 DEF TypeOK, ControlTypes, ChargeViolationFee,
          ControlPoints, RefundSteps
  <2> QED
    BY <2>1, <2>2, <2>3, <2>4, <2>5 DEF TypeOK, CounterTypes, LedgerTypes,
        AmountTypes, FlagTypes, ControlTypes
<1>3. ASSUME NEW s \in Requests PROVE RequestInv(s)'
  <2>1. CASE s = r
    <3>1. ControlInv(r)'
      BY <1>1, Bounds DEF TypeOK, ChargeViolationFee, Adjust, AdjustFails,
          Succeeds, Fails, RequestInv, ControlInv, RefundSteps
    <3>2. AmountInv(r)'
      BY <1>1, Bounds DEF TypeOK, AmountsNat, ChargeViolationFee, Adjust,
          AdjustFails, Succeeds, Fails, RequestInv, ControlInv, AmountInv,
          Due, Exact, EffectiveQuota
    <3>3. FundingInv(r)'
      BY <1>1, Bounds DEF TypeOK, AmountsNat, ChargeViolationFee, Adjust,
          AdjustFails, Succeeds, Fails, RequestInv, ControlInv, AmountInv,
          FundingInv, Due, Exact, EffectiveQuota
    <3>4. TokenInv(r)'
      BY <1>1, Bounds DEF TypeOK, AmountsNat, ChargeViolationFee, Adjust,
          AdjustFails, Succeeds, Fails, RequestInv, ControlInv, AmountInv,
          FundingInv, TokenInv, TokenShare, EffectiveQuota
    <3> QED
      BY <2>1, <3>1, <3>2, <3>3, <3>4 DEF RequestInv
  <2>2. CASE s # r
    BY <2>2 DEF IInv, TypeOK, ChargeViolationFee, Adjust, AdjustFails,
        Succeeds, Fails, RequestInv, ControlInv, AmountInv, FundingInv,
        TokenInv, Due, Exact, EffectiveQuota, TokenShare
  <2> QED
    BY <2>1, <2>2
<1> QED
  BY <1>2, <1>3 DEF IInv

\* The refund goroutine returns what the funding source recorded ...
LEMMA RefundFundingInv ==
    ASSUME IInv, NEW r \in Requests, RefundFunding(r)
    PROVE  IInv'
<1>1. TypeOK /\ RequestInv(r) /\ AmountsNat(r)
  BY RequestTypes DEF IInv
<1>2. TypeOK'
  <2>1. CounterTypes'
    BY <1>1, Bounds DEF TypeOK, CounterTypes, RefundFunding, Succeeds, Fails
  <2>2. LedgerTypes'
    <3>1. charged[r] >= Due(r) + fee[r]
      BY <1>1 DEF TypeOK, RefundFunding, RequestInv, ControlInv, FundingInv
    <3>2. charged[r] - fundingConsumed[r] \in Nat
      BY <1>1, <3>1 DEF AmountsNat, Due
    <3> QED
      BY <1>1, <3>2 DEF TypeOK, LedgerTypes, RefundFunding
  <2>3. AmountTypes'
    BY <1>1, Bounds DEF TypeOK, AmountTypes, AmountsNat, RefundFunding,
        Succeeds, Fails, RequestInv, ControlInv, AmountInv, Exact,
        EffectiveQuota
  <2>4. FlagTypes'
    BY <1>1 DEF TypeOK, FlagTypes, RefundFunding, Succeeds, Fails
  <2>5. ControlTypes'
    BY <1>1 DEF TypeOK, ControlTypes, RefundFunding, Succeeds, Fails,
        ControlPoints, RefundSteps
  <2> QED
    BY <2>1, <2>2, <2>3, <2>4, <2>5 DEF TypeOK, CounterTypes, LedgerTypes,
        AmountTypes, FlagTypes, ControlTypes
<1>3. ASSUME NEW s \in Requests PROVE RequestInv(s)'
  <2>1. CASE s = r
    <3>1. ControlInv(r)'
      BY <1>1, Bounds DEF TypeOK, RefundFunding, Succeeds, Fails, RequestInv,
          ControlInv, RefundSteps
    <3>2. AmountInv(r)'
      BY <1>1, Bounds DEF TypeOK, AmountsNat, RefundFunding, Succeeds, Fails,
          RequestInv, ControlInv, AmountInv, Due, Exact, EffectiveQuota
    <3>3. FundingInv(r)'
      <4>1. /\ pc[r] \in {"fee", "closed"} /\ ~settled[r]
            /\ source[r] # "none" /\ refundStep[r] = "funding"
        BY <1>1 DEF TypeOK, RefundFunding, RequestInv, ControlInv
      <4>2. /\ charged[r] >= Due(r) + fee[r]
            /\ ~lost[r] => charged[r] = preConsumedQuota[r] + fee[r]
        BY <1>1, <4>1 DEF RequestInv, FundingInv
      <4>3. \/ /\ charged'[r] = charged[r] - fundingConsumed[r]
               /\ lost'[r] = lost[r]
            \/ charged'[r] = charged[r] /\ lost'[r] = TRUE
        BY <1>1 DEF TypeOK, RefundFunding
      <4>4. CASE source[r] = "subscription"
        <5>1. refundStep'[r] = "extra"
          BY <4>4, <1>1 DEF TypeOK, RefundFunding
        <5>2. preConsumedQuota[r] = fundingConsumed[r] + extraReserved[r]
          BY <1>1, <4>1, <4>4 DEF RequestInv, AmountInv, Due
        <5>3. /\ charged'[r] >= extraReserved[r] + fee[r]
              /\ ~lost'[r] => charged'[r] = extraReserved[r] + fee[r]
          BY <1>1, <4>2, <4>3, <4>4, <5>2 DEF AmountsNat, Due
        <5> QED
          BY <4>1, <4>4, <5>1, <5>3 DEF RefundFunding, FundingInv
      <4>5. CASE source[r] # "subscription"
        <5>1. refundStep'[r] = "token"
          BY <4>5, <1>1 DEF TypeOK, RefundFunding
        <5>2. ~lost[r] /\ Exact(r) => fundingConsumed[r] = preConsumedQuota[r]
          BY <1>1, <4>1, <4>5 DEF RequestInv, ControlInv, AmountInv, AmountsNat
        <5>3. /\ charged'[r] >= fee[r]
              /\ ~lost'[r] /\ Exact(r) => charged'[r] = fee[r]
          BY <1>1, <4>2, <4>3, <4>5, <5>2 DEF AmountsNat, Due
        <5> QED
          BY <4>1, <4>5, <5>1, <5>3 DEF RefundFunding, FundingInv, Exact
      <4> QED
        BY <4>4, <4>5
    <3>4. TokenInv(r)'
      BY <1>1 DEF TypeOK, RefundFunding, RequestInv, ControlInv, TokenInv,
          TokenShare
    <3> QED
      BY <2>1, <3>1, <3>2, <3>3, <3>4 DEF RequestInv
  <2>2. CASE s # r
    BY <2>2 DEF IInv, TypeOK, RefundFunding, Succeeds, Fails, RequestInv,
        ControlInv, AmountInv, FundingInv, TokenInv, Due, Exact,
        EffectiveQuota, TokenShare
  <2> QED
    BY <2>1, <2>2
<1> QED
  BY <1>2, <1>3 DEF IInv

\* ... what Reserve added to a subscription ...
LEMMA RefundExtraInv ==
    ASSUME IInv, NEW r \in Requests, RefundExtra(r)
    PROVE  IInv'
<1>1. TypeOK /\ RequestInv(r) /\ AmountsNat(r)
  BY RequestTypes DEF IInv
<1>2. TypeOK'
  <2>1. CounterTypes'
    BY <1>1, Bounds DEF TypeOK, CounterTypes, RefundExtra, Succeeds, Fails
  <2>2. LedgerTypes'
    <3>1. charged[r] - extraReserved[r] \in Nat
      BY <1>1 DEF AmountsNat, RefundExtra, RequestInv, FundingInv
    <3> QED
      BY <1>1, <3>1 DEF TypeOK, LedgerTypes, RefundExtra
  <2>3. AmountTypes'
    BY <1>1, Bounds DEF TypeOK, AmountTypes, AmountsNat, RefundExtra,
        Succeeds, Fails, RequestInv, ControlInv, AmountInv, Exact,
        EffectiveQuota
  <2>4. FlagTypes'
    BY <1>1 DEF TypeOK, FlagTypes, RefundExtra, Succeeds, Fails
  <2>5. ControlTypes'
    BY <1>1 DEF TypeOK, ControlTypes, RefundExtra, Succeeds, Fails,
        ControlPoints, RefundSteps
  <2> QED
    BY <2>1, <2>2, <2>3, <2>4, <2>5 DEF TypeOK, CounterTypes, LedgerTypes,
        AmountTypes, FlagTypes, ControlTypes
<1>3. ASSUME NEW s \in Requests PROVE RequestInv(s)'
  <2>1. CASE s = r
    <3>1. ControlInv(r)'
      BY <1>1, Bounds DEF TypeOK, RefundExtra, Succeeds, Fails, RequestInv,
          ControlInv, RefundSteps
    <3>2. AmountInv(r)'
      BY <1>1, Bounds DEF TypeOK, AmountsNat, RefundExtra, Succeeds, Fails,
          RequestInv, ControlInv, AmountInv, Due, Exact, EffectiveQuota
    <3>3. FundingInv(r)'
      <4>1. /\ source[r] = "subscription" /\ pc[r] \in {"fee", "closed"}
            /\ ~settled[r] /\ refundStep'[r] = "token"
        BY <1>1 DEF TypeOK, RefundExtra, RequestInv, ControlInv
      <4>2. charged'[r] >= fee[r] /\ (~lost'[r] => charged'[r] = fee[r])
        BY <1>1 DEF TypeOK, AmountsNat, RefundExtra, Succeeds, Fails,
            RequestInv, FundingInv
      <4> QED
        BY <1>1, <4>1, <4>2 DEF TypeOK, RefundExtra, FundingInv
    <3>4. TokenInv(r)'
      BY <1>1 DEF TypeOK, RefundExtra, RequestInv, ControlInv, TokenInv,
          TokenShare
    <3> QED
      BY <2>1, <3>1, <3>2, <3>3, <3>4 DEF RequestInv
  <2>2. CASE s # r
    BY <2>2 DEF IInv, TypeOK, RefundExtra, Succeeds, Fails, RequestInv,
        ControlInv, AmountInv, FundingInv, TokenInv, Due, Exact,
        EffectiveQuota, TokenShare
  <2> QED
    BY <2>1, <2>2
<1> QED
  BY <1>2, <1>3 DEF IInv

\* ... and what the session took from the token.
LEMMA RefundTokenInv ==
    ASSUME IInv, NEW r \in Requests, RefundToken(r)
    PROVE  IInv'
<1>1. TypeOK /\ RequestInv(r) /\ AmountsNat(r)
  BY RequestTypes DEF IInv
<1>2. TypeOK'
  <2>1. CounterTypes'
    BY <1>1, Bounds DEF TypeOK, CounterTypes, RefundToken, Succeeds, Fails
  <2>2. LedgerTypes'
    BY <1>1, Bounds DEF TypeOK, LedgerTypes, AmountsNat, RefundToken,
        Succeeds, Fails, RequestInv, ControlInv, AmountInv, FundingInv,
        TokenInv, TokenShare, Due, EffectiveQuota
  <2>3. AmountTypes'
    BY <1>1, Bounds DEF TypeOK, AmountTypes, AmountsNat, RefundToken,
        Succeeds, Fails, RequestInv, ControlInv, AmountInv, Exact,
        EffectiveQuota
  <2>4. FlagTypes'
    BY <1>1 DEF TypeOK, FlagTypes, RefundToken, Succeeds, Fails
  <2>5. ControlTypes'
    BY <1>1 DEF TypeOK, ControlTypes, RefundToken, Succeeds, Fails,
        ControlPoints, RefundSteps
  <2> QED
    BY <2>1, <2>2, <2>3, <2>4, <2>5 DEF TypeOK, CounterTypes, LedgerTypes,
        AmountTypes, FlagTypes, ControlTypes
<1>3. ASSUME NEW s \in Requests PROVE RequestInv(s)'
  <2>1. CASE s = r
    <3>1. ControlInv(r)'
      BY <1>1, Bounds DEF TypeOK, RefundToken, Succeeds, Fails, RequestInv,
          ControlInv, RefundSteps
    <3>2. AmountInv(r)'
      BY <1>1, Bounds DEF TypeOK, AmountsNat, RefundToken, Succeeds, Fails,
          RequestInv, ControlInv, AmountInv, Due, Exact, EffectiveQuota
    <3>3. FundingInv(r)'
      BY <1>1, Bounds DEF TypeOK, AmountsNat, RefundToken, Succeeds, Fails,
          RequestInv, ControlInv, AmountInv, FundingInv, Due, Exact,
          EffectiveQuota
    <3>4. TokenInv(r)'
      BY <1>1, Bounds DEF TypeOK, AmountsNat, RefundToken, Succeeds, Fails,
          RequestInv, ControlInv, AmountInv, FundingInv, TokenInv, TokenShare,
          EffectiveQuota
    <3> QED
      BY <2>1, <3>1, <3>2, <3>3, <3>4 DEF RequestInv
  <2>2. CASE s # r
    BY <2>2 DEF IInv, TypeOK, RefundToken, Succeeds, Fails, RequestInv,
        ControlInv, AmountInv, FundingInv, TokenInv, Due, Exact,
        EffectiveQuota, TokenShare
  <2> QED
    BY <2>1, <2>2
<1> QED
  BY <1>2, <1>3 DEF IInv

-----------------------------------------------------------------------------
(* The theorems.                                                           *)

\* The invariant holds before the first request starts.
LEMMA InitInv ==
    Init => IInv
<1> SUFFICES ASSUME Init PROVE IInv
  OBVIOUS
<1>1. TypeOK
  BY Bounds DEF Init, TypeOK, ControlPoints, RefundSteps
<1>2. ASSUME NEW r \in Requests PROVE RequestInv(r)
  BY DEF Init, RequestInv, ControlInv, AmountInv, FundingInv, TokenInv,
      Due, Exact, EffectiveQuota, TokenShare
<1> QED
  BY <1>1, <1>2 DEF IInv

\* The invariant reads only the variables, so a stuttering step keeps it, and
\* the expiry of the subscription concerns no request's amounts.
LEMMA IdleInv ==
    ASSUME IInv, ExpireSubscription \/ UNCHANGED vars
    PROVE  IInv'
<1>1. TypeOK'
  BY DEF IInv, TypeOK, vars, ExpireSubscription
<1>2. ASSUME NEW s \in Requests PROVE RequestInv(s)'
  BY DEF IInv, vars, ExpireSubscription, RequestInv, ControlInv, AmountInv,
      FundingInv, TokenInv, Due, Exact, EffectiveQuota, TokenShare
<1> QED
  BY <1>1, <1>2 DEF IInv

\* Every step of the billing preserves the invariant: one case per action.
LEMMA NextInv ==
    IInv /\ [Next]_vars => IInv'
<1> SUFFICES ASSUME IInv, [Next]_vars PROVE IInv'
  OBVIOUS
<1>1. ASSUME NEW r \in Requests, Open(r) PROVE IInv'
  BY <1>1, StartRequestInv, OpenSessionInv, ChooseSourceInv, TryWalletInv,
      PreConsumeTokenInv, PreConsumeFundingInv, RollbackTokenInv DEF Open
<1>2. ASSUME NEW r \in Requests, Attempt(r) PROVE IInv'
  BY <1>2, ReserveFundingInv, ReserveTokenInv, RollbackFundingReserveInv,
      SendUpstreamInv, UpstreamFailsInv, UpstreamAnswersInv, AbandonInv,
      SkipTaskReserveInv, InsertTaskInv DEF Attempt
<1>3. ASSUME NEW r \in Requests, Close(r) PROVE IInv'
  BY <1>3, SettleInv, SettleWithoutSessionInv, FinishInv,
      PanicAfterSettleInv, RefundInv, ChargeViolationFeeInv DEF Close
<1>4. ASSUME NEW r \in Requests, RefundAsync(r) PROVE IInv'
  BY <1>4, RefundFundingInv, RefundExtraInv, RefundTokenInv DEF RefundAsync
<1>5. CASE ExpireSubscription
  BY <1>5, IdleInv
<1>6. CASE Terminated \/ UNCHANGED vars
  BY <1>6, IdleInv DEF Terminated
<1> QED
  BY <1>1, <1>2, <1>3, <1>4, <1>5, <1>6 DEF Next

\* At every control point of every request, the ledgers have given up what
\* the amounts of its session say: the inductive invariant.
THEOREM Accounting ==
    Spec => []IInv
BY InitInv, NextInv, PTL DEF Spec

\* Type correctness; in particular a net withdrawal is never negative: no
\* refund, rollback or settlement returns more than the request has paid.
THEOREM TypeCorrect ==
    Spec => []TypeOK
<1>1. IInv => TypeOK
  BY DEF IInv
<1> QED
  BY <1>1, Accounting, PTL

\* Between the steps of an open session the two ledgers hold exactly
\* preConsumedQuota, so the delta of Settle is right.
THEOREM ReservationHeld ==
    Spec => []OpenSessionHoldsReservation
<1>1. IInv => OpenSessionHoldsReservation
  <2> SUFFICES ASSUME IInv, NEW r \in Requests,
                      pc[r] \in Holding, source[r] # "none", ~lost[r]
               PROVE  /\ charged[r] = preConsumedQuota[r]
                      /\ tokenCharged[r] = TokenShare(r, preConsumedQuota[r])
    BY DEF OpenSessionHoldsReservation
  <2>1. RequestInv(r) /\ AmountsNat(r)
    BY RequestTypes DEF IInv
  <2>2. reserveDelta[r] = 0 /\ tokenConsumed[r] = preConsumedQuota[r]
    BY <2>1 DEF RequestInv, ControlInv, AmountInv
  <2> QED
    BY <2>1, <2>2 DEF AmountsNat, RequestInv, FundingInv, TokenInv
<1> QED
  BY <1>1, Accounting, PTL

\* A settled request has paid its actual cost and its fee, and nothing else,
\* from its funding source and from its token.
THEOREM SettlementExact ==
    Spec => []SettledExactly
<1>1. IInv => SettledExactly
  BY DEF IInv, SettledExactly, RequestInv, FundingInv, TokenInv
<1> QED
  BY <1>1, Accounting, PTL

\* A finished refund has returned the whole reservation, images paid from the
\* wallet apart.
THEOREM RefundComplete ==
    Spec => []RefundReturnsReservationExceptImages
<1>1. IInv => RefundReturnsReservationExceptImages
  BY DEF IInv, RefundReturnsReservationExceptImages, RequestInv, FundingInv,
      TokenInv, Exact
<1> QED
  BY <1>1, Accounting, PTL

\* A request that has no session holds nothing.
THEOREM RejectionFree ==
    Spec => []NoSessionHoldsNothing
<1>1. IInv => NoSessionHoldsNothing
  <2> SUFFICES ASSUME IInv, NEW r \in Requests,
                      pc[r] \in {"closed", "attempt", "failing"},
                      source[r] = "none", ~lost[r]
               PROVE  /\ charged[r] - fee[r] \in {0, actual[r]}
                      /\ tokenCharged[r] = TokenShare(r, charged[r])
    BY DEF NoSessionHoldsNothing
  <2>1. RequestInv(r) /\ AmountsNat(r)
    BY RequestTypes DEF IInv
  <2>2. tokenCharged[r] = TokenShare(r, charged[r])
    BY <2>1 DEF RequestInv, TokenInv
  <2>3. CASE pc[r] = "attempt"
    BY <2>1, <2>2, <2>3 DEF AmountsNat, RequestInv, ControlInv, AmountInv,
        FundingInv
  <2>4. CASE pc[r] \in Closing
    BY <2>1, <2>2, <2>4 DEF AmountsNat, RequestInv, FundingInv
  <2> QED
    BY <2>3, <2>4
<1> QED
  BY <1>1, Accounting, PTL

=============================================================================
