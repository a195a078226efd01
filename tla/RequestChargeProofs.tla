------------------------ MODULE RequestChargeProofs ------------------------
(***************************************************************************)
(* BillingSession implements RequestCharge, for any requests and quotas:   *)
(* in every behaviour in which no ledger write fails and no request is an  *)
(* image.  Both exceptions are real: a failed compensation leaves a charge *)
(* behind that is only logged, and the refund of an image paid from the    *)
(* wallet returns less than it holds.                                      *)
(***************************************************************************)
EXTENDS BillingSessionProofs

\* No ledger write has failed, and no request is an image.
Faultless == faults = 0 /\ \A r \in Requests : info[r].kind # "image"

\* Nothing is lost while nothing fails.
NothingLost == faults = 0 => \A r \in Requests : ~lost[r]

\* What a request pays, its fee apart.
Amount(r) == charged[r] - fee[r]

\* A step of the billing, seen by one request, as a step of RequestCharge.
Holds(r) ==
    /\ ChargePhase(r) = "held" /\ ChargePhase(r)' = "held"
    /\ Amount(r)' \in Nat /\ actual'[r] \in Nat

Commits(r) ==
    /\ ChargePhase(r) = "held" /\ ChargePhase(r)' = "committed"
    /\ Amount(r)' = actual[r] /\ actual'[r] = actual[r]

Releases(r) ==
    /\ ChargePhase(r) = "held" /\ ChargePhase(r)' = "released"
    /\ Amount(r)' = 0 /\ actual'[r] = actual[r]

Stays(r) ==
    /\ ChargePhase(r)' = ChargePhase(r)
    /\ Amount(r)' = Amount(r) /\ actual'[r] = actual[r]

Allowed(r) == Holds(r) \/ Commits(r) \/ Releases(r) \/ Stays(r)

\* A step that only concerns r, and that RequestCharge allows it.
StepOf(r) ==
    /\ Allowed(r)
    /\ \A s \in Requests \ {r} : Stays(s)

-----------------------------------------------------------------------------
(* From the requests to the functions of RequestCharge.                    *)

\* When one request takes a step RequestCharge allows and the others keep
\* still, the mapped state takes a step of RequestCharge.
LEMMA Lifted ==
    ASSUME IInv, IInv', NEW r \in Requests, StepOf(r)
    PROVE  [Charge!Next]_<<[s \in Requests |-> ChargePhase(s)],
                           [s \in Requests |-> charged[s] - fee[s]], actual>>
<1> DEFINE phase == [s \in Requests |-> ChargePhase(s)]
           amount == [s \in Requests |-> charged[s] - fee[s]]
<1>1. \A s \in Requests \ {r} :
        /\ phase'[s] = phase[s] /\ amount'[s] = amount[s]
        /\ actual'[s] = actual[s]
  BY DEF StepOf, Stays, Amount
<1>2. /\ DOMAIN actual = Requests /\ DOMAIN actual' = Requests
      /\ actual = [s \in Requests |-> actual[s]]
      /\ actual' = [s \in Requests |-> actual'[s]]
  BY DEF IInv, TypeOK
<1>3. /\ phase[r] = ChargePhase(r) /\ phase'[r] = ChargePhase(r)'
      /\ amount[r] = Amount(r) /\ amount'[r] = Amount(r)'
  BY DEF Amount
<1>4. CASE Holds(r)
  <2>1. Charge!Hold(r)
    BY <1>1, <1>2, <1>3, <1>4 DEF Holds, Charge!Hold, Charge!Updates
  <2> QED
    BY <2>1 DEF Charge!Next
<1>5. CASE Commits(r)
  <2>1. Charge!Commit(r)
    BY <1>1, <1>2, <1>3, <1>5 DEF Commits, Charge!Commit
  <2> QED
    BY <2>1 DEF Charge!Next
<1>6. CASE Releases(r)
  <2>1. Charge!Release(r)
    BY <1>1, <1>2, <1>3, <1>6 DEF Releases, Charge!Release
  <2> QED
    BY <2>1 DEF Charge!Next
<1>7. CASE Stays(r)
  <2>1. phase' = phase /\ amount' = amount /\ actual' = actual
    BY <1>1, <1>2, <1>3, <1>7 DEF Stays
  <2> QED
    BY <2>1
<1> QED
  BY <1>4, <1>5, <1>6, <1>7 DEF StepOf, Allowed

-----------------------------------------------------------------------------
(* Every action is allowed.                                                *)

USE DEF Goto, sessionVars, worldVars, amountVars, flagVars, ledgerVars,
        historyVars, Opening, TokenStage, Holding, Closing

\* A request whose phase, amount and cost no action touches.
LEMMA Untouched ==
    ASSUME NEW r \in Requests,
           source'[r] = source[r], settled'[r] = settled[r],
           refundStep'[r] = refundStep[r], charged'[r] = charged[r],
           fee'[r] = fee[r], actual'[r] = actual[r]
    PROVE  Stays(r)
BY DEF Stays, ChargePhase, Amount

\* Until the funding source has been asked, a request holds nothing, and which
\* source it tries does not show.
LEMMA Opens ==
    ASSUME IInv, NEW r \in Requests, pc[r] \in Opening \cup TokenStage,
           settled' = settled, refundStep' = refundStep, charged' = charged,
           fee' = fee, actual' = actual
    PROVE  Stays(r)
<1>1. RequestInv(r) /\ AmountsNat(r)
  BY RequestTypes DEF IInv
<1>2. /\ charged[r] = 0 /\ fee[r] = 0 /\ ~settled[r]
      /\ refundStep[r] = "none"
  BY <1>1 DEF RequestInv, ControlInv, FundingInv
<1> QED
  BY <1>2 DEF Stays, ChargePhase, Amount

\* A request that is being served or that has failed is on hold.
LEMMA OnHold ==
    ASSUME IInv, NEW r \in Requests,
           pc[r] \in Opening \cup TokenStage \cup Holding \cup {"reserving"}
    PROVE  /\ ChargePhase(r) = "held" /\ ~settled[r] /\ refundStep[r] = "none"
           /\ fee[r] = 0
           /\ source[r] = "none" => charged[r] = 0
<1>1. RequestInv(r) /\ AmountsNat(r)
  BY RequestTypes DEF IInv
<1>2. /\ fee[r] = 0 /\ ~settled[r] /\ refundStep[r] = "none"
      /\ source[r] = "none" => charged[r] = 0
  BY <1>1 DEF RequestInv, ControlInv, AmountInv, FundingInv, AmountsNat
<1> QED
  BY <1>2 DEF ChargePhase

\* NewBillingSession and PreConsume.
LEMMA OpenAllowed ==
    ASSUME IInv, IInv', NEW r \in Requests, Open(r)
    PROVE  StepOf(r)
<1>1. ASSUME NEW s \in Requests \ {r} PROVE Stays(s)
  BY Untouched DEF IInv, TypeOK, Open, StartRequest, OpenSession, ChooseSource,
     TryWallet, PreConsumeToken, PreConsumeFunding, FundingReserved,
     RollbackToken, Fallback, Reject
<1>2. CASE PreConsumeFunding(r)
  <2>1. /\ source' = source /\ settled' = settled /\ actual' = actual
        /\ refundStep' = refundStep /\ fee' = fee
    BY <1>2 DEF PreConsumeFunding
  <2>2. /\ ChargePhase(r) = "held" /\ ~settled[r] /\ refundStep[r] = "none"
        /\ fee[r] = 0 /\ source[r] # "none"
    BY <1>2, OnHold DEF IInv, PreConsumeFunding, RequestInv, ControlInv
  <2>3. charged'[r] \in Nat /\ actual[r] \in Nat
    BY RequestTypes, IInv' DEF IInv, TypeOK, AmountsNat
  <2> QED
    BY <1>1, <2>1, <2>2, <2>3 DEF StepOf, Allowed, Holds, ChargePhase, Amount
<1>3. CASE ~PreConsumeFunding(r)
  <2>1. CASE pc[r] \in Opening \cup TokenStage
    <3>1. /\ settled' = settled /\ refundStep' = refundStep /\ fee' = fee
          /\ charged' = charged /\ actual' = actual
      BY <1>3 DEF Open, StartRequest, OpenSession, ChooseSource, TryWallet,
         PreConsumeToken, RollbackToken
    <3> QED
      BY <1>1, <2>1, <3>1, Opens DEF StepOf, Allowed
  <2>2. CASE pc[r] = "attempt"
    <3>1. OpenSession(r)
      BY <1>3, <2>2 DEF Open, StartRequest, ChooseSource, TryWallet,
         PreConsumeToken, RollbackToken
    <3> QED
      BY <1>1, <3>1, Untouched DEF OpenSession, StepOf, Allowed
  <2> QED
    BY <1>3, <2>1, <2>2 DEF Open, StartRequest, OpenSession, ChooseSource,
       TryWallet, PreConsumeToken, RollbackToken
<1> QED
  BY <1>2, <1>3

\* Reserve and the attempts: the hold grows or shrinks, the cost is found out.
LEMMA AttemptAllowed ==
    ASSUME IInv, IInv', NEW r \in Requests, Attempt(r)
    PROVE  StepOf(r)
<1>1. ASSUME NEW s \in Requests \ {r} PROVE Stays(s)
  BY Untouched DEF IInv, TypeOK, Attempt, ReserveFunding, ReserveToken,
     RollbackFundingReserve, SendUpstream, UpstreamFails, UpstreamAnswers,
     Abandon, SkipTaskReserve, InsertTask
<1>2. /\ charged'[r] \in Nat /\ fee'[r] \in Nat /\ actual'[r] \in Nat
      /\ charged[r] \in Nat /\ actual[r] \in Nat
  BY RequestTypes, Bounds, IInv' DEF IInv, TypeOK, AmountsNat
<1>3. CASE ReserveFunding(r) \/ RollbackFundingReserve(r)
  <2>1. /\ source' = source /\ settled' = settled /\ actual' = actual
        /\ refundStep' = refundStep /\ fee' = fee
        /\ source[r] # "none" /\ pc[r] \in Holding \cup {"reserving"}
    BY <1>3 DEF IInv, ReserveFunding, RollbackFundingReserve, ReservePoint,
       RequestInv, ControlInv
  <2>2. /\ ChargePhase(r) = "held" /\ ~settled[r] /\ refundStep[r] = "none"
        /\ fee[r] = 0
    BY <2>1, OnHold
  <2> QED
    BY <1>1, <1>2, <2>1, <2>2 DEF StepOf, Allowed, Holds, ChargePhase, Amount
<1>4. CASE UpstreamAnswers(r)
  <2>1. /\ source' = source /\ settled' = settled /\ charged' = charged
        /\ refundStep' = refundStep /\ fee' = fee /\ pc[r] \in Holding
    BY <1>4 DEF UpstreamAnswers
  <2>2. ChargePhase(r) = "held" /\ fee[r] = 0
    BY <2>1, OnHold
  <2>3. ChargePhase(r)' = "held"
    BY <2>1, <2>2 DEF ChargePhase
  <2> QED
    BY <1>1, <1>2, <2>1, <2>2, <2>3 DEF StepOf, Allowed, Holds, Amount
<1>5. CASE \/ ReserveToken(r) \/ SendUpstream(r) \/ UpstreamFails(r)
           \/ Abandon(r) \/ SkipTaskReserve(r) \/ InsertTask(r)
  <2>1. /\ source' = source /\ settled' = settled /\ charged' = charged
        /\ refundStep' = refundStep /\ fee' = fee /\ actual' = actual
    BY <1>5 DEF ReserveToken, SendUpstream, UpstreamFails, Abandon,
       SkipTaskReserve, InsertTask
  <2> QED
    BY <1>1, <2>1, Untouched DEF StepOf, Allowed
<1> QED
  BY <1>3, <1>4, <1>5 DEF Attempt

\* Settle commits the cost; a refund that starts, and a fee, do not show.
LEMMA CloseAllowed ==
    ASSUME IInv, IInv', faults' = 0, faults = 0, NEW r \in Requests, Close(r)
    PROVE  StepOf(r)
<1>1. ASSUME NEW s \in Requests \ {r} PROVE Stays(s)
  BY Untouched DEF IInv, TypeOK, Close, Settle, SettleWithoutSession, Finish,
     PanicAfterSettle, Refund, ChargeViolationFee, Adjust, AdjustFails
<1>2. RequestInv(r) /\ AmountsNat(r)
  BY RequestTypes DEF IInv
<1>3. CASE Settle(r)
  <2>1. /\ ChargePhase(r) = "held" /\ fee[r] = 0 /\ refundStep[r] = "none"
        /\ ~settled[r] /\ charged[r] = preConsumedQuota[r]
    BY <1>2, <1>3, OnHold DEF Settle, RequestInv, ControlInv, FundingInv,
       AmountsNat
  <2>2. /\ source' = source /\ refundStep' = refundStep /\ fee' = fee
        /\ actual' = actual /\ source[r] # "none"
    BY <1>3 DEF Settle
  <2>3. CASE settled' = settled /\ charged' = charged
    BY <1>1, <2>2, <2>3, Untouched DEF StepOf, Allowed
  <2>4. CASE /\ settled' = [settled EXCEPT ![r] = TRUE]
             /\ charged' = [charged EXCEPT ![r] =
                              @ + (actual[r] - preConsumedQuota[r])]
    <3>1. settled'[r] /\ charged'[r] = actual[r]
      BY <1>2, <2>1, <2>4 DEF IInv, TypeOK, AmountsNat
    <3>2. Commits(r)
      BY <1>2, <2>1, <2>2, <3>1 DEF AmountsNat, Commits, ChargePhase, Amount
    <3> QED
      BY <1>1, <3>2 DEF StepOf, Allowed
  <2> QED
    BY <1>3, <2>3, <2>4 DEF Settle, Adjust, AdjustFails
<1>4. CASE SettleWithoutSession(r)
  <2>1. /\ ChargePhase(r) = "held" /\ fee[r] = 0 /\ refundStep[r] = "none"
        /\ ~settled[r] /\ charged[r] = 0 /\ source[r] = "none"
    BY <1>2, <1>4, OnHold DEF SettleWithoutSession
  <2>2. /\ source' = source /\ refundStep' = refundStep /\ fee' = fee
        /\ actual' = actual /\ settled' = settled
    BY <1>4 DEF SettleWithoutSession
  <2>3. CASE charged' = charged
    BY <1>1, <2>2, <2>3, Untouched DEF StepOf, Allowed
  <2>4. CASE charged' = [charged EXCEPT ![r] = @ + actual[r]]
    <3>1. charged'[r] = actual[r]
      BY <1>2, <2>1, <2>4 DEF IInv, TypeOK, AmountsNat
    <3>2. Commits(r) \/ Stays(r)
      BY <1>2, <2>1, <2>2, <3>1 DEF AmountsNat, Commits, Stays, ChargePhase,
         Amount
    <3> QED
      BY <1>1, <3>2 DEF StepOf, Allowed
  <2> QED
    BY <1>4, <2>3, <2>4 DEF SettleWithoutSession, Adjust, AdjustFails
<1>5. CASE Finish(r) \/ PanicAfterSettle(r)
  BY <1>1, <1>5, Untouched DEF Finish, PanicAfterSettle, StepOf, Allowed
<1>6. CASE Refund(r)
  <2>1. /\ source' = source /\ settled' = settled /\ charged' = charged
        /\ fee' = fee /\ actual' = actual
    BY <1>6 DEF Refund
  <2>2. refundStep'[r] = refundStep[r] \/ (/\ refundStep[r] = "none"
                                           /\ refundStep'[r] = "funding")
    BY <1>2, <1>6 DEF IInv, TypeOK, Refund, NeedsRefund, RequestInv, ControlInv
  <2>3. Stays(r)
    BY <2>1, <2>2 DEF Stays, ChargePhase, Amount
  <2> QED
    BY <1>1, <2>3 DEF StepOf, Allowed
<1>7. CASE ChargeViolationFee(r)
  <2>1. /\ source' = source /\ settled' = settled /\ actual' = actual
        /\ refundStep' = refundStep /\ fee[r] = 0
    BY <1>2, <1>7 DEF ChargeViolationFee, RequestInv, ControlInv
  <2>2. CASE charged' = charged /\ fee' = fee
    BY <1>1, <2>1, <2>2, Untouched DEF StepOf, Allowed
  <2>3. ASSUME NEW q \in ViolationFees,
               charged' = [charged EXCEPT ![r] = @ + q],
               fee' = [fee EXCEPT ![r] = q]
        PROVE  StepOf(r)
    <3>1. charged'[r] = charged[r] + q /\ fee'[r] = q /\ q \in Nat
      BY <2>3, Bounds DEF IInv, TypeOK
    <3>2. Stays(r)
      BY <1>2, <2>1, <3>1 DEF AmountsNat, Stays, ChargePhase, Amount
    <3> QED
      BY <1>1, <3>2 DEF StepOf, Allowed
  <2> QED
    BY <1>7, <2>2, <2>3 DEF ChargeViolationFee, Adjust, AdjustFails
<1> QED
  BY <1>3, <1>4, <1>5, <1>6, <1>7 DEF Close

\* The refund goroutine releases the hold with its last write to the funding
\* source.
LEMMA RefundAllowed ==
    ASSUME IInv, IInv', NothingLost', Faultless', NEW r \in Requests,
           RefundAsync(r)
    PROVE  StepOf(r)
<1>1. ASSUME NEW s \in Requests \ {r} PROVE Stays(s)
  BY Untouched DEF IInv, TypeOK, RefundAsync, RefundFunding, RefundExtra,
     RefundToken
<1>2. /\ ~settled[r] /\ source[r] # "none"
      /\ source' = source /\ settled' = settled /\ actual' = actual
      /\ fee' = fee
  BY DEF IInv, RequestInv, ControlInv, RefundAsync, RefundFunding, RefundExtra,
     RefundToken
<1>3. /\ RequestInv(r)' /\ ~lost'[r] /\ info'[r].kind # "image"
      /\ fee'[r] \in Nat /\ charged'[r] \in Nat /\ actual[r] \in Nat
      /\ extraReserved'[r] \in Nat
  BY IInv', RequestTypes, Bounds DEF IInv, TypeOK, AmountsNat, NothingLost,
     Faultless
<1>4. CASE refundStep[r] \in {"funding", "extra"} /\ refundStep'[r] = "token"
  <2>1. charged'[r] = fee'[r]
    BY <1>3, <1>4 DEF RequestInv, FundingInv, Exact
  <2> QED
    BY <1>1, <1>2, <1>3, <1>4, <2>1 DEF StepOf, Allowed, Releases, ChargePhase,
       Amount
<1>5. CASE refundStep[r] = "funding" /\ refundStep'[r] = "extra"
  <2>1. charged'[r] >= extraReserved'[r] + fee'[r]
    BY <1>3, <1>5 DEF RequestInv, FundingInv
  <2> QED
    BY <1>1, <1>2, <1>3, <1>5, <2>1 DEF StepOf, Allowed, Holds, ChargePhase,
       Amount
<1>6. CASE RefundToken(r)
  <2>1. /\ refundStep[r] = "token" /\ refundStep'[r] = "done"
        /\ charged' = charged
    BY <1>6 DEF IInv, TypeOK, RefundToken
  <2>2. Stays(r)
    BY <1>2, <2>1 DEF Stays, ChargePhase, Amount
  <2> QED
    BY <1>1, <2>2 DEF StepOf, Allowed
<1> QED
  BY <1>4, <1>5, <1>6 DEF IInv, TypeOK, RefundAsync, RefundFunding, RefundExtra

-----------------------------------------------------------------------------
(* The refinement.                                                         *)

\* A charge is only lost by a ledger write that fails.
LEMMA NothingLostInv ==
    ASSUME IInv, NothingLost, [Next]_vars
    PROVE  NothingLost'
<1> SUFFICES ASSUME faults' = 0 PROVE \A r \in Requests : ~lost'[r]
  BY DEF NothingLost
<1>1. faults \in Nat
  BY Bounds DEF IInv, TypeOK
<1>2. ASSUME NEW r \in Requests,
             Open(r) \/ Attempt(r) \/ Close(r) \/ RefundAsync(r)
      PROVE  faults = 0 /\ lost' = lost
  <2>1. CASE Open(r)
    BY <1>1, <2>1 DEF Open, StartRequest, OpenSession, ChooseSource, TryWallet,
       PreConsumeToken, PreConsumeFunding, RollbackToken, Succeeds, Fails
  <2>2. CASE Attempt(r)
    <3>1. CASE RollbackFundingReserve(r)
      BY <1>1, <3>1 DEF RollbackFundingReserve
    <3>2. CASE ~RollbackFundingReserve(r)
      BY <1>1, <2>2, <3>2 DEF Attempt, ReserveFunding, ReserveToken,
         SendUpstream, UpstreamFails, UpstreamAnswers, Abandon,
         SkipTaskReserve, InsertTask, Succeeds, Fails
    <3> QED
      BY <3>1, <3>2
  <2>3. CASE Close(r)
    BY <1>1, <2>3 DEF Close, Settle, SettleWithoutSession, Finish,
       PanicAfterSettle, Refund, ChargeViolationFee, Adjust, AdjustFails,
       Succeeds, Fails
  <2>4. CASE RefundAsync(r)
    BY <1>1, <2>4 DEF RefundAsync, RefundFunding, RefundExtra, RefundToken,
       Succeeds, Fails
  <2> QED
    BY <1>2, <2>1, <2>2, <2>3, <2>4
<1>3. CASE ExpireSubscription \/ Terminated \/ UNCHANGED vars
  BY <1>3 DEF NothingLost, ExpireSubscription, Terminated, vars
<1> QED
  BY <1>2, <1>3 DEF Next, NothingLost

\* No request holds anything before it starts.
LEMMA InitRefines ==
    Init => Charge!Init
<1> SUFFICES ASSUME Init PROVE Charge!Init
  OBVIOUS
<1>1. \A r \in Requests : ChargePhase(r) = "held" /\ charged[r] - fee[r] = 0
  BY DEF Init, ChargePhase
<1> QED
  BY <1>1 DEF Init, Charge!Init

\* Every step of the billing is a step of RequestCharge, or no step of it.
LEMMA StepRefines ==
    ASSUME IInv, IInv', NothingLost', Faultless, Faultless', [Next]_vars
    PROVE  [Charge!Next]_<<[r \in Requests |-> ChargePhase(r)],
                           [r \in Requests |-> charged[r] - fee[r]], actual>>
<1>1. ASSUME NEW r \in Requests,
             Open(r) \/ Attempt(r) \/ Close(r) \/ RefundAsync(r)
      PROVE  StepOf(r)
  BY <1>1, OpenAllowed, AttemptAllowed, CloseAllowed, RefundAllowed
     DEF Faultless
<1>2. CASE ExpireSubscription \/ Terminated \/ UNCHANGED vars
  BY <1>2 DEF ExpireSubscription, Terminated, vars, ChargePhase
<1> QED
  BY <1>1, <1>2, Lifted DEF Next

\* While every ledger write succeeds, and images apart, each request's charge
\* is put on hold, adjusted, and then committed at its cost or released, once:
\* no interleaving of Reserve, Settle, Refund and the refund goroutine changes
\* a final charge.
THEOREM ChargeRefined ==
    Spec /\ []Faultless => ImplementsRequestCharge
<1>1. Init => NothingLost
  BY DEF Init, NothingLost
<1>2. IInv /\ NothingLost /\ [Next]_vars => NothingLost'
  BY NothingLostInv
<1>3. Spec => []NothingLost
  BY <1>1, <1>2, Accounting, PTL DEF Spec
<1>4. IInv /\ IInv' /\ NothingLost' /\ Faultless /\ Faultless' /\ [Next]_vars =>
        [Charge!Next]_<<[r \in Requests |-> ChargePhase(r)],
                        [r \in Requests |-> charged[r] - fee[r]], actual>>
  BY StepRefines
<1> QED
  BY <1>3, <1>4, InitRefines, Accounting, PTL
     DEF Spec, ImplementsRequestCharge, Charge!Spec
=============================================================================
