---------------------------- MODULE RequestCharge ----------------------------
(***************************************************************************)
(* What the billing of a request promises its user, whatever the relay,    *)
(* the retries and the funding source do: an amount is put on hold, the    *)
(* hold may grow or shrink while the cost is being found out, and then the *)
(* hold is either committed as the cost of the request or released.  A     *)
(* committed or a released charge is final.                                *)
(***************************************************************************)
EXTENDS Integers

CONSTANTS Requests
VARIABLES phase, amount, cost

Phases == {"held", "committed", "released"}

Init ==
    /\ phase = [r \in Requests |-> "held"]
    /\ amount = [r \in Requests |-> 0]
    /\ cost = [r \in Requests |-> 0]

\* Only the entry of r changes, to some natural number.
Updates(f, r) == f'[r] \in Nat /\ f' = [f EXCEPT ![r] = f'[r]]

\* The hold of an open request, or what it is known to cost, is adjusted.
Hold(r) ==
    /\ phase[r] = "held"
    /\ Updates(amount, r) /\ Updates(cost, r)
    /\ UNCHANGED phase

\* The request is charged its cost.
Commit(r) ==
    /\ phase[r] = "held"
    /\ phase' = [phase EXCEPT ![r] = "committed"]
    /\ amount' = [amount EXCEPT ![r] = cost[r]]
    /\ UNCHANGED cost

\* The request failed and nothing is charged.
Release(r) ==
    /\ phase[r] = "held"
    /\ phase' = [phase EXCEPT ![r] = "released"]
    /\ amount' = [amount EXCEPT ![r] = 0]
    /\ UNCHANGED cost

Next == \E r \in Requests : Hold(r) \/ Commit(r) \/ Release(r)
Spec == Init /\ [][Next]_<<phase, amount, cost>>
==============================================================================
