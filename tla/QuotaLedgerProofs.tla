------------------------- MODULE QuotaLedgerProofs -------------------------
(***************************************************************************)
(* Proofs about QuotaLedger, for any finite set of operations, any         *)
(* amounts, and any number of failures and restarts.                       *)
(*                                                                         *)
(* The invariant has four parts.  ControlInv says what an operation may    *)
(* carry at each point.  ResultsMatchBooks is inductive next to it: every  *)
(* step moves the store and the set of booked operations together.         *)
(* CacheInv writes the cache as the books plus the leads of the operations *)
(* under way, so that one step changes one lead.  CoveredInv says why no   *)
(* reservation overdraws: what reservations have taken from the cache and  *)
(* not written yet is held against the books, and a lead is never above    *)
(* what its operation holds.                                               *)
(***************************************************************************)
EXTENDS QuotaLedger, SumTheorems

\* The operations and what each carries, with the delta it adds to the books.
OpTypeOK ==
    /\ op \in [Ops -> AllOpTypes]
    /\ amount \in [Ops -> Nat \ {0}]
    /\ snapshot \in [Ops -> Int]
    /\ async \in [Ops -> Int]
    /\ faults \in Nat /\ crashes \in Nat

\* Where an operation is says which operation it is, whether it has returned,
\* and whether Redis is in use.
PointInv(o) ==
    /\ pc[o] \in {"retry", "hydrate", "persist", "compensate", "db"} =>
          op[o] = "reserve"
    /\ pc[o] = "populate" => op[o] \in {"reserve", "read"}
    /\ pc[o] = "write" => op[o] = "decrease"
    /\ pc[o] = "sync" => op[o] \in {"credit", "override"} /\ Booked(o)
    /\ pc[o] \notin {"sync", "done", "dead"} => result[o] = "none"
    /\ pc[o] \in {"hydrate", "retry", "populate", "persist"} => mode.redis
    /\ pc[o] = "compensate" => faults > 0

\* The delta is the amount with the sign of the operation; a goroutine carries
\* it only for a refund or a settlement, and without failures only for one
\* that is booked or still to be.
DeltaInv(o) ==
    /\ op[o] \in {"reserve", "decrease"} => delta[o] = -amount[o]
    /\ op[o] \in {"increase", "credit"} => delta[o] = amount[o]
    /\ async[o] # 0 => /\ op[o] \in {"increase", "decrease"} /\ mode.redis
                       /\ pc[o] \in {"write", "done"}
                       /\ faults = 0 => pc[o] = "write" \/ Booked(o)

\* The hash lives only with Redis, and only a failure or a restart drops.
StoreInv ==
    /\ cache # NoEntry => mode.redis
    /\ faults = 0 /\ crashes = 0 => dropped = 0

\* What the operations carry, at each point of each of them.
ControlInv ==
    /\ TypeOK
    /\ OpTypeOK
    /\ \A o \in Ops : PointInv(o) /\ DeltaInv(o)
    /\ StoreInv

\* No operation has started: nothing is carried.
LEMMA ControlInit == Init => ControlInv
<1> SUFFICES ASSUME Init PROVE ControlInv
  OBVIOUS
<1> USE LedgerAssumption
<1>1. op \in [Ops -> AllOpTypes] /\ amount \in [Ops -> Nat \ {0}]
  BY DEF Init
<1>2. \A o \in Ops :
        delta[o] = (CASE op[o] \in {"reserve", "decrease"} -> -amount[o]
                      [] op[o] \in {"increase", "credit"}  -> amount[o]
                      [] OTHER                             -> 0)
  BY DEF Init
<1>3. delta \in [Ops -> Int]
  BY <1>1, <1>2 DEF Init
<1>4. TypeOK
  BY <1>3 DEF Init, TypeOK, Points
<1>5. OpTypeOK
  BY <1>1 DEF Init, OpTypeOK
<1>6. ASSUME NEW o \in Ops PROVE PointInv(o) /\ DeltaInv(o)
  BY <1>1, <1>2 DEF Init, PointInv, DeltaInv
<1>7. StoreInv
  BY DEF Init, StoreInv
<1> QED BY <1>4, <1>5, <1>6, <1>7 DEF ControlInv

\* Each action takes an operation to a point it may be at, and keeps the sign
\* of its delta.
LEMMA ControlStep == ControlInv /\ [Next]_vars => ControlInv'
<1> SUFFICES ASSUME ControlInv, [Next]_vars PROVE ControlInv'
  OBVIOUS
<1> USE LedgerAssumption DEF ControlInv, TypeOK, OpTypeOK, PointInv, DeltaInv,
        StoreInv, Booked, Points
<1>1. ASSUME NEW o \in Ops, CacheReserve(o) PROVE ControlInv'
  BY <1>1 DEF CacheReserve, Goto, Return, Succeeds, Fails, CacheSufficient
<1>2. ASSUME NEW o \in Ops, ReserveDB(o) PROVE ControlInv'
  BY <1>2 DEF ReserveDB, Goto, Return, Succeeds, Fails
<1>3. ASSUME NEW o \in Ops, HydrateRead(o) PROVE ControlInv'
  BY <1>3 DEF HydrateRead, Goto, Succeeds, Fails, storeVars
<1>4. ASSUME NEW o \in Ops, Populate(o) PROVE ControlInv'
  BY <1>4 DEF Populate, Publish, Goto, Succeeds, Fails
<1>5. ASSUME NEW o \in Ops, Persist(o) PROVE ControlInv'
  BY <1>5 DEF Persist, WriteBooks, Goto, Return, Succeeds, Fails
<1>6. ASSUME NEW o \in Ops, Compensate(o) PROVE ControlInv'
  BY <1>6 DEF Compensate, CacheDelta, Goto, Return, Succeeds, Fails
<1>7. ASSUME NEW o \in Ops, IncreaseUserQuota(o) PROVE ControlInv'
  BY <1>7 DEF IncreaseUserQuota, WriteBooks, Goto, Return, Succeeds, Fails
<1>8. ASSUME NEW o \in Ops, DecreaseUserQuota(o) PROVE ControlInv'
  BY <1>8 DEF DecreaseUserQuota, Goto, storeVars, histVars
<1>9. ASSUME NEW o \in Ops, DecreaseWrite(o) PROVE ControlInv'
  BY <1>9 DEF DecreaseWrite, WriteBooks, Goto, Return, Succeeds, Fails
<1>10. ASSUME NEW o \in Ops, ApplyAsync(o) PROVE ControlInv'
  BY <1>10 DEF ApplyAsync, CacheDelta, Succeeds, Fails
<1>11. ASSUME NEW o \in Ops, CommitCredit(o) PROVE ControlInv'
  BY <1>11 DEF CommitCredit, Goto, Return, Succeeds, Fails
<1>12. ASSUME NEW o \in Ops, SyncCredit(o) PROVE ControlInv'
  BY <1>12 DEF SyncCredit, CacheDelta, Goto, Succeeds, Fails
<1>13. CASE BatchTake
  BY <1>13 DEF BatchTake, opVars, histVars
<1>14. CASE BatchWrite
  BY <1>14 DEF BatchWrite, Succeeds, Fails, opVars
<1>15. CASE Expire
  BY <1>15 DEF Expire, opVars, histVars
<1>16. CASE Crash
  BY <1>16 DEF Crash
<1>17. CASE UNCHANGED vars
  BY <1>17 DEF vars, opVars, storeVars, histVars
<1> QED
  BY <1>1, <1>2, <1>3, <1>4, <1>5, <1>6, <1>7, <1>8, <1>9, <1>10, <1>11,
     <1>12, <1>13, <1>14, <1>15, <1>16, <1>17 DEF Next, Step, Terminated

-----------------------------------------------------------------------------
(* The books.                                                              *)

\* The operations that have changed the balance.
BookedOps == {o \in Ops : Booked(o)}

\* The books are an integer: the initial quota plus a finite sum.
LEMMA BooksType ==
    ASSUME TypeOK
    PROVE  /\ IsFiniteSet(BookedOps)
           /\ Books = InitialQuota + SumFunctionOnSet(delta, BookedOps)
           /\ Books \in Int
<1>1. IsFiniteSet(BookedOps)
  BY LedgerAssumption, FS_Subset DEF BookedOps
<1>2. SumFunctionOnSet(delta, BookedOps) \in Int
  BY <1>1, SumType DEF TypeOK, BookedOps
<1>3. Books = InitialQuota + SumFunctionOnSet(delta, BookedOps)
  BY DEF Books, BookedOps
<1> QED BY <1>1, <1>2, <1>3, LedgerAssumption

\* The same after a step.
LEMMA NextBooksType ==
    ASSUME TypeOK'
    PROVE  Books' \in Int
<1>1. IsFiniteSet(BookedOps')
  BY LedgerAssumption, FS_Subset DEF BookedOps
<1>2. SumFunctionOnSet(delta', BookedOps') \in Int
  BY <1>1, SumType DEF TypeOK, BookedOps
<1>3. Books' = InitialQuota + SumFunctionOnSet(delta', BookedOps')
  BY DEF Books, BookedOps
<1> QED BY <1>1, <1>2, <1>3, LedgerAssumption

\* A step that books nothing leaves the books alone.
LEMMA NotBooked ==
    ASSUME TypeOK, TypeOK', delta' = delta,
           \A o \in Ops : Booked(o)' <=> Booked(o)
    PROVE  Books' = Books
<1>1. BookedOps' = BookedOps
  BY DEF BookedOps
<1> QED BY <1>1 DEF Books, BookedOps

\* Booking an operation adds its delta, once.
LEMMA BookedOnce ==
    ASSUME TypeOK, TypeOK', NEW o \in Ops, ~Booked(o),
           result' = [result EXCEPT ![o] = "ok"],
           \A p \in Ops \ {o} : delta'[p] = delta[p]
    PROVE  Books' = Books + delta'[o]
<1> DEFINE B == BookedOps
<1>1. BookedOps' = B \cup {o} /\ o \notin B /\ B \subseteq Ops
  BY DEF BookedOps, Booked, TypeOK
<1>2. IsFiniteSet(B) /\ Books = InitialQuota + SumFunctionOnSet(delta, B)
  BY BooksType
<1>3. Books' = InitialQuota + SumFunctionOnSet(delta', B \cup {o})
  BY <1>1 DEF Books, BookedOps
<1> HIDE DEF B
<1>4. SumFunctionOnSet(delta', B \cup {o})
        = delta'[o] + SumFunctionOnSet(delta', B)
  BY <1>1, <1>2, SumAdd DEF TypeOK
<1>5. SumFunctionOnSet(delta', B) = SumFunctionOnSet(delta, B)
  BY <1>1, <1>2, SumSame
<1>6. SumFunctionOnSet(delta, B) \in Int
  BY <1>1, <1>2, SumType DEF TypeOK
<1> QED BY <1>2, <1>3, <1>4, <1>5, <1>6, LedgerAssumption DEF TypeOK

\* The books start with the initial quota.
LEMMA BooksInit == Init => Books = InitialQuota
<1> SUFFICES ASSUME Init PROVE Books = InitialQuota
  OBVIOUS
<1>1. BookedOps = {}
  BY DEF Init, BookedOps, Booked
<1>2. SumFunctionOnSet(delta, {}) = 0
  BY SumEmpty
<1>3. Books = InitialQuota + SumFunctionOnSet(delta, BookedOps)
  BY ControlInit, BooksType DEF ControlInv
<1> QED BY <1>1, <1>2, <1>3, LedgerAssumption

\* The steps on the cache alone: neither the books nor the store move.
LEMMA BooksUnmoved ==
    ASSUME ControlInv, ControlInv', NEW o \in Ops,
           \/ CacheReserve(o) \/ HydrateRead(o) \/ Populate(o)
           \/ Compensate(o) \/ DecreaseUserQuota(o) \/ ApplyAsync(o)
           \/ SyncCredit(o)
    PROVE  Books' = Books /\ UNCHANGED <<quota, pending, flushing, dropped>>
<1> USE DEF ControlInv
<1>1. /\ UNCHANGED <<quota, pending, flushing, dropped>> /\ delta' = delta
      /\ \A p \in Ops : Booked(p)' <=> Booked(p)
  BY DEF CacheReserve, HydrateRead, Populate, Compensate, DecreaseUserQuota,
         ApplyAsync, SyncCredit, Return, Goto, Booked, storeVars, histVars,
         TypeOK, PointInv
<1> QED BY <1>1, NotBooked

\* A step that writes the store books its operation and moves quota and queue
\* by its delta, or it does neither.
LEMMA BooksMoved ==
    ASSUME ControlInv, ControlInv', NEW o \in Ops,
           \/ ReserveDB(o) \/ Persist(o) \/ IncreaseUserQuota(o)
           \/ DecreaseWrite(o) \/ CommitCredit(o)
    PROVE  /\ \/ ~Booked(o) /\ Booked(o)' /\ Books' = Books + delta'[o]
                 /\ quota' + pending' = quota + pending + delta'[o]
              \/ Booked(o)' = Booked(o) /\ Books' = Books
                 /\ UNCHANGED <<quota, pending, delta>>
           /\ UNCHANGED <<flushing, dropped>>
<1> USE DEF ControlInv
<1>1. ~Booked(o)
  BY DEF ReserveDB, Persist, IncreaseUserQuota, DecreaseWrite, CommitCredit,
         PointInv, Booked
<1>2. UNCHANGED <<flushing, dropped>>
  BY DEF ReserveDB, Persist, IncreaseUserQuota, DecreaseWrite, CommitCredit
<1>3. \/ /\ result' = [result EXCEPT ![o] = "ok"]
         /\ \A p \in Ops \ {o} : delta'[p] = delta[p]
         /\ quota' + pending' = quota + pending + delta'[o]
      \/ UNCHANGED <<quota, pending, delta>> /\ Booked(o)' = Booked(o)
         /\ \A p \in Ops : Booked(p)' <=> Booked(p)
  <2>1. CASE ReserveDB(o)
    BY <1>1, <2>1 DEF ReserveDB, Return, Goto, Booked, TypeOK, OpTypeOK, DeltaInv
  <2>2. CASE Persist(o)
    BY <1>1, <2>2 DEF Persist, WriteBooks, Return, Goto, Booked, TypeOK, OpTypeOK,
                DeltaInv, PointInv
  <2>3. CASE IncreaseUserQuota(o)
    BY <1>1, <2>3 DEF IncreaseUserQuota, WriteBooks, Return, Goto, Booked, TypeOK,
                OpTypeOK, DeltaInv
  <2>4. CASE DecreaseWrite(o)
    BY <1>1, <2>4 DEF DecreaseWrite, WriteBooks, Return, Goto, Booked, TypeOK,
                OpTypeOK, DeltaInv, PointInv
  <2>5. CASE CommitCredit(o)
    BY <1>1, <2>5 DEF CommitCredit, Return, Goto, Booked, TypeOK, OpTypeOK
  <2> QED BY <2>1, <2>2, <2>3, <2>4, <2>5
<1>4. CASE /\ result' = [result EXCEPT ![o] = "ok"]
           /\ \A p \in Ops \ {o} : delta'[p] = delta[p]
           /\ quota' + pending' = quota + pending + delta'[o]
  <2>1. Books' = Books + delta'[o]
    BY <1>1, <1>4, BookedOnce
  <2>2. Booked(o)'
    BY <1>4 DEF Booked, TypeOK
  <2> QED BY <1>1, <1>2, <1>4, <2>1, <2>2
<1>5. CASE UNCHANGED <<quota, pending, delta>> /\ Booked(o)' = Booked(o)
           /\ \A p \in Ops : Booked(p)' <=> Booked(p)
  <2>1. Books' = Books
    BY <1>5, NotBooked
  <2> QED BY <1>2, <1>5, <2>1
<1> QED BY <1>3, <1>4, <1>5

\* The batch updater, an expiry and a restart book nothing.
LEMMA BooksElsewhere ==
    ASSUME ControlInv, ControlInv',
           \/ BatchTake \/ BatchWrite \/ Expire \/ Crash \/ UNCHANGED vars
    PROVE  Books' = Books
<1>1. delta' = delta /\ result' = result
  BY DEF BatchTake, BatchWrite, Expire, Crash, vars, opVars
<1> QED BY <1>1, NotBooked DEF ControlInv, Booked

\* Store, queue, batch and losses together move as the books do.
LEMMA BooksStep ==
    ControlInv /\ ControlInv' /\ ResultsMatchBooks /\ [Next]_vars
        => ResultsMatchBooks'
<1> SUFFICES ASSUME ControlInv, ControlInv', ResultsMatchBooks, [Next]_vars
             PROVE  ResultsMatchBooks'
  OBVIOUS
<1>0. Books \in Int /\ Books' \in Int
  BY BooksType, NextBooksType DEF ControlInv
<1>1. ASSUME NEW o \in Ops,
             \/ CacheReserve(o) \/ HydrateRead(o) \/ Populate(o)
             \/ Compensate(o) \/ DecreaseUserQuota(o) \/ ApplyAsync(o)
             \/ SyncCredit(o)
      PROVE  ResultsMatchBooks'
  BY <1>1, BooksUnmoved DEF ResultsMatchBooks
<1>2. ASSUME NEW o \in Ops,
             \/ ReserveDB(o) \/ Persist(o) \/ IncreaseUserQuota(o)
             \/ DecreaseWrite(o) \/ CommitCredit(o)
      PROVE  ResultsMatchBooks'
  <2>1. /\ \/ Books' = Books + delta'[o]
                 /\ quota' + pending' = quota + pending + delta'[o]
           \/ Books' = Books /\ UNCHANGED <<quota, pending, delta>>
        /\ UNCHANGED <<flushing, dropped>>
    BY <1>2, BooksMoved
  <2>2. /\ quota \in Int /\ pending \in Int /\ flushing \in Int /\ dropped \in Int
        /\ quota' \in Int /\ pending' \in Int /\ delta'[o] \in Int
    BY DEF ControlInv, TypeOK
  <2>3. quota + pending + flushing + dropped = Books
    BY DEF ResultsMatchBooks
  <2>4. quota' + pending' + flushing' + dropped' = Books'
    <3>1. CASE Books' = Books /\ UNCHANGED <<quota, pending, delta>>
      BY <2>1, <2>3, <3>1
    <3>2. CASE /\ Books' = Books + delta'[o]
               /\ quota' + pending' = quota + pending + delta'[o]
      BY <1>0, <2>1, <2>2, <2>3, <3>2
    <3> QED BY <2>1, <3>1, <3>2
  <2> QED BY <2>4 DEF ResultsMatchBooks
<1>3. CASE BatchTake \/ BatchWrite \/ Expire \/ Crash \/ UNCHANGED vars
  <2>1. Books' = Books
    BY <1>3, BooksElsewhere
  <2>2. quota' + pending' + flushing' + dropped'
          = quota + pending + flushing + dropped
    BY <1>3 DEF BatchTake, BatchWrite, Succeeds, Fails, Expire, Crash, vars,
                opVars, storeVars, histVars, ControlInv, TypeOK
  <2> QED BY <2>1, <2>2 DEF ResultsMatchBooks
<1> QED BY <1>1, <1>2, <1>3 DEF Next, Step, Terminated

-----------------------------------------------------------------------------
(* The cache.                                                              *)

\* What each operation has moved in the cache and not in the store, or the
\* other way round.
Leads == [o \in Ops |-> Lead(o)]

LeadSum == SumFunctionOnSet(Leads, Ops)

\* The sum the property is stated with.
LEMMA LeadSumIs == SumFunction([o \in Ops |-> Lead(o)]) = LeadSum
BY DEF SumFunction, LeadSum, Leads

\* The leads are integers, and so is their sum.
LEMMA LeadType ==
    ASSUME ControlInv
    PROVE  /\ \A o \in Ops : Lead(o) \in Int
           /\ Leads \in [Ops -> Int] /\ LeadSum \in Int
<1>1. \A o \in Ops : Lead(o) \in Int
  BY DEF ControlInv, TypeOK, OpTypeOK, Lead
<1>2. Leads \in [Ops -> Int]
  BY <1>1 DEF Leads
<1> QED BY <1>1, <1>2, LedgerAssumption, SumType DEF LeadSum

\* The same after a step.
LEMMA NextLeadType ==
    ASSUME ControlInv'
    PROVE  /\ \A o \in Ops : Lead(o)' \in Int
           /\ Leads' \in [Ops -> Int] /\ LeadSum' \in Int
<1>1. \A o \in Ops : Lead(o)' \in Int
  BY DEF ControlInv, TypeOK, OpTypeOK, Lead
<1>2. Leads' \in [Ops -> Int]
  BY <1>1 DEF Leads
<1> QED BY <1>1, <1>2, LedgerAssumption, SumType DEF LeadSum

\* What the others carry does not change in a step of o.
OthersKeep(o) ==
    /\ amount' = amount
    /\ \A p \in Ops \ {o} :
          /\ pc'[p] = pc[p] /\ result'[p] = result[p]
          /\ delta'[p] = delta[p] /\ async'[p] = async[p]

\* A step of one operation changes the sum of the leads by its own.
LEMMA OneLead ==
    ASSUME ControlInv, ControlInv', NEW o \in Ops, OthersKeep(o)
    PROVE  LeadSum' = LeadSum - Lead(o) + Lead(o)'
<1>1. Leads \in [Ops -> Int] /\ Leads' \in [Ops -> Int]
  BY LeadType, NextLeadType
<1>2. \A p \in Ops \ {o} : Leads'[p] = Leads[p]
  BY DEF OthersKeep, Leads, Lead, Booked
<1>3. Leads[o] = Lead(o) /\ Leads'[o] = Lead(o)'
  BY DEF Leads
<1>4. SumFunctionOnSet(Leads', Ops)
        = SumFunctionOnSet(Leads, Ops) - Leads[o] + Leads'[o]
  BY <1>1, <1>2, LedgerAssumption, SumChange
<1> QED BY <1>3, <1>4 DEF LeadSum

\* A step of o leaves what the other operations carry alone.
LEMMA StepKeeps ==
    ASSUME ControlInv, NEW o \in Ops, Step(o) \/ ApplyAsync(o)
    PROVE  OthersKeep(o)
<1> USE DEF OthersKeep, ControlInv, TypeOK, OpTypeOK, Goto, Return
<1>1. CASE CacheReserve(o) \/ ReserveDB(o) \/ HydrateRead(o) \/ Populate(o)
  BY <1>1 DEF CacheReserve, ReserveDB, HydrateRead, Populate
<1>2. CASE Persist(o) \/ Compensate(o) \/ IncreaseUserQuota(o)
           \/ DecreaseUserQuota(o) \/ DecreaseWrite(o)
  BY <1>2 DEF Persist, Compensate, IncreaseUserQuota, DecreaseUserQuota,
              DecreaseWrite
<1>3. CASE CommitCredit(o) \/ SyncCredit(o) \/ ApplyAsync(o)
  BY <1>3 DEF CommitCredit, SyncCredit, ApplyAsync
<1> QED BY <1>1, <1>2, <1>3 DEF Step

\* When the others are at rest and o leads by nothing, nobody leads.
LEMMA LeadsAtRest ==
    ASSUME ControlInv', NEW o \in Ops, \A p \in Ops \ {o} : AtRest(p)',
           Lead(o)' = 0
    PROVE  LeadSum' = 0
<1>1. \A p \in Ops : Leads'[p] = 0
  BY DEF Leads, Lead, AtRest, Booked, ControlInv, TypeOK, OpTypeOK
<1> QED BY <1>1, LedgerAssumption, SumZero DEF LeadSum

\* A cache entry is the books plus the leads.
CacheInv == Undisturbed /\ cache # NoEntry => cache = Books + LeadSum

\* CacheInv is the property CacheTracksBooks.
LEMMA CacheInvIs == CacheInv <=> CacheTracksBooks
BY LeadSumIs DEF CacheInv, CacheTracksBooks

\* A history free of failures, restarts and stale fills after a step was free
\* of them before it.
LEMMA UndisturbedBefore ==
    ASSUME ControlInv, NEW o \in Ops, Step(o) \/ ApplyAsync(o), Undisturbed'
    PROVE  Undisturbed /\ faults' = faults
<1>1. faults = 0 /\ faults' = faults
  BY DEF Undisturbed, Step, CacheReserve, ReserveDB, HydrateRead, Populate,
         Persist, Compensate, IncreaseUserQuota, DecreaseUserQuota,
         DecreaseWrite, CommitCredit, SyncCredit, ApplyAsync, Succeeds, Fails,
         histVars, ControlInv, OpTypeOK
<1>2. Undisturbed
  <2>1. crashes' = crashes
    BY DEF Step, CacheReserve, ReserveDB, HydrateRead, Populate, Persist,
           Compensate, IncreaseUserQuota, DecreaseUserQuota, DecreaseWrite,
           CommitCredit, SyncCredit, ApplyAsync, histVars
  <2>2. CASE ReserveDB(o)
    BY <1>1, <2>1, <2>2 DEF ReserveDB, Undisturbed
  <2>3. CASE Populate(o)
    <3>1. stale => stale'
      BY <2>3 DEF Populate
    <3> QED BY <1>1, <2>1, <3>1 DEF Undisturbed
  <2>4. CASE ~ReserveDB(o) /\ ~Populate(o)
    <3>1. stale' = stale
      BY <2>4 DEF Step, CacheReserve, HydrateRead, Persist, Compensate,
                  IncreaseUserQuota, DecreaseUserQuota, DecreaseWrite,
                  CommitCredit, SyncCredit, ApplyAsync, histVars
    <3> QED BY <1>1, <2>1, <3>1 DEF Undisturbed
  <2> QED BY <2>2, <2>3, <2>4
<1> QED BY <1>1, <1>2

\* A step of an operation moves cache, books and its lead so that they still
\* add up; a fill finds the others at rest and publishes the books.
LEMMA CacheOpStep ==
    ASSUME ControlInv, ControlInv', CacheInv, NEW o \in Ops,
           Step(o) \/ ApplyAsync(o)
    PROVE  CacheInv'
<1> SUFFICES ASSUME Undisturbed', cache' # NoEntry
             PROVE  cache' = Books' + LeadSum'
  BY DEF CacheInv
<1>1. LeadSum' = LeadSum - Lead(o) + Lead(o)'
  BY StepKeeps, OneLead
<1>2. /\ LeadSum \in Int /\ Lead(o) \in Int /\ Lead(o)' \in Int
      /\ Books \in Int /\ Books' \in Int
  BY LeadType, NextLeadType, BooksType, NextBooksType DEF ControlInv
<1>3. faults = 0 /\ faults' = faults
  BY UndisturbedBefore DEF Undisturbed
<1>4. Undisturbed
  BY UndisturbedBefore
<1>5. ~Fails
  BY <1>3 DEF Fails
<1> USE <1>5 DEF ControlInv
<1>6. CASE CacheReserve(o)
  <2>1. Books' = Books
    BY <1>6, BooksUnmoved
  <2>2. Lead(o) = 0
    BY <1>6 DEF CacheReserve, Lead, PointInv, Booked
  <2>3. cache # NoEntry /\ cache' = cache + Lead(o)' /\ cache \in Int
    BY <1>6 DEF CacheReserve, Lead, Booked, Goto, Return, TypeOK, OpTypeOK, PointInv
  <2> QED BY <1>1, <1>2, <1>4, <2>1, <2>2, <2>3 DEF CacheInv
<1>7. CASE ReserveDB(o)
  BY <1>7 DEF ReserveDB, Undisturbed, StoreInv
<1>8. CASE HydrateRead(o)
  <2>1. Books' = Books
    BY <1>8, BooksUnmoved
  <2>2. Lead(o) = 0 /\ Lead(o)' = 0
    BY <1>8 DEF HydrateRead, Lead, PointInv, Booked, Goto, TypeOK
  <2>3. cache' = cache
    BY <1>8 DEF HydrateRead, storeVars
  <2> QED BY <1>1, <1>2, <1>4, <2>1, <2>2, <2>3 DEF CacheInv
<1>9. CASE Populate(o)
  <2>1. Books' = Books
    BY <1>9, BooksUnmoved
  <2>2. Lead(o) = 0 /\ Lead(o)' = 0
    BY <1>9 DEF Populate, Lead, PointInv, Booked, Goto, TypeOK
  <2>3. CASE cache # NoEntry
    <3>1. cache' = cache
      BY <1>9, <2>3 DEF Populate, Publish
    <3> QED BY <1>1, <1>2, <1>4, <2>1, <2>2, <2>3, <3>1 DEF CacheInv
  <2>4. CASE cache = NoEntry
    <3>1. cache' = snapshot[o] /\ snapshot[o] = Books /\ OthersAtRest(o)
      BY <1>9, <2>4 DEF Populate, Publish, Undisturbed
    <3>2. \A p \in Ops \ {o} : AtRest(p)'
      BY <3>1, StepKeeps DEF OthersAtRest, AtRest, OthersKeep
    <3>3. LeadSum' = 0
      BY <2>2, <3>2, LeadsAtRest
    <3> QED BY <1>2, <2>1, <3>1, <3>3
  <2> QED BY <2>3, <2>4
<1>10. CASE Persist(o)
  <2>1. cache' = cache /\ Booked(o)' /\ ~Booked(o)
    BY <1>10 DEF Persist, Return, Goto, Booked, TypeOK, PointInv
  <2>2. Books' = Books + delta'[o]
    BY <1>10, <2>1, BooksMoved
  <2>3. Lead(o) = delta'[o] /\ Lead(o)' = 0
    BY <1>10, <2>1 DEF Persist, Return, Goto, Lead, Booked, TypeOK, OpTypeOK, PointInv,
                DeltaInv
  <2> QED BY <1>1, <1>2, <1>4, <2>1, <2>2, <2>3 DEF CacheInv
<1>11. CASE Compensate(o)
  BY <1>3, <1>11 DEF Compensate, PointInv, OpTypeOK
<1>12. CASE IncreaseUserQuota(o)
  <2>1. cache' = cache /\ ~Booked(o)
    BY <1>12 DEF IncreaseUserQuota, Booked, PointInv
  <2>2. CASE Booked(o)'
    <3>1. Books' = Books + delta'[o]
      BY <1>12, <2>1, <2>2, BooksMoved
    <3>2. Lead(o) = 0
      BY <1>12, <2>1 DEF IncreaseUserQuota, Lead
    <3>3. Lead(o)' = -delta'[o]
      BY <1>12, <2>1, <2>2 DEF IncreaseUserQuota, Return, Goto, Lead, Booked,
         TypeOK, OpTypeOK, DeltaInv, StoreInv
    <3>4. delta'[o] \in Int
      BY DEF TypeOK
    <3> QED BY <1>1, <1>2, <1>4, <2>1, <3>1, <3>2, <3>3, <3>4 DEF CacheInv
  <2>3. CASE ~Booked(o)'
    <3>1. Books' = Books
      BY <1>12, <2>1, <2>3, BooksMoved
    <3>2. Lead(o) = 0
      BY <1>12, <2>1 DEF IncreaseUserQuota, Lead
    <3>3. Lead(o)' = 0
      BY <1>12, <2>1, <2>3 DEF IncreaseUserQuota, Return, Goto, Lead, Booked,
         TypeOK, OpTypeOK
    <3> QED BY <1>1, <1>2, <1>4, <2>1, <3>1, <3>2, <3>3 DEF CacheInv
  <2> QED BY <2>2, <2>3
<1>13. CASE DecreaseUserQuota(o)
  <2>1. Books' = Books
    BY <1>13, BooksUnmoved
  <2>2. cache' = cache
    BY <1>13 DEF DecreaseUserQuota, storeVars
  <2>3. Lead(o) = 0
    BY <1>13 DEF DecreaseUserQuota, Lead, Booked, PointInv
  <2>4. Lead(o)' = 0
    BY <1>13, <2>2 DEF DecreaseUserQuota, Goto, Lead, Booked, PointInv, TypeOK,
                OpTypeOK, StoreInv
  <2> QED BY <1>1, <1>2, <1>4, <2>1, <2>2, <2>3, <2>4 DEF CacheInv
<1>14. CASE DecreaseWrite(o)
  <2>1. cache' = cache /\ ~Booked(o) /\ Booked(o)' /\ async' = async
    BY <1>14 DEF DecreaseWrite, Return, Goto, Booked, PointInv, TypeOK
  <2>2. Books' = Books + delta'[o] /\ delta'[o] = delta[o] /\ delta[o] \in Int
    BY <1>14, <2>1, BooksMoved DEF DecreaseWrite, TypeOK
  <2>3. Lead(o) = IF async[o] = 0 THEN delta[o] ELSE 0
    BY <1>14, <2>1 DEF DecreaseWrite, Lead
  <2>4. Lead(o)' = -async[o]
    BY <1>14, <2>1 DEF DecreaseWrite, Return, Goto, Lead, TypeOK
  <2>5. async[o] \in {0, delta[o]}
    BY DEF TypeOK
  <2> QED BY <1>1, <1>2, <1>4, <2>1, <2>2, <2>3, <2>4, <2>5 DEF CacheInv
<1>15. CASE CommitCredit(o)
  <2>1. cache' = cache /\ ~Booked(o)
    BY <1>15 DEF CommitCredit, Booked, PointInv
  <2>2. Lead(o) = 0
    BY <1>15, <2>1 DEF CommitCredit, Lead
  <2>3. CASE Booked(o)'
    <3>1. Books' = Books + delta'[o]
      BY <1>15, <2>1, <2>3, BooksMoved
    <3>2. pc'[o] = "sync"
      BY <1>15, <2>3 DEF CommitCredit, Return, Goto, Booked, TypeOK
    <3>4. Lead(o)' = -delta'[o]
      BY <3>2 DEF Lead
    <3>3. delta'[o] \in Int
      BY DEF TypeOK
    <3> QED BY <1>1, <1>2, <1>4, <2>1, <2>2, <3>1, <3>3, <3>4 DEF CacheInv
  <2>4. CASE ~Booked(o)'
    <3>1. Books' = Books
      BY <1>15, <2>1, <2>4, BooksMoved
    <3>2. Lead(o)' = 0
      BY <1>15, <2>4 DEF CommitCredit, Return, Goto, Lead, Booked, TypeOK
    <3> QED BY <1>1, <1>2, <1>4, <2>1, <2>2, <3>1, <3>2 DEF CacheInv
  <2> QED BY <2>3, <2>4
<1>16. CASE SyncCredit(o)
  <2>1. Books' = Books
    BY <1>16, BooksUnmoved
  <2>0. pc[o] = "sync" /\ Booked(o) /\ delta[o] \in Int
    BY <1>16 DEF SyncCredit, PointInv, TypeOK
  <2>2. Booked(o) /\ Lead(o) = -delta[o] /\ delta[o] \in Int
    BY <2>0 DEF Lead
  <2>3. Lead(o)' = 0
    BY <1>16, <2>2 DEF SyncCredit, Goto, Lead, Booked, PointInv, DeltaInv, TypeOK
  <2>4. cache # NoEntry /\ cache' = cache + delta[o] /\ cache \in Int
    BY <1>16 DEF SyncCredit, CacheDelta, TypeOK
  <2> QED BY <1>1, <1>2, <1>4, <2>1, <2>2, <2>3, <2>4 DEF CacheInv
<1>17. CASE ApplyAsync(o)
  <2>1. Books' = Books
    BY <1>17, BooksUnmoved
  <2>2. cache # NoEntry /\ cache' = cache + async[o] /\ cache \in Int
    BY <1>17 DEF ApplyAsync, CacheDelta, TypeOK
  <2>3. async[o] = delta[o] /\ async[o] # 0 /\ async'[o] = 0 /\ delta' = delta
        /\ async[o] \in Int /\ pc' = pc /\ result' = result
        /\ (pc[o] = "write" \/ (pc[o] = "done" /\ Booked(o)))
    BY <1>3, <1>17 DEF ApplyAsync, TypeOK, OpTypeOK, DeltaInv
  <2>4. Lead(o)' - Lead(o) = async[o]
    BY <2>3, <1>2 DEF Lead, Booked, PointInv
  <2> QED BY <1>1, <1>2, <1>4, <2>1, <2>2, <2>3, <2>4 DEF CacheInv
<1> QED
  BY <1>6, <1>7, <1>8, <1>9, <1>10, <1>11, <1>12, <1>13, <1>14, <1>15, <1>16,
     <1>17 DEF Step

\* The batch updater and an expiry leave the leads alone.
LEMMA LeadElsewhere ==
    ASSUME ControlInv, ControlInv', crashes' = crashes,
           \/ BatchTake \/ BatchWrite \/ Expire \/ Crash \/ UNCHANGED vars
    PROVE  /\ LeadSum' = LeadSum
           /\ UNCHANGED <<op, amount, pc, result, delta, async, stale>>
           /\ cache' = cache \/ cache' = NoEntry
           /\ faults' = 0 => faults = 0
<1>1. UNCHANGED <<op, amount, pc, result, delta, async, stale>>
  BY DEF BatchTake, BatchWrite, Expire, Crash, vars, opVars, histVars,
         ControlInv, OpTypeOK
<1>2. Leads' = Leads
  BY <1>1 DEF Leads, Lead, Booked
<1>3. /\ cache' = cache \/ cache' = NoEntry
      /\ faults' = 0 => faults = 0
  BY DEF BatchTake, BatchWrite, Expire, Crash, vars, opVars, histVars,
         storeVars, Succeeds, Fails, ControlInv, OpTypeOK
<1> QED BY <1>1, <1>2, <1>3 DEF LeadSum

\* Every step preserves CacheInv.
LEMMA CacheStep ==
    ControlInv /\ ControlInv' /\ CacheInv /\ [Next]_vars => CacheInv'
<1> SUFFICES ASSUME ControlInv, ControlInv', CacheInv, [Next]_vars
             PROVE  CacheInv'
  OBVIOUS
<1>1. ASSUME NEW o \in Ops, Step(o) \/ ApplyAsync(o) PROVE CacheInv'
  BY <1>1, CacheOpStep
<1>2. CASE BatchTake \/ BatchWrite \/ Expire \/ Crash \/ UNCHANGED vars
  <2>1. CASE crashes' # crashes
    <3>1. crashes' # 0
      BY <1>2, <2>1 DEF BatchTake, BatchWrite, Expire, Crash, vars, histVars,
                        ControlInv, OpTypeOK
    <3> QED BY <3>1 DEF CacheInv, Undisturbed
  <2>2. CASE crashes' = crashes
    <3>1. Books' = Books
      BY <1>2, BooksElsewhere
    <3> QED BY <1>2, <2>2, <3>1, LeadElsewhere DEF CacheInv, Undisturbed
  <2> QED BY <2>1, <2>2
<1> QED BY <1>1, <1>2 DEF Next, Terminated

-----------------------------------------------------------------------------
(* Reservations.                                                           *)

\* What reservations have taken from the cache and not written yet.
Held == [o \in Ops |-> IF pc[o] = "persist" THEN -amount[o] ELSE 0]

HeldSum == SumFunctionOnSet(Held, Ops)

\* No settlement and no override, which may take more than there is, is booked.
OnlyCovered == \A o \in Ops : op[o] \in {"decrease", "override"} => ~Booked(o)

\* The books cover what reservations hold and have not written.
CoveredInv == Undisturbed /\ OnlyCovered => Books + HeldSum >= 0

\* What is held is never positive.
LEMMA HeldType ==
    ASSUME ControlInv
    PROVE  Held \in [Ops -> Int] /\ HeldSum \in Int /\ HeldSum <= 0
<1>1. Held \in [Ops -> Int] /\ \A o \in Ops : Held[o] <= 0
  BY DEF ControlInv, OpTypeOK, Held
<1> DEFINE z == [o \in Ops |-> 0]
<1>2. SumFunctionOnSet(z, Ops) = 0
  BY LedgerAssumption, SumZero
<1>3. SumFunctionOnSet(Held, Ops) <= SumFunctionOnSet(z, Ops)
  BY <1>1, LedgerAssumption, SumOrder
<1>4. HeldSum \in Int
  BY <1>1, LedgerAssumption, SumType DEF HeldSum
<1> QED BY <1>1, <1>2, <1>3, <1>4 DEF HeldSum

\* A step of one operation changes what is held by its own part.
LEMMA OneHeld ==
    ASSUME ControlInv, ControlInv', NEW o \in Ops, OthersKeep(o)
    PROVE  /\ HeldSum' = HeldSum - Held[o] + Held'[o]
           /\ HeldSum \in Int /\ Held[o] \in Int /\ Held'[o] \in Int
<1>1. Held \in [Ops -> Int] /\ Held' \in [Ops -> Int]
  BY DEF ControlInv, OpTypeOK, Held
<1>2. \A p \in Ops \ {o} : Held'[p] = Held[p]
  BY DEF OthersKeep, Held
<1>3. SumFunctionOnSet(Held', Ops)
        = SumFunctionOnSet(Held, Ops) - Held[o] + Held'[o]
  BY <1>1, <1>2, LedgerAssumption, SumChange
<1> QED BY <1>1, <1>3, HeldType DEF HeldSum

\* Without settlements and overrides the cache is at most the books minus what
\* is held: a reservation it covers, the books cover.
LEMMA LeadsBelowHeld ==
    ASSUME ControlInv, OnlyCovered
    PROVE  LeadSum <= HeldSum
<1>1. \A o \in Ops : /\ Leads[o] \in Int /\ Held[o] \in Int
                     /\ Leads[o] <= Held[o]
  <2> SUFFICES ASSUME NEW o \in Ops
               PROVE  /\ Lead(o) \in Int /\ Held[o] \in Int
                      /\ Lead(o) <= Held[o]
    BY DEF Leads
  <2> USE DEF ControlInv, OpTypeOK, TypeOK, Held, Lead
  <2>1. CASE pc[o] = "persist"
    BY <2>1
  <2>2. CASE pc[o] = "write"
    BY <2>2 DEF PointInv, DeltaInv
  <2>3. CASE pc[o] = "sync"
    BY <2>3 DEF PointInv, DeltaInv, OnlyCovered
  <2>4. CASE pc[o] = "done"
    BY <2>4 DEF DeltaInv, OnlyCovered
  <2>5. CASE pc[o] \notin {"persist", "write", "sync", "done"}
    BY <2>5
  <2> QED BY <2>1, <2>2, <2>3, <2>4, <2>5
<1> QED BY <1>1, LedgerAssumption, SumOrder DEF LeadSum, HeldSum

\* A booked operation stays booked.
LEMMA BookedStays ==
    ASSUME ControlInv, NEW o \in Ops, Step(o) \/ ApplyAsync(o)
    PROVE  OnlyCovered' => OnlyCovered
<1>1. Booked(o) => Booked(o)'
  BY DEF Step, CacheReserve, ReserveDB, HydrateRead, Populate, Persist,
         Compensate, IncreaseUserQuota, DecreaseUserQuota, DecreaseWrite,
         CommitCredit, SyncCredit, ApplyAsync, Booked, PointInv, ControlInv,
         Return, Goto
<1>2. \A p \in Ops \ {o} : Booked(p)' <=> Booked(p)
  BY StepKeeps DEF OthersKeep, Booked
<1>3. op' = op
  BY DEF Step, CacheReserve, ReserveDB, HydrateRead, Populate, Persist,
         Compensate, IncreaseUserQuota, DecreaseUserQuota, DecreaseWrite,
         CommitCredit, SyncCredit, ApplyAsync
<1> QED BY <1>1, <1>2, <1>3 DEF OnlyCovered

\* A reservation through the cache is covered by CacheInv, one in the database
\* by its own condition on a quota that is then the books.
LEMMA CoveredOpStep ==
    ASSUME ControlInv, ControlInv', ResultsMatchBooks, CacheInv, CoveredInv,
           NEW o \in Ops, Step(o) \/ ApplyAsync(o)
    PROVE  CoveredInv'
<1> SUFFICES ASSUME Undisturbed', OnlyCovered'
             PROVE  Books' + HeldSum' >= 0
  BY DEF CoveredInv
<1>1. Undisturbed /\ faults' = faults /\ OnlyCovered
  BY UndisturbedBefore, BookedStays
<1>2. ~Fails
  BY <1>1 DEF Fails, Undisturbed, ControlInv, OpTypeOK
<1>3. Books + HeldSum >= 0
  BY <1>1 DEF CoveredInv
<1>4. /\ HeldSum' = HeldSum - Held[o] + Held'[o]
      /\ HeldSum \in Int /\ Held[o] \in Int /\ Held'[o] \in Int
      /\ Books \in Int /\ Books' \in Int
  BY StepKeeps, OneHeld, BooksType, NextBooksType DEF ControlInv
<1> USE DEF ControlInv
<1>5. CASE CacheReserve(o)
  <2>1. Books' = Books
    BY <1>5, BooksUnmoved
  <2>2. Held[o] = 0
    BY <1>5 DEF CacheReserve, Held
  <2>3. CASE pc'[o] = "persist"
    <3>1. cache # NoEntry /\ cache >= amount[o] /\ Held'[o] = -amount[o]
          /\ amount[o] \in Int
      BY <1>2, <1>5, <2>3 DEF CacheReserve, Held, Goto, Return, CacheSufficient,
                        TypeOK, OpTypeOK
    <3>2. cache = Books + LeadSum
      BY <1>1, <3>1 DEF CacheInv
    <3>3. LeadSum <= HeldSum /\ LeadSum \in Int
      BY <1>1, LeadsBelowHeld, LeadType
    <3> QED BY <1>4, <2>1, <2>2, <3>1, <3>2, <3>3
  <2>4. CASE pc'[o] # "persist"
    <3>1. Held'[o] = 0
      BY <2>4 DEF Held
    <3> QED BY <1>3, <1>4, <2>1, <2>2, <3>1
  <2> QED BY <2>3, <2>4
<1>6. CASE ReserveDB(o)
  <2>1. Held[o] = 0 /\ Held'[o] = 0
    BY <1>6 DEF ReserveDB, Held, Return, Goto, TypeOK
  <2>2. CASE Books' = Books
    BY <1>3, <1>4, <2>1, <2>2
  <2>3. CASE Books' # Books
    <3>1. /\ Books' = Books + delta'[o]
          /\ quota' + pending' = quota + pending + delta'[o]
      BY <1>6, <2>3, BooksMoved
    <3>2. delta'[o] = -amount[o] /\ amount[o] \in Nat
      BY <1>6 DEF ReserveDB, DeltaInv, OpTypeOK
    <3>3. quota >= amount[o] /\ pending = 0 /\ flushing = 0
      <4>1. pending' = pending /\ pending \in Int /\ quota \in Int
        BY <1>6 DEF ReserveDB, TypeOK
      <4>2. quota' # quota
        <5> SUFFICES ASSUME quota' = quota PROVE FALSE
          OBVIOUS
        <5>1. delta'[o] = 0
          BY <3>1, <3>2, <4>1
        <5> QED BY <1>4, <2>3, <3>1, <5>1
      <4>3. quota >= amount[o]
        BY <1>6, <4>2 DEF ReserveDB
      <4>4. ~stale' /\ ~stale
        BY <1>1 DEF Undisturbed
      <4>5. pending = 0 /\ flushing = 0
        BY <1>6, <4>4 DEF ReserveDB
      <4> QED BY <4>3, <4>5
    <3>4. dropped = 0
      BY <1>1 DEF StoreInv, Undisturbed
    <3>5. quota = Books
      BY <3>3, <3>4, <1>4 DEF ResultsMatchBooks, TypeOK
    <3>6. \A p \in Ops : Held[p] = 0
      <4>1. mode.redis => OthersAtRest(o)
        <5>1. ~stale'
          BY DEF Undisturbed
        <5> QED BY <1>6, <5>1 DEF ReserveDB
      <4>2. CASE mode.redis
        BY <2>1, <4>1, <4>2 DEF OthersAtRest, AtRest, Held
      <4>3. CASE ~mode.redis
        BY <4>3 DEF PointInv, Held
      <4> QED BY <4>2, <4>3
    <3>7. HeldSum = 0
      BY <3>6, LedgerAssumption, SumZero DEF HeldSum
    <3>8. quota \in Int
      BY DEF TypeOK
    <3> QED BY <1>4, <2>1, <3>1, <3>2, <3>3, <3>5, <3>7, <3>8
  <2> QED BY <2>2, <2>3
<1>7. CASE \/ HydrateRead(o) \/ Populate(o) \/ Compensate(o)
           \/ DecreaseUserQuota(o) \/ ApplyAsync(o) \/ SyncCredit(o)
  <2>1. Books' = Books
    BY <1>7, BooksUnmoved
  <2>2. Held'[o] = Held[o]
    BY <1>7 DEF HydrateRead, Populate, Compensate, DecreaseUserQuota,
                ApplyAsync, SyncCredit, Return, Goto, Held, TypeOK, OpTypeOK
  <2> QED BY <1>3, <1>4, <2>1, <2>2
<1>8. CASE Persist(o)
  <2>1. Booked(o)' /\ ~Booked(o)
    BY <1>2, <1>8 DEF Persist, Return, Goto, Booked, TypeOK, PointInv
  <2>2. Books' = Books + delta'[o]
    BY <1>8, <2>1, BooksMoved
  <2>3. Held[o] = delta'[o] /\ Held'[o] = 0
    BY <1>2, <1>8 DEF Persist, Return, Goto, Held, TypeOK, OpTypeOK, PointInv,
                DeltaInv
  <2> QED BY <1>3, <1>4, <2>2, <2>3
<1>9. CASE IncreaseUserQuota(o) \/ DecreaseWrite(o) \/ CommitCredit(o)
  <2>1. Held[o] = 0 /\ Held'[o] = 0
    BY <1>9 DEF IncreaseUserQuota, DecreaseWrite, CommitCredit, Return, Goto,
                Held, TypeOK
  <2>2. CASE Books' = Books
    BY <1>3, <1>4, <2>1, <2>2
  <2>3. CASE Books' # Books
    <3>1. Booked(o)' /\ Books' = Books + delta'[o]
      BY <1>9, <2>3, BooksMoved
    <3>2. op'[o] \in {"increase", "credit"}
      BY <1>9, <3>1 DEF IncreaseUserQuota, DecreaseWrite, CommitCredit,
                        PointInv, OnlyCovered
    <3>3. delta'[o] >= 0 /\ delta'[o] \in Int
      BY <3>2 DEF DeltaInv, OpTypeOK
    <3> QED BY <1>3, <1>4, <2>1, <3>1, <3>3
  <2> QED BY <2>2, <2>3
<1> QED BY <1>5, <1>6, <1>7, <1>8, <1>9 DEF Step

\* Every step preserves CoveredInv.
LEMMA CoveredStep ==
    /\ ControlInv /\ ControlInv' /\ ResultsMatchBooks /\ CacheInv /\ CoveredInv
    /\ [Next]_vars
    => CoveredInv'
<1> SUFFICES ASSUME ControlInv, ControlInv', ResultsMatchBooks, CacheInv,
                    CoveredInv, [Next]_vars
             PROVE  CoveredInv'
  OBVIOUS
<1>1. ASSUME NEW o \in Ops, Step(o) \/ ApplyAsync(o) PROVE CoveredInv'
  BY <1>1, CoveredOpStep
<1>2. CASE BatchTake \/ BatchWrite \/ Expire \/ Crash \/ UNCHANGED vars
  <2>1. CASE crashes' # crashes
    <3>1. crashes' # 0
      BY <1>2, <2>1 DEF BatchTake, BatchWrite, Expire, Crash, vars, histVars,
                        ControlInv, OpTypeOK
    <3> QED BY <3>1 DEF CoveredInv, Undisturbed
  <2>2. CASE crashes' = crashes
    <3>1. Books' = Books
      BY <1>2, BooksElsewhere
    <3>2. Held' = Held /\ UNCHANGED <<op, result, stale>>
          /\ (faults' = 0 => faults = 0)
      BY <1>2, <2>2, LeadElsewhere DEF Held
    <3>3. HeldSum' = HeldSum
      BY <3>2 DEF HeldSum
    <3> QED BY <2>2, <3>1, <3>2, <3>3 DEF CoveredInv, Undisturbed, OnlyCovered, Booked
  <2> QED BY <2>1, <2>2
<1> QED BY <1>1, <1>2 DEF Next, Terminated

-----------------------------------------------------------------------------
(* The theorems.                                                           *)

\* The inductive invariant.
IInv == ControlInv /\ ResultsMatchBooks /\ CacheInv /\ CoveredInv

\* The inductive invariant holds in every reachable state, whatever the number of
\* operations, of failing writes and of restarts (model/user.go, model/utils.go).
THEOREM LedgerAccounting == Spec => []IInv
<1>1. Init => IInv
  <2> SUFFICES ASSUME Init PROVE IInv
    OBVIOUS
  <2>1. ControlInv
    BY ControlInit
  <2>2. Books = InitialQuota
    BY BooksInit
  <2>3. ResultsMatchBooks
    BY <2>2, LedgerAssumption DEF Init, ResultsMatchBooks
  <2>4. CacheInv
    BY DEF Init, CacheInv
  <2>5. HeldSum = 0
    <3>1. \A o \in Ops : Held[o] = 0
      BY DEF Init, Held
    <3> QED BY <3>1, LedgerAssumption, SumZero DEF HeldSum
  <2>6. CoveredInv
    BY <2>2, <2>5, LedgerAssumption DEF CoveredInv
  <2> QED BY <2>1, <2>3, <2>4, <2>6 DEF IInv
<1>2. IInv /\ [Next]_vars => IInv'
  BY ControlStep, BooksStep, CacheStep, CoveredStep DEF IInv
<1> QED BY <1>1, <1>2, PTL DEF Spec

\* Every variable keeps its type.
THEOREM TypeCorrect == Spec => []TypeOK
<1>1. IInv => TypeOK
  BY DEF IInv, ControlInv
<1> QED BY <1>1, LedgerAccounting, PTL

\* What the callers were told is what the store, the queue, the batch in flight
\* and the recorded losses hold: IncreaseUserQuota, DecreaseUserQuota, the
\* reservations and the top-ups are each booked once or not at all.
THEOREM BookedExactlyOnce == Spec => []ResultsMatchBooks
<1>1. IInv => ResultsMatchBooks
  BY DEF IInv
<1> QED BY <1>1, LedgerAccounting, PTL

\* Without failures, restarts and stale fills, the Redis hash is the booked
\* balance plus what the operations under way have moved in one place only.
THEOREM CacheIsBooks == Spec => []CacheTracksBooks
<1>1. IInv => CacheTracksBooks
  BY CacheInvIs DEF IInv
<1> QED BY <1>1, LedgerAccounting, PTL

\* Without them, reservations alone never take the balance below zero, however
\* they race: ReserveUserQuota never promises the same quota twice.
THEOREM NoOverdraft == Spec => []ReservesCovered
<1>1. IInv => ReservesCovered
  <2> SUFFICES ASSUME IInv, Undisturbed, OnlyCovered PROVE Books >= 0
    BY DEF ReservesCovered, OnlyCovered
  <2>1. Books + HeldSum >= 0
    BY DEF IInv, CoveredInv
  <2>2. HeldSum \in Int /\ HeldSum <= 0 /\ Books \in Int
    BY HeldType, BooksType DEF IInv, ControlInv
  <2> QED BY <2>1, <2>2
<1> QED BY <1>1, LedgerAccounting, PTL
=============================================================================
