---------------------------- MODULE QuotaLedger ----------------------------
(***************************************************************************)
(* The wallet of one user in its three places: the database row, the Redis *)
(* hash that decides reservations while it lives, and the in-memory batch  *)
(* store that delays database writes (model/quota_reserve.go,              *)
(* model/user.go, model/user_cache.go, model/utils.go).                    *)
(*                                                                         *)
(* Every operation runs once, concurrently with the others, and one Redis  *)
(* or database call is one step.  A reservation takes the quota from the   *)
(* cache and then persists it; a refund or a settlement writes the books   *)
(* and adjusts the cache from a goroutine; a credit (top-up, redemption)   *)
(* or an override commits and then adjusts the cache.                      *)
(***************************************************************************)
EXTENDS Integers, FiniteSets, Functions

CONSTANTS
    Ops,             \* the operations, each a goroutine of its own
    OpTypes,         \* what an operation may be
    Amounts,         \* the quotas operations are called with
    Modes,           \* the settings: RedisEnabled, BatchUpdateEnabled
    InitialQuota,    \* users.quota at the start
    MaxWalletQuota,  \* common.MaxWalletQuota
    MaxFaults,       \* bound on failing Redis and database calls
    MaxCrashes,      \* bound on restarts of the process
    NoEntry          \* the user hash is not in Redis

AllOpTypes == {"reserve", "increase", "decrease", "credit", "override", "read"}

ASSUME LedgerAssumption ==
    /\ IsFiniteSet(Ops)
    /\ OpTypes \subseteq AllOpTypes
    /\ Amounts \subseteq Nat \ {0}
    /\ Modes \subseteq [redis : BOOLEAN, batch : BOOLEAN]
    /\ InitialQuota \in Nat /\ MaxWalletQuota \in Nat
    /\ InitialQuota <= MaxWalletQuota
    /\ MaxFaults \in Nat /\ MaxCrashes \in Nat
    /\ NoEntry \notin Int

VARIABLES
    mode, op, amount,      \* the settings, and what each operation is
    pc, result,            \* where an operation is and what it returned
    snapshot,              \* the row an operation has read to fill the cache
    delta,                 \* what the operation adds to the books
    async,                 \* the cache delta its goroutine still has to apply
    quota,                 \* users.quota
    pending, flushing,     \* batchUpdateStores, and the map being written out
    cache,                 \* the Quota field of the user hash
    faults, crashes,
    stale,                 \* history: the row was used while it was behind
    dropped                \* history: booked deltas lost with the batch store

opVars    == <<pc, result, snapshot, delta, async>>
storeVars == <<quota, pending, flushing, cache>>
histVars  == <<faults, crashes, stale, dropped>>
vars == <<mode, op, amount, opVars, storeVars, histVars>>

Booked(o) == result[o] = "ok"

\* The balance the returned results amount to.
Books == InitialQuota + SumFunctionOnSet(delta, {o \in Ops : Booked(o)})

\* The operation is not between its write of the cache and its write of the
\* books.
AtRest(o) ==
    pc[o] \notin {"persist", "compensate", "write", "sync"} /\ async[o] = 0
OthersAtRest(o) == \A p \in Ops \ {o} : AtRest(p)

-----------------------------------------------------------------------------
Init ==
    /\ mode \in Modes
    /\ op \in [Ops -> OpTypes]
    /\ amount \in [Ops -> Amounts]
    /\ pc = [o \in Ops |-> "start"]
    /\ result = [o \in Ops |-> "none"]
    /\ snapshot = [o \in Ops |-> 0]
    /\ delta = [o \in Ops |->
                  CASE op[o] \in {"reserve", "decrease"} -> -amount[o]
                    [] op[o] \in {"increase", "credit"}  -> amount[o]
                    [] OTHER                             -> 0]
    /\ async = [o \in Ops |-> 0]
    /\ quota = InitialQuota
    /\ pending = 0 /\ flushing = 0
    /\ cache = NoEntry
    /\ faults = 0 /\ crashes = 0
    /\ stale = FALSE
    /\ dropped = 0

Goto(o, point) == pc' = [pc EXCEPT ![o] = point]
Return(o, r) == Goto(o, "done") /\ result' = [result EXCEPT ![o] = r]

Succeeds == UNCHANGED faults
Fails == faults < MaxFaults /\ faults' = faults + 1

\* The guarded HINCRBY: it does nothing when the hash is not there.
CacheDelta(d) == cache' = IF cache = NoEntry THEN cache ELSE cache + d

-----------------------------------------------------------------------------
(* TryReserveUserQuota.                                                    *)

\* Mutant: any positive balance will do.
CachePositive(o) == cache > 0

\* The comparison of userQuotaReserveScript.
CacheSufficient(o) == cache >= amount[o]

\* cacheTryReserveUserQuota, before and after the hydration: Redis decides,
\* unless it does not know the user or does not answer.
CacheReserve(o) ==
    /\ op[o] = "reserve" /\ mode.redis
    /\ pc[o] \in {"start", "retry"}
    /\ \/ /\ cache # NoEntry /\ CacheSufficient(o)
          /\ cache' = cache - amount[o]
          /\ Goto(o, "persist")
          /\ Succeeds /\ UNCHANGED result
       \/ /\ cache # NoEntry /\ ~CacheSufficient(o)
          /\ Return(o, "refused")
          /\ Succeeds /\ UNCHANGED cache
       \/ /\ cache = NoEntry
          /\ Goto(o, IF pc[o] = "start" THEN "hydrate" ELSE "db")
          /\ Succeeds /\ UNCHANGED <<cache, result>>
       \/ Fails /\ Goto(o, "db") /\ UNCHANGED <<cache, result>>
    /\ UNCHANGED <<mode, op, amount, snapshot, delta, async, quota, pending,
                   flushing, crashes, stale, dropped>>

\* reserveUserQuotaDB: the conditional update, when there is no Redis or it
\* is of no help.
ReserveDB(o) ==
    /\ op[o] = "reserve"
    /\ \/ pc[o] = "db"
       \/ pc[o] = "start" /\ ~mode.redis
    /\ \/ /\ Succeeds
          /\ IF quota >= amount[o]
             THEN quota' = quota - amount[o] /\ Return(o, "ok")
             ELSE UNCHANGED quota /\ Return(o, "refused")
       \/ Fails /\ UNCHANGED quota /\ Return(o, "refused")
    /\ stale' = (stale \/ pending # 0 \/ flushing # 0 \/
                 (mode.redis /\ (cache # NoEntry \/ ~OthersAtRest(o))))
    /\ UNCHANGED <<mode, op, amount, snapshot, delta, async, pending,
                   flushing, cache, crashes, dropped>>

\* GetUserCache of a reader, or to hydrate: a hit; or a miss, or no answer
\* from Redis, and the row is read; or the row cannot be read.
HydrateRead(o) ==
    /\ mode.redis
    /\ \/ pc[o] = "hydrate"
       \/ op[o] = "read" /\ pc[o] = "start"
    /\ \/ /\ cache # NoEntry
          /\ Goto(o, IF op[o] = "read" THEN "done" ELSE "retry")
          /\ Succeeds /\ UNCHANGED snapshot
       \/ /\ \/ cache = NoEntry /\ Succeeds
             \/ Fails
          /\ snapshot' = [snapshot EXCEPT ![o] = quota]
          /\ Goto(o, "populate")
       \/ /\ Fails
          /\ Goto(o, IF op[o] = "read" THEN "done" ELSE "db")
          /\ UNCHANGED snapshot
    /\ UNCHANGED <<mode, op, amount, result, delta, async, storeVars,
                   crashes, stale, dropped>>

\* Mutant: the snapshot overwrites a live hash.
PublishAlways(o) == cache' = snapshot[o]

\* writeUserCache sets Quota only if the field is absent.
Publish(o) == cache' = IF cache = NoEntry THEN snapshot[o] ELSE cache

\* populateUserCache; its error is logged, and the caller goes on.
Populate(o) ==
    /\ pc[o] = "populate"
    /\ \/ /\ Succeeds
          /\ Publish(o)
          /\ stale' = (stale \/ (/\ cache = NoEntry
                                 /\ \/ snapshot[o] # Books \/ ~OthersAtRest(o)
                                    \/ pending # 0 \/ flushing # 0))
       \/ Fails /\ UNCHANGED <<cache, stale>>
    /\ Goto(o, IF op[o] = "read" THEN "done" ELSE "retry")
    /\ UNCHANGED <<mode, op, amount, result, snapshot, delta, async, quota,
                   pending, flushing, crashes, dropped>>

\* A write of the books: queued in batch mode, direct otherwise.
WriteBooks(d) ==
    IF mode.batch
    THEN pending' = pending + d /\ UNCHANGED quota
    ELSE quota' = quota + d /\ UNCHANGED pending

\* persistUserQuotaDelta.  Only a direct write can fail.
Persist(o) ==
    /\ pc[o] = "persist"
    /\ \/ /\ Succeeds
          /\ WriteBooks(-amount[o])
          /\ Return(o, "ok")
       \/ /\ ~mode.batch /\ Fails
          /\ Goto(o, "compensate")
          /\ UNCHANGED <<quota, pending, result>>
    /\ UNCHANGED <<mode, op, amount, snapshot, delta, async, flushing, cache,
                   crashes, stale, dropped>>

\* The failed reservation gives the cache its quota back, if it can.
Compensate(o) ==
    /\ pc[o] = "compensate"
    /\ \/ Succeeds /\ CacheDelta(amount[o])
       \/ Fails /\ UNCHANGED cache
    /\ Return(o, "refused")
    /\ UNCHANGED <<mode, op, amount, snapshot, delta, async, quota, pending,
                   flushing, crashes, stale, dropped>>

-----------------------------------------------------------------------------
(* Refunds, settlements, credits.                                          *)

\* IncreaseUserQuota: a direct write respects the ceiling, a queued one does
\* not.  The goroutine is started once the books are written.
IncreaseUserQuota(o) ==
    /\ op[o] = "increase" /\ pc[o] = "start"
    /\ \/ /\ mode.batch \/ quota <= MaxWalletQuota - amount[o]
          /\ Succeeds
          /\ WriteBooks(amount[o])
          /\ async' = [async EXCEPT ![o] = IF mode.redis THEN amount[o] ELSE 0]
          /\ Return(o, "ok")
       \/ /\ ~mode.batch
          /\ \/ quota > MaxWalletQuota - amount[o] /\ Succeeds
             \/ Fails
          /\ Return(o, "refused")
          /\ UNCHANGED <<quota, pending, async>>
    /\ UNCHANGED <<mode, op, amount, snapshot, delta, flushing, cache,
                   crashes, stale, dropped>>

\* Mutant: the goroutine of a decrease adds.
DecreaseAdds(o) ==
    /\ op[o] = "decrease" /\ pc[o] = "start"
    /\ async' = [async EXCEPT ![o] = IF mode.redis THEN amount[o] ELSE 0]
    /\ Goto(o, "write")
    /\ UNCHANGED <<mode, op, amount, result, snapshot, delta, storeVars,
                   histVars>>

\* DecreaseUserQuota starts its goroutine first ...
DecreaseUserQuota(o) ==
    /\ op[o] = "decrease" /\ pc[o] = "start"
    /\ async' = [async EXCEPT ![o] = IF mode.redis THEN -amount[o] ELSE 0]
    /\ Goto(o, "write")
    /\ UNCHANGED <<mode, op, amount, result, snapshot, delta, storeVars,
                   histVars>>

\* ... and writes the books next, without looking at the balance.
DecreaseWrite(o) ==
    /\ pc[o] = "write"
    /\ \/ /\ Succeeds
          /\ WriteBooks(-amount[o])
          /\ Return(o, "ok")
       \/ /\ ~mode.batch /\ Fails
          /\ Return(o, "refused")
          /\ UNCHANGED <<quota, pending>>
    /\ UNCHANGED <<mode, op, amount, snapshot, delta, async, flushing, cache,
                   crashes, stale, dropped>>

\* The goroutine of an increase or a decrease; its error is only logged.
ApplyAsync(o) ==
    /\ async[o] # 0
    /\ \/ Succeeds /\ CacheDelta(async[o])
       \/ Fails /\ UNCHANGED cache
    /\ async' = [async EXCEPT ![o] = 0]
    /\ UNCHANGED <<mode, op, amount, pc, result, snapshot, delta, quota,
                   pending, flushing, crashes, stale, dropped>>

\* A top-up or redemption commits under the ceiling; an administrator
\* overrides the row, which never waits for the batch store.
CommitCredit(o) ==
    /\ op[o] \in {"credit", "override"} /\ pc[o] = "start"
    /\ \/ /\ op[o] = "override" \/ quota <= MaxWalletQuota - amount[o]
          /\ quota' = IF op[o] = "override" THEN amount[o] ELSE quota + amount[o]
          /\ delta' = [delta EXCEPT ![o] = quota' - quota]
          /\ result' = [result EXCEPT ![o] = "ok"]
          /\ Goto(o, "sync")
          /\ Succeeds
       \/ /\ \/ op[o] = "credit" /\ quota > MaxWalletQuota - amount[o] /\ Succeeds
             \/ Fails
          /\ Return(o, "refused")
          /\ UNCHANGED <<quota, delta>>
    /\ UNCHANGED <<mode, op, amount, snapshot, async, pending, flushing,
                   cache, crashes, stale, dropped>>

\* syncCreditUserQuotaCache, and the delta an override has committed.
SyncCredit(o) ==
    /\ pc[o] = "sync"
    /\ \/ Succeeds /\ CacheDelta(delta[o])
       \/ Fails /\ UNCHANGED cache
    /\ Goto(o, "done")
    /\ UNCHANGED <<mode, op, amount, result, snapshot, delta, async, quota,
                   pending, flushing, crashes, stale, dropped>>

-----------------------------------------------------------------------------
(* The batch updater, Redis and the process.                               *)

\* Mutant: only credits count as data.
HasCredits == pending > 0

HasData == pending # 0

\* batchUpdate takes the store under its lock ...
BatchTake ==
    /\ mode.batch /\ HasData /\ flushing = 0
    /\ flushing' = pending /\ pending' = 0
    /\ UNCHANGED <<mode, op, amount, opVars, quota, cache, histVars>>

\* Mutant: the store is cleared once it is written, with what arrived since.
BatchWriteThenClear ==
    /\ flushing # 0
    /\ quota' = quota + flushing /\ pending' = 0 /\ flushing' = 0
    /\ UNCHANGED <<mode, op, amount, opVars, cache, histVars>>

\* ... and writes it without; an error is logged and the deltas are gone.
BatchWrite ==
    /\ flushing # 0
    /\ \/ Succeeds /\ quota' = quota + flushing /\ UNCHANGED dropped
       \/ Fails /\ dropped' = dropped + flushing /\ UNCHANGED quota
    /\ flushing' = 0
    /\ UNCHANGED <<mode, op, amount, opVars, pending, cache, crashes, stale>>

\* The TTL of the hash runs out, or the hash is invalidated.
Expire ==
    /\ cache # NoEntry
    /\ cache' = NoEntry
    /\ UNCHANGED <<mode, op, amount, opVars, quota, pending, flushing,
                   histVars>>

\* The process restarts: the batch store and the goroutines are gone.
Crash ==
    /\ crashes < MaxCrashes
    /\ crashes' = crashes + 1
    /\ pc' = [o \in Ops |-> IF pc[o] \in {"start", "done"} THEN pc[o] ELSE "dead"]
    /\ async' = [o \in Ops |-> 0]
    /\ dropped' = dropped + pending + flushing
    /\ pending' = 0 /\ flushing' = 0
    /\ UNCHANGED <<mode, op, amount, result, snapshot, delta, quota, cache,
                   faults, stale>>

Step(o) ==
    \/ CacheReserve(o) \/ ReserveDB(o) \/ HydrateRead(o) \/ Populate(o)
    \/ Persist(o) \/ Compensate(o)
    \/ IncreaseUserQuota(o) \/ DecreaseUserQuota(o) \/ DecreaseWrite(o)
    \/ CommitCredit(o) \/ SyncCredit(o)

Terminated ==
    /\ \A o \in Ops : pc[o] \in {"start", "done", "dead"} /\ async[o] = 0
    /\ pending = 0 /\ flushing = 0
    /\ UNCHANGED vars

Next ==
    \/ \E o \in Ops : Step(o) \/ ApplyAsync(o)
    \/ BatchTake \/ BatchWrite \/ Expire \/ Crash
    \/ Terminated

Spec == Init /\ [][Next]_vars

\* The batch updater loops for ever, and a goroutine is always scheduled.
FairSpec ==
    /\ Spec
    /\ WF_vars(BatchTake) /\ WF_vars(BatchWrite)
    /\ \A o \in Ops : WF_vars(Step(o)) /\ WF_vars(ApplyAsync(o))

-----------------------------------------------------------------------------
(* Properties.                                                             *)

Points == {"start", "retry", "hydrate", "populate", "persist", "compensate",
           "db", "write", "sync", "done", "dead"}

\* Type correctness of the operations and of the three stores; a goroutine
\* carries the delta of its own operation.
TypeOK ==
    /\ pc \in [Ops -> Points]
    /\ result \in [Ops -> {"none", "ok", "refused"}]
    /\ delta \in [Ops -> Int]
    /\ \A o \in Ops : async[o] \in {0, delta[o]}
    /\ quota \in Int /\ pending \in Int /\ flushing \in Int
    /\ cache \in Int \cup {NoEntry}
    /\ dropped \in Int

\* What the operations returned is what the row and the batch store hold
\* together: an operation that returned success is booked exactly once, one
\* that returned an error not at all, and only a restart or a failed flush of
\* the batch store loses any of it.
ResultsMatchBooks == quota + pending + flushing + dropped = Books

\* No call failed, no process restarted, and the row was never used to fill
\* the cache or to decide a reservation while it was behind the books.
Undisturbed == faults = 0 /\ crashes = 0 /\ ~stale

\* What the cache is ahead of the books because of an operation in flight:
\* a reservation not yet persisted or a decrease not yet written; or behind:
\* a credit or a goroutine that has not reached it.
Lead(o) ==
    CASE pc[o] = "persist"                  -> -amount[o]
      [] pc[o] = "write" /\ async[o] = 0    -> delta[o]
      [] pc[o] = "sync"                     -> -delta[o]
      [] pc[o] = "done" /\ Booked(o)       -> -async[o]
      [] OTHER                              -> 0

\* While it is undisturbed, the cached balance that decides reservations is
\* the booked balance, up to the operations in flight.
CacheTracksBooks ==
    Undisturbed /\ cache # NoEntry =>
        cache = Books + SumFunction([o \in Ops |-> Lead(o)])

\* Then, settlements and overrides apart, which may leave debt, concurrent
\* reservations never take more than there is.
ReservesCovered ==
    /\ Undisturbed
    /\ \A o \in Ops : op[o] \in {"decrease", "override"} => ~Booked(o)
    => Books >= 0

\* "TryReserveUserQuota atomically checks and deducts a user's wallet quota":
\* reservations alone never overdraw the wallet.
NeverOverdrawn ==
    (\A o \in Ops : op[o] \in {"reserve", "read"}) => Books >= 0

\* Every booked delta eventually reaches the row, unless a restart or a
\* failed call loses it.
BooksReachRow ==
    <>[](faults = 0 /\ crashes = 0 => quota = Books)

=============================================================================
