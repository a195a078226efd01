# A TLA+ model of new-api

new-api is a gateway in Go (with a React console) in front of many AI providers.  A request
arrives with an API token, is relayed to one of several upstream channels and is
charged to its user.  This directory models the part of the gateway where a
mistake costs money (the charge of a request, the wallet the charge is taken
from, the charge of an asynchronous task that ends minutes or hours after its
request) and the two parts of the console that are protocols rather than pages:
the login session shared by the tabs of a browser, and the playground's chat.

All paths below are relative to `src/`.

## 1. Inventory

### Components

| Component | State it keeps | Operations | Module |
|---|---|---|---|
| Request billing session (`service/billing_session.go`, `service/funding_source.go`, `service/billing.go`, `relay/request_billing.go`, `service/violation_fee.go`) | per request: funding source, `preConsumedQuota`, `tokenConsumed`, `extraReserved`, `consumed`, the flags `settled`, `fundingSettled`, `refunded`, `trusted` | open a session (with fallback between wallet and subscription), `Reserve`, `Settle`, `Refund`, violation fee | `BillingSession`, `RequestCharge` |
| Relay and task submission loops (`controller/relay.go`, `relay/relay_task.go`) | attempt, retry index | prepare billing, try a channel, retry, abandon, insert the task, settle or refund | the attempts in `BillingSession`; the settlement after the insert also in `TaskBilling` |
| Quota ledger (`model/quota_reserve.go`, `model/user.go`, `model/user_cache.go`, `model/user_auth_cache.go`, `model/utils.go`) | `users.quota`, the Redis user hash, the batch store | reserve, increase, decrease, hydrate, flush | `QuotaLedger` |
| Top-up, redemption, quota adjustment (`model/topup.go`, `model/redemption.go`, `model/user_quota_adjustment.go`, `model/checkin.go`) | orders, codes | commit a credit or an override, synchronise the cache | its effect on the wallet in `QuotaLedger` |
| Asynchronous task billing (`service/task_polling.go`, `service/task_billing.go`, `model/task.go`) | `tasks` rows: status, progress, quota, poll failures | poll, sweep, fetch, bulk fail, finalise, recalculate, refund | `TaskBilling` |
| Subscriptions (`model/subscription.go`, `service/subscription_reset_task.go`) | plan, `amount_used`, `amount_total`, pre-consume records, next reset | pre-consume, post-consume delta, refund, reset, expire | one subscription as a funding source in `BillingSession` |
| Realtime sessions (`relay/channel/openai/relay_realtime.go`, `service/quota.go`) | usage of the session and of the turn | charge a turn, settle the session | planned |
| System tasks (`model/system_task.go`, `service/system_task.go`) | task rows with a lease and its owner | enqueue, claim, renew, finish, take over | planned |
| Login sessions, server (`controller/auth_session.go`, `service/auth_session.go`, `model/user_session.go`) | `user_sessions` rows: status, current and previous refresh token, grace window | log in, rotate, reissue, refuse, revoke, sign out | `AuthSession` |
| Login sessions, console (`web/src/lib/auth-session.ts`, `auth-session-sync.ts`, `http-client.ts`, `stores/auth-store.ts`) | per tab: the auth store, the refresh under way, the call that waits for it; per browser: the cookie, the Web Lock | resolve, refresh, api call, sign in, sign out, handle another tab's event | `AuthSession` |
| Playground chat (`web/src/features/playground`) | the conversation, updates React has not run, buffered chunks, generation counters, the stored conversation | send, regenerate, edit, delete, clear, stop, stream, save, leave, reopen | `Playground` |
| Auth-version fence (`model/user_auth_cache.go`) | auth version, cached snapshot | publish | planned |
| Midjourney tasks (`controller/midjourney.go`, `model/midjourney.go`) | `midjourneys` rows | poll, refund | planned |
| Channel selection, affinity, auto-ban; rate limits; streaming; body and disk cache; task plugins; pricing expressions; options; metrics; provider adaptors; the console's pages and forms | | | not modelled, section 7 |

`PROJECT.json` lists the same components with their files and status.

### How they interact

The relay loop opens a billing session before it calls upstream.  The session
takes the estimate first from the token and then from the wallet or the
subscription, through the quota ledger.  Attempts may raise the reservation.  On
success the session settles the difference between reservation and cost; on
failure it refunds from a goroutine of its own and the request may go on to pay
a violation fee.  A task submission inserts a row between the two: from then on
the pollers, the timeout sweep and the client's fetch own the charge, which they
settle or refund against the same wallet, subscription and token.  The wallet is
shared by all requests of a user, and on every node; the Redis hash is shared by
all nodes, the batch store is private to one process.

The console talks to the gateway with a short-lived access token kept in the
memory of a tab and a refresh token in a cookie shared by all tabs, which every
refresh replaces.  Tabs keep each other informed over a broadcast channel and
serialise refreshes with a Web Lock where the browser has one.  The playground
asks that layer for headers before it opens a stream.

### What is hard

* **Concurrency.**  Requests of one user race for one balance that is read,
  judged and taken in separate steps; refunds, cache deltas and batch flushes
  run in goroutines; several nodes poll the same task from copies of its row.
* **Partial failure.**  A reservation, a settlement and a refund each touch two
  or three ledgers without a transaction.  Some failures are compensated, and
  the compensation may fail; others are only logged.
* **Staleness.**  The Redis hash decides reservations and is filled from a row
  that lags behind the batch store; a row is written back whole from a copy.
* **Restarts.**  The batch store, the refund goroutine and the billing of a
  finished task are all lost with the process.
* **Shared browser state.**  Tabs race with one cookie; requests leave with the
  cookie of the moment and answers replace it in whatever order they arrive;
  a page may be gone when its answer comes.
* **Deferred updates.**  The chat's handlers run between timers, network events
  and renders: updates wait in React's queue, chunks in a buffer, the save in a
  debounce, and each must still belong to the reply it was made for.
* **Eventual ends.**  A task whose upstream never answers must be ended by a
  cutoff or a sweep.

`PROJECT.json` gives every such hazard at its line, with the property that would
catch it going wrong.

### What makes each component correct

* *Session*: between the steps of an open session both ledgers hold exactly the
  reservation; a settled request has paid its cost, a refunded one nothing, a
  rejected one nothing; reservations alone never overdraw the wallet; a
  subscription is never used beyond its total; every request ends.
* *Ledger*: what callers were told is what is booked, once; the cached balance
  follows the books; every booked delta reaches the row.
* *Login*: a race of tabs never costs the user an active session; the browser
  ends with the current token; no tab slips into another account; every refresh
  settles; a revoked session is left with the next call.
* *Playground*: the page generates exactly while a reply may still come, or its
  connection hangs; a reply never has a piece twice, out of order or of another
  one; it is whole, or an exact prefix, unless its text repeats itself or a load
  shortened it; a stopped one never changes; nothing stays pending; what is shown
  reaches the storage.
* *Tasks*: one pass bills a finished task; the row's quota is what was charged;
  a finished task stays finished and is billed; every task ends.

## 2. Modules and their correspondence to the code

### `BillingSession`

One request is a process with a control point `pc[r]`; its session's fields keep
their names from `BillingSession` and `WalletFunding`/`SubscriptionFunding`
(`fundingConsumed` is `consumed`, or `preConsumed` for a subscription).  Each ledger is a function: `charged[r]`
is what the funding source of `r` has given up for it, net of what it got back,
`tokenCharged[r]` the same of the token.  The balances `Wallet`, `Token` and
`SubscriptionUsed` are sums over them, so the requests compete for a balance and
the model still knows who holds what.

| Action | Code |
|---|---|
| `StartRequest`, `OpenSession` | `PrepareRequestBilling`, and the submission of a task, which opens its session inside an attempt |
| `ChooseSource`, `TryWallet`, `Fallback`, `Reject` | `NewBillingSession`: preference, active subscription, balance check, trust, fallback |
| `PreConsumeToken`, `PreConsumeFunding`, `RollbackToken` | `preConsume` and its rollback |
| `ReserveFunding`, `ReserveToken`, `RollbackFundingReserve` | `Reserve` in its two halves |
| `SendUpstream`, `UpstreamFails`, `UpstreamAnswers`, `Abandon` | one attempt and the retry decision of `controller/relay.go` |
| `SkipTaskReserve`, `InsertTask` | `executeTaskSubmissionWith` |
| `Settle`, `SettleWithoutSession`, `Finish`, `PanicAfterSettle` | `SettleBilling`, and the recovered panic of a Responses WebSocket call |
| `Refund`; `RefundFunding`, `RefundExtra`, `RefundToken` | `Refund` under the mutex; the steps of its goroutine |
| `ChargeViolationFee` | `ChargeViolationFeeIfNeeded` |
| `ExpireSubscription` | a subscription ends under running requests |

A ledger write is one atomic step that may fail while `faults < MaxFaults`.
Where the code only logs the failure of a compensation or of the second half of
an adjustment, the history variable `lost[r]` is set; the exactness properties
speak about requests with `~lost[r]`, since the code itself gives up there.

Abstractions: prices, token counts and channels are the quota they produce,
chosen freely from `Quotas`; the trust decision uses the balance of the moment and, as in the
code, the token quota of the authentication; a user has one subscription, which
is not reset while the requests run, so the clamp of `amount_used` at 0 (which
only a reset between pre-consume and refund can reach) does not appear.

### `RequestCharge`

The abstract specification: a hold that may change, then is committed for the
cost or released, and is final.  `BillingSession` implements it under the
refinement mapping in `Charge` (`ChargePhase`, and the amount net of a fee).

### `QuotaLedger`

The wallet below `BillingSession`'s atomic writes: the row (`quota`), the batch
store (`pending`, and `flushing` while it is written out) and the Redis hash
(`cache`).  An operation is a goroutine that takes one Redis or database call
per step: `CacheReserve`, `HydrateRead`, `Populate`, `ReserveDB`, `Persist`,
`Compensate` are `TryReserveUserQuota`; `IncreaseUserQuota`,
`DecreaseUserQuota`/`DecreaseWrite` and `ApplyAsync` the refunds and settlements
with their cache goroutine; `CommitCredit`/`SyncCredit` a top-up, a redemption
or an administrator's override; `BatchTake`/`BatchWrite` the batch updater;
`Expire` the TTL or an invalidation of the hash; `Crash` a restart.  `Books` is
the balance that follows from what callers were told.

Abstractions: one user and one process with a batch store; the fields of the
hash other than the quota, and the auth-version fence of its population, which
appears as a population that fails.  The token has the same scripts on a hash of
its own.

### `TaskBilling`

A row is its status, whether its progress is 100%, its quota and its poll
failures.  A worker is one pass of a poller, of the sweep or of a client's fetch
over one task: `Load` copies the row, the step in between is an arbitrary
upstream answer (`PollPending`, `PollTerminal`, `PollFails`, `Skip`,
`FetchStatus`, `BulkFail`, `Sweep`), and a winner of the status CAS goes on to
`Finalize`, `AdjustFunding`, `AdjustToken` and `UpdateQuota`.
`SettleSubmission` is the settlement that follows the insert, concurrent with
all of them.  `Crash` abandons a pass at any step.

Abstractions: wallet and subscription of the task are one ledger `charged`;
result data, logs and notifications are left out; passes overlap freely, which
is weaker than what the lease of the system task provides.

### `AuthSession`

A tab is single-threaded: an action is one task of its event loop, run to the
next `await`.  `store` is `useAuthStore`, `runner` the refresh behind
`refreshPromise` (`current` stands for `authEpoch === refreshEpoch`), `op` the
api call, sign-in or sign-out that waits.  Requests carry the cookie of the
moment they leave; `Set-Cookie` takes effect when the answer arrives.

| Action | Code |
|---|---|
| `Resolve`, `FreshAuthHeaders`, `PageLoad` (within `Reload`, events and redirects) | `resolveAuthentication`, `getFreshAuthHeaders`, `bootstrapAuthentication` |
| `RunRefresh`, `RefreshSuperseded`, `RefreshAccepted`, `RefreshMismatch`, `RefreshUnauthorized`, `RefreshFailed`, `RefreshOutOfSync` | `performRefreshWithBrowserLock` and the cases of `createRefreshRunner` |
| `ApiCall`, `ApiAnswered`, `ApiResume`, `ApiAnsweredAgain` | the interceptors of `http-client.ts` |
| `Login`, `LoginDone`; `SignOut`, `LogoutMismatch`, `LogoutResume`, `LogoutDone`, `OpFailed` | `login`, `handleLoginSuccess`; `executeLogout` and the sign-out dialog |
| `HandleEvent` | the listener in `routes/__root.tsx` |
| `RefuseRefresh`, `MismatchRefresh`, `RotateRefresh`, `ReissueRefresh`, `ServeLogin`, `ServeLogout` | `RefreshAuth`, `setupLoginAtAuthVersion`, `AuthLogout` and what they call |
| `AccessExpires`, `GraceEnds`, `RevokedElsewhere` | the three lifetimes; another device, an administrator, a password change |
| `RequestFails`, `AnswerLost` | the network; a request the client gave up on may still reach the server |

The next refresh secret is derived from the current one, so the tokens of a
session form a chain and a copy of a token is known by its age: current,
previous, or older.  It follows that the answer `AUTH_REFRESH_RACE` and the
client's wait for it cannot occur, and they are left out.  Abstractions: the
session row is read and written in one step (the code's update is a
compare-and-set on it, retried); the Redis copy of the row and its deny fence
are not modelled; a tab waits for one call at a time; `applyAuthRotation` and the
2FA and passkey steps of a login are left out.

### `Playground`

The page between two renders.  `msgs` is the conversation of the last render,
`queue` the updaters React has not run (one may run eagerly when the queue is
empty, `Queued`), `shown` the `isGenerating` the user sees, which guards the
buttons.  `gen` is `requestGenerationRef`, `control` the stream controller's own
generation and source, `pending` the buffered chunks, `calls` one request per
generation.  Events of the user render at once, those of timers and the network
later (`Render`).

| Action | Code |
|---|---|
| `Send`, `Regenerate`, `ApplyEdit` with `SendChat`; `Delete`, `Clear`, `EditMessage`, `CancelEdit` | `use-playground-conversation.ts`, `conversation-message-utils.ts`, `sendStreamingChat`, `sendNonStreamingChat` |
| `HeadersReady`, `HeadersFail`, `StreamChunk`, `StreamDone`, `StreamFails`, `StreamCloses` | `createStreamRequestController` with the `handleStream...` callbacks |
| `ChatAnswers`, `ChatFails` | the answer of `sendNonStreamingChat` |
| `FlushFires`, `SaveFires`, `Render` | the 50 ms flush, the 500 ms save, React |
| `StopGeneration`, `Leave`, `Unload`, `Open` | `stopGeneration`, the clean-ups of the effects, `loadMessages` |

A text is a sequence of pieces, each of which says a word (`Piece`), and the
words of a reply may repeat.  Upstream sends one of `Replies`, in parts of any
size or as growing snapshots (`snapshots`).  The code tells the two apart by
`startsWith`, in the buffer (`mergePendingStreamChunk`) and again in the reply
(`getAppendableChunk`), and so does the model: after "ha", the part "ha" is taken
for a snapshot and is lost.  `calls` keeps what was sent and where its parts end
(`sent`, `ends`), so that `Echoes` can say for which replies this can happen.

`Open` does all that `loadMessages` does: a stored conversation that is too large
is dropped; each message has its repeated sections collapsed and is truncated
with a mark; the conversation is cut to the last `MaxStored` messages and to
those that fit together; what is left pending is repaired; and the result is
written back.  Limits are counted in pieces, and `Headings` says which words
are headings of sections.  `shortened` records the generations whose text a load
has changed.

A stream that ends with status 200 and without `[DONE]` reaches no handler
(`StreamCloses`).  It is `Hanging`, not `Live`: nothing comes any more and the
page waits until the user stops it.

Abstractions.  Reasoning and content are one text; on load the code collapses the
sections of content only.  `finalizeMessage`, which moves text between think tags
to the reasoning, and trimming of white space are left out.  A text of the user
is one piece, shorter than every limit.  The size of the stored conversation is
that of its texts, without the JSON around them.  Generation numbers go on over
visits of the page.  Mounting and loading are one step, so acts before the zero
timeout of the load are left out, as are a storage that is full, another tab that
writes the same storage, and model and parameter settings.

## 3. Runs

The passing runs together fire every action.  Each property of a passing run has
a mutant in `PROJECT.json`: a plausible wrong version of a mapped definition,
kept next to it under the comment `Mutant:`, under which TLC finds the property violated.

| Run | Instance | What it checks |
|---|---|---|
| `BillingRequests` | 2 requests over four profiles, quotas {1, 2}, wallet 3, token 3, subscription 2, trust above 2, fee 1, 1 retry, 1 fault | `TypeOK`, `OpenSessionHoldsReservation`, `SettledExactly`, `RefundReturnsReservationExceptImages`, `DebtIsExplained`, `SubscriptionWithinTotal`, `NoSessionHoldsNothing` |
| `BillingCloses` | 2 requests, no image, no fault | `ImplementsRequestCharge`, `EveryRequestCloses` |
| `BillingImageRefund` | image requests on the wallet | `RefundReturnsReservation` is **violated** (finding 1) |
| `LedgerBooks` | 3 operations of any type, amounts {1, 2}, quota 2, ceiling 3, every Redis and batch mode, 1 fault, 1 restart | `TypeOK`, `ResultsMatchBooks`, `CacheTracksBooks`, `ReservesCovered` |
| `LedgerFlush` | 3 operations, batch mode, no fault | `BooksReachRow` |
| `LedgerOverdraw` | reservations only | `NeverOverdrawn` is **violated** (finding 2) |
| `TaskRaces` | 1 task, 2 workers, quotas {1, 2}, cutoff 2, 2 polls, 1 fault, 1 restart | `TypeOK`, `OneFinalizer`, `RowHoldsCharge`, `TerminalIsBilledUnlessBypassed`, `FinalIsFinal`, `EveryTaskEnds` |
| `TaskFetch` | 1 Gemini or Vertex task, 2 workers | `TerminalIsBilled` is **violated** (finding 3) |
| `AuthTabs` | 2 tabs, 2 sessions, with Web Locks and 3 acts or without and 2, 1 failing exchange or reload, 1 abandoned request | `TypeOK`, `ActiveSessionsAreNotRefused`, `JarIsCurrent`, `NoSilentAccountSwitch`, `RefreshSettles`, `RejectedCallLeavesDeadSession` |
| `AuthSignOut` | 2 tabs, 1 session | `SignOutRevokes` is **violated** (finding 4) |
| `Playground` | 3 acts, 2 requests, replies of 2 different words, 4 stored messages | `TypeOK`, `GeneratingIffLive`, `NothingPendingAtRest`, `ReplyInOrder`, `ReplyIsPrefix`, `FinishedReplyIsWhole`, `StoppedReplyIsFrozen`, `StoredCatchesUp` |
| `PlaygroundTexts` | 3 acts, 1 request, replies of 4 words that repeat or of none, texts loaded up to 2 pieces, conversations up to 3, stored up to 6, sections collapsed from 3 pieces and 2 headings on | `ReplyInOrder`, `ReplyIsPrefix`, `FinishedReplyIsWhole` |

Why the bounds are enough to be interesting.  Two requests that want up to 2
each cannot both be served from a wallet or a token of 3, so every balance check
is met on both sides and with the other request between check and use; one retry
gives an attempt that raises a reservation made by an earlier one; one fault may
hit any write, a second one would only hit the compensation of the first, which
`lost` already marks.  A quota of 0 (the free model, and the minimum of 1 of a
subscription) multiplies the states: the same invariants were checked once with
quotas {0, 1, 2} and a fifth profile, 11 million states, and section 4 proves
them for every quota.  In the ledger three operations allow a reservation
between a flush and an expiry with a third party filling the cache; a ceiling
of 3 with an initial quota of 2 is hit by a credit of 2.  Tasks share nothing but the
bounds, so one task is enough; two workers give a winner and a loser with a
stale copy, and each may take up the task again after its pass (the safety
properties were checked once with three workers, 743 thousand states, and
section 4 proves them for any number); two failed polls reach the cutoff.

Two tabs and two sessions give every mismatch of tab, cookie and row; three acts
with locks cover two refreshes and a sign-in, a sign-out or a revocation between
them (four acts, without the liveness properties, 7 million states, show
nothing new).  In the playground two requests let a late event of one reply meet
the next; two pieces make a buffered chunk differ from the reply; three acts are
a send, a stop or an edit, and a second send or a visit elsewhere.  What happens
to a text is asked apart (`PlaygroundTexts`): four words allow a part that
repeats the reply so far, one that repeats only what is buffered, a section that
comes back, and a text that is collapsed and then still too long; one send and
two visits load a shortened text again.  The limits are so small that every
branch of a load is taken.  The five replies stand for the ways in which words
can repeat; all sixteen over two words were checked once, 4 million states.
Without `Ambiguous`, or without `shortened`, TLC finds `ReplyIsPrefix` violated
there.  Runs that may
stop (a browser at rest, a page after the last act) do not check deadlock.

### Fairness

* `BillingSession`: weak fairness of the steps of a request that has started and
  of its refund goroutine.  Both are goroutines; the calls they wait for have
  timeouts.  Whether a request is made at all is not fair.
* `QuotaLedger`: weak fairness of each operation, of its goroutine and of the
  batch loop, which runs for ever (`InitBatchUpdater`).
* `TaskBilling`: weak fairness of a pass that has begun, of the submission's
  settlement and of the sweep of an unfinished task: the scheduler runs every 15 seconds and
  `TaskTimeoutMinutes` is positive.  Polls and fetches are not fair: upstream may
  never be asked.
* `AuthSession`: per tab, weak fairness of its event loop together with the
  serving of the requests it still waits for and the arrival of their answers
  (a failed exchange is an answer too).  The user, timers, other devices and
  abandoned requests owe nothing.
* `Playground`: weak fairness of the render and of the two timers, which the
  browser runs.  The user, the network and the server owe nothing.

## 4. Proofs

Eight modules hold proofs.  They speak about every set of requests, operations,
tasks, workers and tabs, every quota and amount, and every value of the bounds
that TLC needs.  They assume only what the modules state about their constants:
`BillingAssumption` (finitely many requests, quotas natural numbers, fees
positive, profiles well formed), `LedgerAssumption` (finitely many operations,
positive amounts, an initial quota within the ceiling), `TaskAssumption`,
`AuthAssumption` and `PlaygroundAssumption` (the bounds and limits are natural
numbers; answers are within the bound, and a text may have one piece at least).
TLC evaluates each of them in the runs.

| Module | Theorem | Statement |
|---|---|---|
| `BillingSessionProofs` | `Accounting` | `Spec => []IInv` |
| | `TypeCorrect` | `Spec => []TypeOK`; in particular no refund gives back more than was taken |
| | `ReservationHeld` | `Spec => []OpenSessionHoldsReservation` |
| | `SettlementExact` | `Spec => []SettledExactly` |
| | `RefundComplete` | `Spec => []RefundReturnsReservationExceptImages` |
| | `RejectionFree` | `Spec => []NoSessionHoldsNothing` |
| `BillingBalanceProofs` | `Balances` | `Spec => [](IInv /\ BalanceInv)` |
| | `DebtHasCause` | `Spec => []DebtIsExplained` |
| | `SubscriptionNotOverused` | `Spec => []SubscriptionWithinTotal` |
| `RequestChargeProofs` | `ChargeRefined` | `Spec /\ []Faultless => ImplementsRequestCharge` |
| `QuotaLedgerProofs` | `LedgerAccounting` | `Spec => []IInv` |
| | `TypeCorrect` | `Spec => []TypeOK` |
| | `BookedExactlyOnce` | `Spec => []ResultsMatchBooks` |
| | `CacheIsBooks` | `Spec => []CacheTracksBooks` |
| | `NoOverdraft` | `Spec => []ReservesCovered` |
| `TaskBillingProofs` | `TaskAccounting` | `Spec => []IInv` |
| | `TypeCorrect` | `Spec => []TypeOK` |
| | `SingleFinalizer` | `Spec => []OneFinalizer` |
| | `RowIsCharge` | `Spec => []RowHoldsCharge` |
| | `FinishedIsBilled` | `Spec => []TerminalIsBilledUnlessBypassed` |
| | `FinishedStays` | `Spec => FinalIsFinal` (an action property) |
| `AuthSessionProofs` | `Inductive` | `Spec => []IInv` |
| | `TypeCorrect` | `Spec => []TypeOK` |
| | `SessionsSurviveRefreshes` | `Spec => []ActiveSessionsAreNotRefused` |
| | `JarCurrentAtRest` | `Spec => []JarIsCurrent` |
| | `AccountsDoNotSwitch` | `Spec => NoSilentAccountSwitch` (an action property) |
| `PlaygroundProofs` | `ChatAccounting` | `Spec => []IInv` |
| | `TypeCorrect` | `Spec => []TypeOK` |
| | `GenerationIsShown` | `Spec => []GeneratingIffLive` |
| | `NothingLeftPending` | `Spec => []NothingPendingAtRest` |
| | `ReplyKeepsOrder` | `Spec => []ReplyInOrder` |
| | `ReplyIsSent` | `Spec => []ReplyIsPrefix` |
| | `FinishedIsWhole` | `Spec => []FinishedReplyIsWhole` |
| | `StoppedStaysFrozen` | `Spec => StoppedReplyIsFrozen` (an action property) |

`SumTheorems` holds what the balances and the books need to know about sums over
a finite set.

### The arguments

**One request** (`BillingSessionProofs`).  `SettledExactly` depends on the delta
that `Settle` computes from `preConsumedQuota`, so on
`OpenSessionHoldsReservation`; that one depends on what a half-done `Reserve` has
taken (`reserveDelta`); and a refund is complete only if the amounts it returns
in three steps add up to the reservation.  `IInv` therefore states, for each
request: where control may be with which flags (`ControlInv`); how
`tokenConsumed`, `fundingConsumed`, `extraReserved` and `preConsumedQuota` relate
(`AmountInv`); and what each ledger holds at every control point and refund step
(`FundingInv`, `TokenInv`).  Where a write was lost the equalities weaken to lower
bounds, which is what keeps the ledger entries natural numbers.  `Exact(r)`
singles out the requests whose funding source remembers the whole reservation;
images on a wallet are the others (finding 1).  There is one lemma per action,
which shows that the action keeps the invariant of its request and leaves the
others alone; `NextInv` collects them.

**All requests** (`BillingBalanceProofs`).  Only a part of a wallet charge was ever
compared with the balance: not what `Reserve` adds to a request that is not an
image, not a settlement above the reservation, not a fee.  `Covered` is the part
that was, and `BalanceInv` says that the covered parts together fit into the
wallet's initial quota, and the subscription charges into its total.  Every
action is `Checked`: it grows neither sum beyond what the balance it looked at
allows.  A wallet below zero must then have a request whose charge is not
covered, and each clause of `DebtIsExplained` names one way to get there.

**The refinement** (`RequestChargeProofs`).  Each action is a hold, a commit, a
release or a stutter of its own request and a stutter of the others.  The
premise `[]Faultless` (no ledger write fails, no request is an image) is that of
the run `BillingCloses`; both exceptions are real (the code only logs a failed
compensation; finding 1).

**The wallet** (`QuotaLedgerProofs`).  `ResultsMatchBooks` is inductive next to
`ControlInv`, which says what an operation carries at each point.
`CacheTracksBooks` is not: `CacheInv` writes the cache as the books plus one
*lead* per operation, what it has moved in one of the two places only, so that a
step changes one lead.  `CoveredInv` says why no reservation overdraws: what
reservations have taken from the cache and not yet written is held against the
books, and a lead is never above what its operation holds.

**Tasks** (`TaskBillingProofs`).  While a row is pending, every copy that may still
win the CAS agrees with it on the quota (`CopyInv`), which is why a write from a
stale copy does no harm; once it is finished, either one worker owns it
(`OwnerInv`) and the ledgers are where that worker's step has brought them
(`ProgressInv`), or nobody does and they show the final charge.

**The login** (`AuthSessionProofs`).  The lock leaves one refresh exchange under
way in the whole browser (`LockInv`, `ExchangeInv`); the cookie is attached when
its request leaves, and that of the answer is stored before the lock is released
(`FreshInv`).  A rotation ages every copy of the token, and the only copies are
the served request and the jar, which the answer replaces.  The token of a
sign-in is nowhere else until its answer arrives (`LoginInv`), or it could age on
the way.  A request whose client is gone breaks the argument; that is what
`astray` records.  Each action is unfolded once, to show which of a few forms of
step (`Step`) it has, and each part of the invariant is shown to survive each
form.

**The chat** (`PlaygroundProofs`).  Generation counter and stream controller move
at the same steps, so a call that holds the controller is that of the current
generation (`ControlInv`), and each flag says what that call is doing
(`FlagInv`).  From there on the argument is about four versions of one
conversation: the one shown, the one that comes when the queue is rendered
(`Coming`), the one persisted last and the one stored.  None of the properties is
inductive by itself, because a render replaces what is shown by what comes, and
a save, a reload and a new visit show what was stored.  The invariant therefore
speaks of all four:

* `QueueInv`: what waits in the queue is of the current generation, but for a
  first updater that React has run already, whose result is what was persisted.
  So a stop, which moves the generation on, makes every queued updater idle.
* `ConvsInv`: shown, coming and persisted are the same but for the reply being
  generated; each, and the stored one, has unique keys, texts within what was
  sent, and at most its last message pending (`ConversationOK`).
* `ReplyInv`: while a request runs, the text of the reply that comes has its
  place in what was sent before the place of the chunks that wait (`Arriving`);
  the two end where what was sent ends, and are together exactly that if no part
  can be taken for a snapshot (`Exact`); once none runs, nothing that comes is
  pending.
* `WholeInv`: finished replies are whole, or have their end, in what comes, and
  in what is stored while the page is away.
* `PageInv` ties the rest to it, among it that an editor that is open during a
  generation holds an earlier message, which is why an edit saved over what is
  shown cannot touch the running reply.

Every step that changes the conversation is one of a few: an update of the last
message arrives, the queue is rendered, a conversation gets a new reply, some
messages of a conversation are kept (regenerate, delete, trim), one is edited,
some are repaired (load).  There is a lemma for each about conversations alone.
`Kept` says what a step leaves of earlier replies; it gives
`StoppedReplyIsFrozen`, as a stopped generation is below the current one.

**Texts that repeat** (`PlaygroundProofs`).  When words repeat, a text does not say
where in the answer it is from, so the invariant cannot compute it and says
that places exist: `Within(t, s, a, b)` is an increasing map from the pieces of
`t` into the part of `s` from `a` to `b`.  Parts put one after the other,
one replaced by another that starts with it, a part of a text, and a text
without the mark of a truncation keep such a map.  Whether a reply is also the
beginning, or the whole, of what was sent depends on `Told`: a generation is
`loose` once a load has shortened its reply or a part of it has echoed another,
and it stays so when more is sent (`EchoesStay`).  As long as it is not, no merge
confuses anything and the reply is known exactly (`MergeParts`); afterwards its
last piece is still that of what was sent, because both branches of the merge end
with the new chunk, and a collapse keeps the end, and a truncation leaves its mark.

**The queue** (`PlaygroundProofs`).  `Applied` is a fold of the library: the
`CHOOSE` of a recursive function on sets of indices.  That such a function exists
and is a path of conversations, one updater apart, whatever the length of the
queue, is proved by minimal counterexample.  Two facts remain and are all the
rest uses: one more updater is applied last (`AppliedMore`), and updaters that do
nothing change nothing (`AppliedIdle`).

**Sums** (`SumTheorems`).  The library defines a sum by the `CHOOSE` of a recursive
function on the subsets, and its induction rules take an operator, which the
provers cannot instantiate.  That the function exists, is unique, and that
adding an element or changing one summand changes the sum as it should, is
proved by minimal counterexample: a set of bad subsets of a finite set has a
smallest member, and the one below it is good.

The inductive invariants were checked by TLC before they were proved.  Three
definitions were restated for the proofs: the cases of `Lead` in `QuotaLedger`
overlapped and are now exclusive, and `Unqueued` in `AuthSession` and
`removeMessage` in `Playground` no longer use `SelectSeq`, which the prover
cannot unfold.  The code filters the conversation by key; that one message at
most has the key, so that removing one is the same, is part of `TypeOK`.

### What is only model-checked

Liveness: `EveryRequestCloses`, `BooksReachRow`, `EveryTaskEnds`,
`RefreshSettles`, `RejectedCallLeavesDeadSession`, `StoredCatchesUp`.  Fairness
and `ENABLED` are outside the prover.  Every invariant and every action property
that a passing run checks has its theorem.

## 5. Findings

1. **An image's raised reservation is refunded short** (`BillingImageRefund`).
   `WalletFunding.PreConsume` assigns `consumed` (`service/funding_source.go:53`).
   `Reserve` calls it again for image requests with the increment alone, so a
   refund returns the increment and keeps the first reservation.
   `funding_source.go:22` says that `Refund` returns all of the pre-consumed
   quota.
2. **A stale row authorises a second spend** (`LedgerOverdraw`).  After the hash
   expires, `TryReserveUserQuota` hydrates it from a row that lacks the deltas
   of the batch store (`model/quota_reserve.go:178`).
   `model/quota_reserve_test.go:120` asserts "stale DB balance must not authorize
   a second spend".
3. **A fetch ends a task without billing it** (`TaskFetch`).  `tryRealtimeFetch`
   writes a terminal status (`relay/relay_task.go:580`) and never calls
   `finalizeTerminalTask`, which `service/task_polling.go:625` describes as run
   exactly once by the winner of the status CAS.
4. **A sign-out that revokes nothing** (`AuthSignOut`).  Without a valid access
   token `AuthLogout` revokes by the refresh cookie alone, and a cookie that is
   no longer the current token revokes nothing (`model/user_session.go:628`); the
   answer is success all the same.  `docs/authentication.md:61` says that the
   endpoint revokes the current login session.

The properties of the passing runs state what is left: they exclude images on a
wallet, the use of a stale row (`stale`), and rows ended by a write that does
not bill (`bypassed`).  Two exclusions of the console's models are behaviour
worth knowing too: a session whose rotated token was lost on the way is revoked
by the next refresh after 30 seconds (`astray`), and an edit saved while a reply
is running overwrites the updates that were not rendered yet (`overwritten`),
after which that reply may have a gap or stay pending.

Three behaviours of the chat that no doc or comment of the code rules out are
named in its properties as well.  A part of a reply that starts with the text so
far, or with what is buffered, is taken for a snapshot, and the reply loses
pieces (`Ambiguous`); which ones depends on the moment of the flush.  A load
shortens texts that are long or repeat their sections, and stores them so
(`shortened`).  A stream that is closed without `[DONE]` leaves the page
generating (`Hanging`).

`CacheTracksBooks` and `ReservesCovered` also require that no call failed and
no process restarted, because the code only logs these; `ResultsMatchBooks` does
not, and counts what a restart or a failed flush drops.

## 6. Plan

Done: the core, in the order request session, wallet, tasks; the console's login
and chat; the proofs of section 4.

Next modules, most important first:

1. `SystemTask`: claim, lease renewal, expiry and takeover by several nodes with
   unsynchronised progress; at most one live owner may write, a paused owner's
   writes are refused, every enqueued task ends.
2. `Subscription`: pre-consume records, idempotence by request id, refund in
   its own transaction with `refundWithRetry`, periodic reset between
   pre-consume and refund, several subscriptions of one user.
3. `RealtimeBilling`: the charges of the turns against the final settlement, and
   the counters shared by two goroutines without a lock.
4. `UserAuthCache`: the version fence between a snapshot and a role change.
5. Top-up orders (status machine, repeated callbacks), redemption codes and
   Midjourney tasks.

Runs: `TaskBulkUpdateByID` against the warning at `model/task.go:566`; the
composition of `QuotaLedger` with `Subscription` under a session.

Proofs.  Every safety property that the passing runs check has its theorem.  Next:

1. Action properties of the ledgers: a closed request's charge and a returned
   operation's booking never change again.
2. The lease invariant of `SystemTask`, once it is modelled.

## 7. Not modelled, and why

* Prices and billing expressions: floating point; the models take any quota they
  may produce.
* Provider adaptors and format conversion: pure and large, without shared state.
* Streaming, request bodies, disk cache: I/O around one request.
* Channel selection: its weighted random choice is not a question for a model
  checker; its outcome is an arbitrary attempt.
* Options, metrics, logs: no decision of the modelled parts depends on their
  timing.
* The console's pages: tables, dialogs, drawers, editors, settings forms,
  translations and generated routes.  They are by far most of the lines under
  `web/`; each renders server data and posts a form, with no state beyond the
  form's and no protocol with another part.  A model of them would only repeat
  their layout.
* Saturation of batch deltas at the limits of the integer type: wallet quotas
  are bounded far below (`common.MaxWalletQuota`), the models use unbounded integers.
