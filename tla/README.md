# Sub2API: models, checks and proofs

Sub2API is a gateway that resells access to model APIs. Users buy balance or
subscriptions, requests are scheduled over upstream accounts and charged to the
balance. This directory holds TLA+ models of the parts of its Go backend
(`backend/internal`) where money or exclusive access is at stake, the TLC runs
that check them on small instances, and proofs for every instance.

## The system

| Component | State | Operations | What is hard | What makes it correct |
|---|---|---|---|---|
| Payment orders and fulfilment (`payment_order*.go`, `payment_fulfillment.go`, `redeem_service.go`) | `payment_orders`, redeem codes, audit log, the provider's payment | create, callback, verify, cancel, expire, reconcile, retry | any number of goroutines on one row, stolen leases, repeated callbacks, calls that fail after their commit | delivered once, only if paid, eventually; never cancelled after it was paid |
| Payment refunds (`payment_refund.go`) | the same row and log, the user's balance, the provider's refunds | request, prepare, execute, finalize | rollback that fails, pending refunds, balance spent meanwhile | charged at most once, given back or marked, refunded means paid back |
| Request idempotency (`idempotency.go`) | `idempotency_records` | execute, expire | expiry during execution, reclaim races | one execution per key and lifetime |
| Batch image jobs (`batch_image_*.go`) | job row, items, Redis queue and lock, balance hold, the provider's job | submit, cancel, process, settle, recover, clean up | queue, row and money written one after the other by four kinds of processes, locks that run out | charged what was delivered or refunded, never both, always in the end |
| Concurrency slots (`concurrency_service.go`, `concurrency_cache.go`) | sorted sets in Redis | acquire, release, wait, reclaim | dead processes, expiry of live slots | never more than the limit, no leak |
| Usage billing and billing cache (`usage_billing*.go`, `billing_cache_service.go`, `usage_record_worker_pool.go`) | balances, dedup rows, caches, queues | record usage, charge, flush | retries, full queues, stale caches | one charge per request |
| Scheduler snapshot and outbox (`scheduler_snapshot_service.go`) | outbox rows, watermark, bucket epochs, versions and snapshots, lifecycle lease | append, poll, full rebuild, retire, reopen, fall back | events committed out of order, rebuilds that end late, leases that run out | nothing of a retired group is published, and a snapshot eventually reflects every change |
| OAuth token refresh (`token_refresh_service.go`) | account credentials, locks | refresh in the background or on demand | two refreshes with one refresh token | credentials are not overwritten by older ones |
| OpenAI WebSocket pool (`openai_ws_pool.go`, `openai_ws_state_store.go`) | connections and their leases | acquire, release, evict | eviction against acquisition | a connection has one user |
| Prompt audit (`securityaudit/prompt_*.go`) | audit jobs | enqueue, claim, complete | claims that expire | every prompt is audited or dropped on record |
| API key cache (`api_key_auth_cache_*.go`, `auth_cache_invalidation_outbox.go`) | two cache levels | load, invalidate | a load that started before an invalidation | revoked keys stop working |
| System operation lock (`system_operation_lock_service.go`) | one row of `idempotency_records` | acquire, renew, release | renewals that fail, rows taken over | one update, rollback or restart at a time |
| Leader lock, message queue | Redis keys, advisory locks | acquire, release | TTL shorter than the job, fallback | at most one leader per backend |

Components meet in the database: orders call the redeem service, subscriptions
and the affiliate service inside their own transactions; refunds take over the
row of a completed order; everything that changes a balance invalidates the
billing cache. `PROJECT.json` lists all components, including those that are
left out, and the hazards at their lines.

## Modules

**PaymentFulfillment** is the state machine of payment orders. A *worker* is a
goroutine: a web request, a provider callback, the sweep that runs every
minute, an administrator. `pc` names the next SQL statement, SQL transaction or
provider call it will make; each is one step, so the steps of workers interleave
as they do in the program. What a worker has read before matters only where the
code uses it later: whether the trade number was known, and the version of its
lease.

* `updated_at` serves the code twice, as the age of an order (grace of an expired
  order, lease of a RECHARGING one; both five minutes) and as the version of the lease. The model has
  `fresh` for the first and `holders`, the workers whose remembered version is
  the current one, for the second. Every UPDATE of the row goes through
  `WriteRow`, which renews both, as ent's `UpdateDefault` does.
* A call that fails is a step guarded by `Fault`; faults, crashes and leases
  outlived by their holders share the bound `MaxFaults`. Calls that fail after
  their commit (the read at the end of `Redeem`, the cache invalidation at the
  end of a subscription's assignment) take effect and fail. Reads whose errors
  the code drops may fail when `SwallowsFaults`.
* The comparisons of amount, provider and merchant in `confirmPayment` count as
  failed calls. The refund statuses are one value, `REFUND`, moved by `MoveRefund`.

**PaymentPromise** says what a buyer may expect: an order is charged, delivered
once, its rebate decided once, then closed. PaymentFulfillment is shown to
implement it with the mapping `Promise`.

**PaymentRefund** is `payment_refund.go` for one balance order, with the user's
balance in units. `refund` counts, for each amount, the provider's refunds that are open and
those that were paid. What a repeated request does depends on the adapter. Alipay gets a new
`OutRequestNo` with every call and EasyPay no number at all, so a repeat is another refund
(`UnkeyedRefund`); EasyPay's second attempt within a call comes only after "order not found". Wxpay,
Stripe and Airwallex get a key made of order and amount, by which a repeat finds the refund that is
there (`KeyedRefund`); Stripe's idempotency keys are taken as lasting. The first two are the ones that cannot be
queried, so `Queryable` tells both. `doubt` remembers that the provider lost an answer or left one
pending. `taken` counts, for the properties,
what refunds took from the balance and have not given back. The audit rows
`REFUND_ROLLBACK_FAILED`, `REFUND_PENDING` and `REFUND_SUCCESS` are state because the
code reads them; they are unique per order and action (migration 131), so a
second row is refused and its error dropped. The provider accepts refunds up to
the payment in total. Orders of subscriptions, and orders without a trade number, are left out.
**RefundPromise** is what a refund promises: the user is charged once at a time, may be given
the charge back, and the order counts as refunded, for good, only after the provider paid
that amount; from then on the provider is asked for nothing more. It counts every request and every payment,
so that a refund that is paid twice is seen as two payments, both asked for before. PaymentRefund implements it with the mapping `Promise` of that module.

**IdempotencyRecords** is the table `idempotency_records` for one scope and key, one
operator per SQL statement, with a clock in ticks. **IdempotentExecute** is
`IdempotencyCoordinator.Execute` on it: a request computes its expiry and lock when it
begins (`start`), then each statement and the guarded operation are steps. An
operation that fails has no effect; a stored response that was truncated
(`Oversized`) cannot be decoded again. **SystemOperationLock** is the service of
that name on the same table, with the goroutine that renews the lock. Both include
the cleanup of expired rows. `Tick` lets time pass only while requests keep
their bounds: `MaxClaim` for the statements that claim a row, `MaxRun` for the
operation. The code enforces neither; `BoundsAssumption` states what it takes for
granted about them, and the table of runs gives their values.

**BatchImageJob** is one batch image job. `spc`, `upc`, `rpc` and `wpc` are the next steps
of `Submit`, of a request of the owner (`Cancel`, or `Submit` repeated with the same key), of
`ReleaseStaleUnsubmittedOnce` and of each worker; an SQL transaction, a Redis script or a
call of the provider is a step. It EXTENDS two modules with the state the steps share:

* **BatchImageBilling**: the balance, the frozen balance and the request ids in
  `usage_billing_dedup`. A hold, a capture and a release each claim their id and move money
  in one transaction. `moves` and `charge` are histories. A release that finds no hold
  commits its claim and moves nothing (`SkipRelease`).
* **BatchImageQueue**: ready list, active set, delayed set, inflight key and job lock. The
  lock holds the token of a worker, or `Orphan` when that worker died.

Failed calls, deaths, lost locks and stalls share the bound `MaxFaults`. Two histories
say where the code gives up: `lost`, a process other than a worker died, or Redis did
not take a retry; `overlap`, a worker went on after its lock had run out. The images are
reduced to what they cost (`output`, and `price` once the result is indexed). `code` says whether
`last_error_code` is one of the settlement's, which `isBatchImageSettlementRetryExhausted` asks for.
The account of a job may be removed (`gone`), after which neither workers nor `Cancel` get
beyond resolving it. The checks of `Settle` for a missing API key or account id
are left out: `Submit` creates the row with both.

**SchedulerSnapshot** is `SchedulerSnapshotService` for one bucket of one group, with the
outbox. Some changes of accounts insert their event in the same transaction (`ChangeAccount`, `CommitAccount`;
`open` is the id it has reserved). Others (`Create`, `Delete`, `ClearError`, `AddToGroup`,
`RemoveFromGroup`, `BindGroups`), and all changes of groups, commit first and insert the event in a statement
of its own, whose failure is only logged (`SaveAccount`, `ChangeGroup`, `EnqueueEvent`; `owed` has the events
that are still missing). Pollers
and full rebuilds of any number of processes, and requests that find no snapshot, go
through the same pipeline of token, lock, load, version, accounts and switch. Accounts are a
revision number, so a snapshot is the revision it was loaded at; account keys are written for the
accounts in the bucket, and for none if it is empty (`EmptyRevs`). An account that left the bucket
keeps its old keys, which no snapshot names. **SchedulerCache** is
the Redis side, one operator per script. Version numbers only are compared, so the model keeps
their order: `inflight` has the writers whose version is newer than the active one, `older`
which of those came before which. That keeps the state finite however often a
bucket is rebuilt. `retirements` counts retirements, and a token remembers the
count when it was captured.

The modules **MC...** instantiate these for TLC, with symmetry sets, payloads and constraints
where they are needed. The modules **...Proofs** hold the proofs. Definitions called *Mutant* are
plausible mistakes in the definition that follows them; each property is known
to fail with one of them.

## Runs

| Run | Checks | Bounds |
|---|---|---|
| `payment_orders` | the inductive invariant `Consistent`, `DeliveredOnce`, `DeliveredOnlyIfPaid`, `CompletedMeansDelivered`, `PaidIsRemembered`, `KeepsPromise`, `SettledIsFinal` | 1 order at a time, of balance or a subscription, 2 workers, 2 faults, dropped reads fail |
| `paid_order_liveness` | `PaidOrderIsHandled`, `AckedIsHandled` | 1 order, 2 workers, 1 fault, fairness, dropped reads succeed |
| `refund` | `TakenOnce`, `GivenBackOrMarked`, `RefundedIsPaidBack`, `OneRefunder`, `NoOverdraft`, `NothingMoreIsTaken`, `KeepsRefundPromise` | 2 administrators, amount 2, balance up to 3, 2 faults, provider without queries |
| `refund_query` | `NeverRefundedUnpaid`, `NoOverdraft` | 1 request at a time, amount and balance 3, 2 faults, provider with queries, audit log may fail |
| `idempotent_execute` | `ReplayIsTrue`, `OnceUntilExpiry`, `OneAtATime` | 4 requests, one with another payload, one response truncated, 1 fault, TTL 3, lock 2, 5 ticks; claims within 1 tick, requests within 2 |
| `system_lock` | `MutualExclusion`, `InserterKeepsLock` | 3 operations, lease 4, renewed every tick, TTL 5, 10 ticks, 1 fault; claims within 1 tick, operations within 6 |
| `batch_image` | `CompletedIsPaid`, `RefundedIsOver`, `EndedIsReleased`, `NeverReopened`, `QueuedIsSettled` | 1 job, 2 workers, hold 2, images for 1 or 3, 2 settlement attempts, 2 faults, fairness |
| `scheduler` | `NothingFromBeforeRetirement`, `ConsumedIsHandled`, `LifecycleNeverGoesBack`, `Converges` | 1 poller, 1 full rebuild, 1 request, 2 of them at a time (`MaxBusy`), 1 change of accounts, 1 of the group, 1 fault, fairness |
| `stale_lease`, `refund_twice`, `expired_reclaim`, `batch_early_cancel` | one claim of a comment or document each, which the code does not keep | as above; the last two without faults |

Orders never interact, so one order is enough; a second worker is what every
race needs, and two faults let a lease be lost and a retry fail. Two units make
partial refunds possible and a third lets a second deduction succeed; an amount of three
allows two pending refunds of different amounts. A settled,
failed or expired order, and one that a crash left REFUNDING, needs no further
step, so deadlock is not checked; nor is it for requests and operations, all of which end.
Five ticks are a lifetime of a record and the beginning of the next; a reclaim race
takes two requests and a third that left the record. Batch image jobs share only the
frozen balance, of which other jobs have another hold's worth (`OtherFrozen`), so that a release too
many would succeed; one price is within the hold and one beyond it, which no settlement can
charge. In the scheduler two agents at a time make every race of two; a group that is
gone at first and comes back, or the reverse, retires and reopens the bucket. The proofs
have no such bounds. Settled jobs and a scheduler at rest may stop.

*Fairness* (`FairSpec`): a goroutine takes its next step; the provider repeats a
callback until it is acknowledged, and the sweep starts every minute, both with
a goroutine of their own, hence strong fairness over the few workers of the
model; time passes. Buyers and administrators owe nothing. In `BatchImageJob` the loops of the
workers, of the delayed mover and of the stale recovery run for ever, Redis drops expired locks,
and the provider ends every job; nothing is assumed of the owner or of `Submit`. In
`SchedulerSnapshot` a worker that has begun goes on, locks and leases run out, and the ticker
of `runFullRebuildWorker` finds the worker idle again and again: strong fairness, since
`MaxBusy` may disable its start between two ticks. That a lease runs out only when its holder
has given up is the code's timing, a decision within 30 s under a lease of 60 s, and is built into the guard
of `LeaseExpires`. Nothing is assumed of the poll, so `Converges`
holds by the full rebuild alone; with an interval of 0 it would not.

### What the code does otherwise than it says

* `stale_lease`: `markFailed` claims that the lease version keeps a stale worker from
  overwriting a newer owner. The version is read back in a statement after the
  compare-and-set, so a worker that stalls between the two adopts its
  successor's version and can fail its order. The buyer still is not credited twice
  (`DeliveredOnce` is proved with this behaviour in the model).
* `refund_twice`: `ExecuteRefund` promises not to deduct again after a failed rollback, but
  `QueryAndFinalizeRefund` looks only at the `REFUND_PENDING` row, which is written
  after the status and whose absence reads as "rolled back".
* `expired_reclaim`: `TryReclaim` of an expired record does not ask whether it still is expired.
  Of two requests that read it, the second can reclaim it after the first was carried
  out and stored with the same status: both are carried out, one after the other.
  The cleanup makes this rare, since it deletes expired records every minute.
* `batch_early_cancel`: a failed submission is said to release its hold. A job can be cancelled
  once its row exists, before `Submit` reserves the hold. That release finds no hold, but its
  request id is claimed; the hold that `Submit` makes afterwards can no longer be
  released, neither by `Submit` nor by a worker or the owner.

Met while modelling, without a run of their own:

* A payment reported more than five minutes after expiry is refused on record and
  acknowledged; `docs/PAYMENT.md` promises reconciliation.
* An operation that takes over the row of the system operation lock leaves the
  fingerprint of its predecessor there, and the renewal asks for its own. Its first renewal finds
  nothing, and from then on it has only its first lease; only the operation that inserted the row is
  protected for longer (`InserterKeepsLock`). Once an operation has outlasted such a
  lease, its `Release`, by the id of the row alone, can also free the lock of its
  successor; `MutualExclusion` holds up to that point (`outlasted`).
* `failExhaustedSettlement` releases a hold that was captured when all later attempts
  fail before `MarkBatchImageJobSettled`; the amount comes out of the money frozen for other jobs.
* A refund by Alipay or EasyPay may be paid twice. After an answer that was lost or pending
  the order may be refunded again, and the second request is a new one to the provider, which pays
  it as long as the payment covers both. `RefundedIsPaidBack` excepts exactly that (`doubt`).
* A batch image job whose account is removed is requeued for ever with its hold frozen, and its owner
  cannot cancel it: `QueuedIsSettled` excepts it (`gone`).
* A repeated `Submit` whose `Enqueue` fails late writes QUEUE_FAILED over the error code of
  a settlement whose retries are used up. `failExhaustedSettlement` may have released the hold by then,
  and the settlement, tried once more, captures it (`Masked` in `CompletedIsPaid`).
* `DeleteConsumedUpTo` keeps rows for ten seconds so that slow transactions "can be consumed", but a
  row below the watermark is never listed; the full rebuild repairs what it announced.

With a provider that can be queried, `TakenOnce` and `OneRefunder` do not hold
for concurrent requests, since `finalizeRefundFailed` has no condition on the
status, nor does `NothingMoreIsTaken` (`refund_twice`). `RefundedIsPaidBack` fails there even for one
request at a time and without a fault: a refund of 1 is pending, a second one of 2 is accepted and
pending too, and the provider pays the first. The unique index keeps the
`REFUND_PENDING` row of the first refund, so `latestRefundPendingDetail` asks about that one, and
`finalizePendingRefundSuccess` deducts 2 and marks the order refunded with 2, of which only 1 was
paid. What always holds is `NeverRefundedUnpaid`. The other properties are checked and proved for
providers without queries.

A crash in `ExecuteRefund` leaves the order REFUNDING, which no operation accepts; the models
have that state, and the code has no recovery whose correctness could be stated.

## Proofs

`PaymentFulfillmentProofs` proves, for any set of orders, any number of workers and
any number of faults:

* `TypeCorrect`: `Spec => []TypeOK`;
* `AlwaysConsistent`: `Spec => []Consistent`, from which follow `NeverDeliveredTwice`,
  `NeverDeliveredUnpaid`, `CompletedWasDelivered`, `AcceptedIsRemembered` and
  `AcknowledgedWasHandled`;
* `ImplementsPromise`: `Spec => KeepsPromise`, and from it `SettledStaysSettled`.

Assumptions: the sets that describe providers are sets of orders, `MaxFaults` is a
natural number; `AcknowledgedWasHandled` also assumes that no dropped read fails.

None of the properties is inductive by itself. "Delivered at most once" rests on
the marker written in the transaction of the delivery (the used redeem code, the
audit row `SUBSCRIPTION_ASSIGNED`): `OrderInv` says that the count of deliveries
is one exactly if the marker is there, and that later markers imply earlier
ones. "Completed means delivered" also needs to know what a worker may conclude
from having come to a step: `At` says, for instance, that the provider was paid
at every step after the confirmation, and that the marker exists once a worker
is about to decide the rebate. `SoleCreator` keeps the request that creates the
provider's payment alone. Their conjunction with `TypeOK` is `Consistent`.

The proof that a step keeps `Consistent` is split by what it writes. A worker's
knowledge about an order only mentions facts that no other worker takes away,
so one lemma (`BystanderKept`) covers all the others, and per action only the
order and the worker that moves are left.

`IdempotentExecuteProofs` proves, for any requests, payloads, times and number of faults:
`TypeCorrect`, `NeverTwoAtATime` (`OneAtATime`), `ReplaysAreTrue` (`ReplayIsTrue`) and
`CarriedOutOnce` (`OnceUntilExpiry`). They rest on `BoundsAssumption`: a claim is made in less
than the processing timeout, and an operation ends in less than the TTL of its record.

`Exclusive` is the inductive invariant behind the first two. A running request's record
is exactly as that request wrote it (`RunInv`); so it has not expired, is not deleted,
and cannot be reclaimed as failed. What is left is a request that read the
expired record before the running one reclaimed it: it began before that claim was
made (`StaleInv`), hence finds a lock later than its own start. `Lawful` adds that the
record has the payload of whoever works on it and that a stored response belongs
to a request that was carried out; `Once` adds that the record remembers this until
some record has expired (`SomeExpired`), after which `expired_reclaim` shows that nothing
stronger than `OneAtATime` holds.

`BatchImageJobProofs` proves, for any number of workers, prices, holds, retries and faults:
`TypeCorrect`, `CompletedJobsArePaid` (`CompletedIsPaid`, which excepts overlapping workers and the late
error code above), `RefundedJobsAreOver` (`RefundedIsOver`),
`EndedJobsAreReleased` (`EndedIsReleased`) and `JobsAreNeverReopened` (`NeverReopened`). The properties relate
the row to the money, which different transactions write, so `IInv` says what is
known in between: which claims and statuses go with every step of `Submit`, of the
owner, of the recovery scan and of each worker, that two workers hold the job only after an
`overlap`, and that whenever money is owed to the owner of an ended job, some process is about
to release it or the job is queued.

`SchedulerSnapshotProofs` proves, for any number of processes, requests, changes and faults:
`TypeCorrect`, `NothingPublishedFromBeforeRetirement` (`NothingFromBeforeRetirement`),
`EveryPassedEventIsHandled` (`ConsumedIsHandled`) and `LifecycleIsOrdered`
(`LifecycleNeverGoesBack`). Its `IInv` has four parts besides the types. `Numbered`: ids come from the
sequence and there are no more of them than changes. `Fenced`: a token with the current epoch of an open bucket
was captured since the last retirement. `Leased`: a worker between reading the group and deciding holds
the lease, and has read a group no older than the last decision. `Covered`: every id that the
watermark or a running poll has passed was handled, is in the poll's hands, or was
committed late.

`PaymentRefundProofs` proves, for any number of administrators, any amounts and any number of
faults, three layers, each from what is assumed of the provider and the audit log:

* For any provider, even if the audit log fails: `RefundedHadMoneyBack` (`NeverRefundedUnpaid`) and
  `RefundsNeverOverdraw` (`NoOverdraft`). The invariant `Honest` says that whoever is about to mark
  the order refunded has the provider's word for the refund it asked about, and that plans
  and rows have an amount from `PrepareRefund` on.
* If the provider cannot be queried: `TypeCorrect`, `RefundsExclude` (`OneRefunder`) and
  `RefundedInItsAmount` (`RefundedIsPaidBack`). `Sound` adds that the order is REFUNDING while a
  request is between its first and its last write of the status, and that what it may give back
  was taken (`MoneyInv`). `ExactInv` says that, unless there is a `doubt`, the provider has nothing open and
  has paid nothing but the refund that the request at work, or the row, claims: once, in its amount. Even the bound on the balance in `TypeOK` needs this: it is the rollback
  that could credit too much.
* If, besides, the audit log works (`~SwallowsFaults`): `ChargedAtMostOnce` (`TakenOnce`),
  `RetriesStartEven` (`GivenBackOrMarked`), `RetriesTakeNothing` (`NothingMoreIsTaken`) and
  `ImplementsRefundPromise` (`KeepsRefundPromise`). `Careful` adds, for every step of the request at work,
  how `taken` and its plan belong together: nothing is taken when it is about to deduct, exactly its plan
  when it calls the provider, unless an earlier rollback failed and it takes nothing.

The assumptions are hypotheses of the theorems, not of the module, and each is needed:
`refund_query` and `refund_twice` show what happens without the first, and a dropped
audit read makes a retry deduct again without the second. Alipay and EasyPay satisfy the first.

`SystemOperationLockProofs` proves, for any number of operations, however long they run:
`TypeCorrect`, `OperationsExclude` (`MutualExclusion`) and `InserterStaysLocked` (`InserterKeepsLock`).
They rest on `LeaseAssumption`: a record outlives its lock, and the lease is longer than a claim
and one renewal interval more than the renewals that fail. With the code's renewal at every third of
the lease that is one failed renewal, if a claim takes less than the last third. The invariant
`LockInv` says of the operation that holds the lock that the row is its own, is locked beyond now, and was
locked no earlier than its claim (`HolderInv`), until somebody has outlasted a lease (`outlasted`). `RenewInv`
holds beyond that: the operation that inserted the row and renews it is behind by at most
the renewals that failed (`Delay`), and nobody else has the row. `FreshInv` says that the
fingerprint in the row belongs to an operation that has inserted one, which tells the inserter
from an operation that took the row over.

Only model-checked: `PaidOrderIsHandled`, `QueuedIsSettled` and `Converges`, since liveness under
fairness is out of reach of the prover. Every other property of a passing run is a theorem.

## Not modelled

The adapters of payment providers (their signatures and formats), the gateway's
translation between vendor APIs, generated persistence code and the frontend
are outside. An error of a COMMIT that in fact succeeded is not modelled, except
where the code reads after a commit. Clock skew between application and
database is not modelled.

Of batch images: items one by one, the parsing of results, downloads, the deletion of
inputs, jobs that cost nothing. Of the scheduler: events of many accounts and of last use, the
simple mode, the coalescing of rebuild requests, the rebuild that a lagging outbox
starts; the code never enqueues the event that asks for a full rebuild. Nor are the single account
keys that the repository (`syncSchedulerAccountSnapshot`) and requests (`UpdateAccountInCache`) write
outside the outbox: the late write of an old account, which `SetAccount` of a poller already makes
possible, is their effect too, and the next rebuild repairs it. A Redis command that is executed
after its client has timed out and given up the lease is not covered.

## Plan

1. *(done)* PaymentFulfillment, PaymentPromise, PaymentRefund, RefundPromise and their proofs.
2. *(done)* IdempotentExecute and SystemOperationLock and their proofs.
3. *(done)* BatchImageJob with its queue and its hold, and their proofs.
4. ConcurrencySlots: Redis sorted sets with expiry and process reclaim.
5. UsageBilling: dedup rows, worker pool and billing cache.
6. *(done)* SchedulerSnapshot with its cache and outbox, and their proofs.
7. Subscription refunds; an abstract specification of the batch image hold and of the
   idempotency record, with proofs that the detailed ones implement them.
8. Token refresh, leader lock, WebSocket pool, prompt audit, key cache, as far as time allows.
