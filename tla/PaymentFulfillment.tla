-------------------------- MODULE PaymentFulfillment --------------------------
(***************************************************************************)
(* The life of a payment order from its creation to the delivery of what   *)
(* was bought: backend/internal/service/payment_order.go,                  *)
(* payment_order_lifecycle.go, payment_fulfillment.go and the parts of     *)
(* redeem_service.go they call.                                            *)
(*                                                                         *)
(* Any number of goroutines (web requests, provider callbacks, the 60 s    *)
(* sweep, administrators) work on the same row of payment_orders.  Each is *)
(* a worker here, and every SQL statement, SQL transaction or provider     *)
(* call is one step, so steps of different workers interleave freely.      *)
(***************************************************************************)
EXTENDS Naturals, FiniteSets

CONSTANTS
    Orders,               \* the orders under study
    SubscriptionOrders,   \* those of order_type subscription; the rest buy balance
    Workers,              \* concurrent goroutines (a bound of the instance)
    ReportsTradeNo,       \* orders whose provider answers a query with a trade
                          \* number that differs from the reference queried with
    Cancelable,           \* orders whose provider is a CancelableProvider
    Polled,               \* Alipay and WeChat orders, which the sweep polls
    MaxFaults,            \* bound on failed calls, crashes and stalls together
    SwallowsFaults        \* whether reads whose errors the code drops may fail

ASSUME OrdersAssumption ==
    /\ SubscriptionOrders \subseteq Orders
    /\ ReportsTradeNo \subseteq Orders
    /\ Cancelable \subseteq Orders
    /\ Polled \subseteq Orders

ASSUME FaultsAssumption ==
    /\ MaxFaults \in Nat
    /\ SwallowsFaults \in BOOLEAN

VARIABLES
    status,     \* payment_orders.status; "NONE" before the row exists
    fresh,      \* updated_at is less than five minutes old
    holders,    \* workers whose remembered lease version is the updated_at now
    owner,      \* the worker that took the lease last (history), in a set
    tradeNo,    \* payment_trade_no holds the provider's own number
    paidAt,     \* paid_at is set
    timedOut,   \* expires_at has passed
    refused,    \* audit row PAYMENT_AFTER_EXPIRY exists
    code,       \* redeem code of a balance order: "absent", "unused", "used"
    assigned,   \* audit row SUBSCRIPTION_ASSIGNED of a subscription order
    granted,    \* how often the goods were credited
    claimed,    \* audit row AFFILIATE_REBATE_APPLIED or _SKIPPED exists
    rebates,    \* how often the inviter was credited
    upstream,   \* the provider's payment: "none", "opened" (the buyer has no
                \* link yet), "unpaid", "paid", "closed"
    hook,       \* the provider's callback: "none", "due", "acked"
    pc,         \* next step of a worker
    at,         \* the order a worker works on
    job,        \* why it does
    knows,      \* the trade number was recorded in the row it read at its start
    faults      \* faults so far

rowVars == <<status, fresh, holders>>
markVars == <<owner, tradeNo, paidAt, refused>>
goodsVars == <<code, assigned, granted, claimed, rebates>>
envVars == <<timedOut, upstream, hook>>
workerVars == <<pc, at, job, knows>>
vars == <<rowVars, markVars, goodsVars, envVars, workerVars, faults>>

-----------------------------------------------------------------------------
(* Statuses.  psIsRefundStatus is all that fulfilment asks about the six   *)
(* refund statuses: they are one value here and apart in PaymentRefund.    *)

Statuses == {"NONE", "PENDING", "PAID", "RECHARGING", "COMPLETED",
             "EXPIRED", "CANCELLED", "FAILED", "REFUND"}

\* The statuses executeFulfillment and RetryFulfillment accept.
Fulfillable == {"PAID", "FAILED", "RECHARGING"}

Jobs == {"none", "create", "webhook", "verify", "reconcile", "cancel",
         "expire", "retry"}

Pcs == {"idle", "invoke", "record", "reject", "query", "persist", "close",
        "setcancel", "confirm", "topaid", "already", "execute", "acquire",
        "contended", "reload", "lookup", "mint", "check", "use", "assign",
        "rebate", "complete", "lost", "fail"}

\* A worker is here while it may believe that it holds the lease.
LeasePcs == {"reload", "lookup", "mint", "check", "use", "assign", "rebate",
             "complete", "lost", "fail"}

Settled == {"COMPLETED", "REFUND"}

-----------------------------------------------------------------------------
(* Steps of a worker.                                                      *)

Goto(w, p) == pc' = [pc EXCEPT ![w] = p]

\* The call is over; ok is whether it answers without an error.  A webhook that
\* answers without one is acknowledged and the provider stops retrying it.
Return(w, ok) ==
    /\ pc' = [pc EXCEPT ![w] = "idle"]
    /\ job' = [job EXCEPT ![w] = "none"]
    /\ knows' = [knows EXCEPT ![w] = FALSE]
    /\ hook' = IF job[w] = "webhook" /\ ok
               THEN [hook EXCEPT ![at[w]] = "acked"] ELSE hook
    /\ UNCHANGED at

\* Any UPDATE of the row: ent's UpdateDefault sets updated_at to now, so a
\* lease version remembered before it no longer matches.
WriteRow(o, s) ==
    /\ status' = [status EXCEPT ![o] = s]
    /\ fresh' = [fresh EXCEPT ![o] = TRUE]
    /\ holders' = [holders EXCEPT ![o] = {}]

\* A call to the database, Redis or the provider fails.
Fault == faults < MaxFaults /\ faults' = faults + 1

\* The call succeeds.
NoFault == faults' = faults

\* A worker picks up order o for the job j, having read the row.
Begin(w, o, j, p) ==
    /\ pc[w] = "idle"
    /\ pc' = [pc EXCEPT ![w] = p]
    /\ at' = [at EXCEPT ![w] = o]
    /\ job' = [job EXCEPT ![w] = j]
    /\ knows' = [knows EXCEPT ![w] = tradeNo[o]]
    /\ NoFault

\* A step that fails and ends the call with an error.
ErrorReturn(w) ==
    /\ Fault
    /\ Return(w, FALSE)
    /\ UNCHANGED <<rowVars, markVars, goodsVars, timedOut, upstream>>

\* A step that only reads and goes on to p.
Proceed(w, p) ==
    /\ NoFault
    /\ Goto(w, p)
    /\ UNCHANGED <<rowVars, markVars, goodsVars, envVars, at, job, knows>>

\* A step that only reads and ends the call.
Answer(w, ok) ==
    /\ NoFault
    /\ Return(w, ok)
    /\ UNCHANGED <<rowVars, markVars, goodsVars, timedOut, upstream>>

\* A failed step that sends the worker to p instead of ending the call.
FaultTo(w, p) ==
    /\ Fault
    /\ Goto(w, p)
    /\ UNCHANGED <<rowVars, markVars, goodsVars, envVars, at, job, knows>>

-----------------------------------------------------------------------------
(* Creating an order.                                                      *)

\* createOrderInTx: the row is inserted as PENDING and committed before the
\* provider hears of it.
CreateOrder(w, o) ==
    /\ status[o] = "NONE"
    /\ Begin(w, o, "create", "invoke")
    /\ WriteRow(o, "PENDING")
    /\ UNCHANGED <<markVars, goodsVars, envVars>>

\* invokeProvider up to prov.CreatePayment.
InvokeProvider(w) ==
    /\ pc[w] = "invoke"
    /\ \/ /\ NoFault
          /\ upstream' = [upstream EXCEPT ![at[w]] = "opened"]
          /\ Goto(w, "record")
          /\ UNCHANGED <<rowVars, markVars, goodsVars, timedOut, hook,
                         at, job, knows>>
       \/ FaultTo(w, "reject")

\* invokeProvider stores the trade number and the pay URL with no condition on
\* the status, then hands the URL to the buyer: from now on the payment can be
\* made.  A buyer who gets an error instead has nothing to pay with.
RecordPayment(w) ==
    /\ pc[w] = "record"
    /\ \/ /\ NoFault
          /\ WriteRow(at[w], status[at[w]])
          /\ upstream' = IF upstream[at[w]] = "opened"
                         THEN [upstream EXCEPT ![at[w]] = "unpaid"]
                         ELSE upstream
          /\ Return(w, TRUE)
          /\ UNCHANGED <<markVars, goodsVars, timedOut>>
       \/ FaultTo(w, "reject")

\* CreateOrder after an error of invokeProvider: FAILED, unconditionally, and
\* paid_at stays empty.
RejectOrder(w) ==
    /\ pc[w] = "reject"
    /\ \/ /\ NoFault
          /\ WriteRow(at[w], "FAILED")
          /\ Return(w, FALSE)
          /\ UNCHANGED <<markVars, goodsVars, timedOut, upstream>>
       \/ ErrorReturn(w)

-----------------------------------------------------------------------------
(* The calls that look at an order.                                        *)

\* handleNotify: the provider reports a successful payment, as often as it
\* likes and again until it is acknowledged.
Webhook(w, o) ==
    /\ hook[o] # "none"
    /\ Begin(w, o, "webhook", "confirm")
    /\ UNCHANGED <<rowVars, markVars, goodsVars, envVars>>

\* VerifyOrderByOutTradeNo and GetPublicOrderByResumeToken.
VerifyOrder(w, o) ==
    /\ status[o] \in {"PENDING", "EXPIRED"}
    /\ Begin(w, o, "verify", "query")
    /\ UNCHANGED <<rowVars, markVars, goodsVars, envVars>>

\* One order of ReconcilePendingPaymentOrders.
ReconcileOrder(w, o) ==
    /\ status[o] = "PENDING"
    /\ ~timedOut[o]
    /\ o \in Polled
    /\ Begin(w, o, "reconcile", "query")
    /\ UNCHANGED <<rowVars, markVars, goodsVars, envVars>>

\* CancelOrder and AdminCancelOrder.
CancelOrder(w, o) ==
    /\ status[o] = "PENDING"
    /\ Begin(w, o, "cancel", "query")
    /\ UNCHANGED <<rowVars, markVars, goodsVars, envVars>>

\* One order of ExpireTimedOutOrders.
ExpireOrder(w, o) ==
    /\ status[o] = "PENDING"
    /\ timedOut[o]
    /\ Begin(w, o, "expire", "query")
    /\ UNCHANGED <<rowVars, markVars, goodsVars, envVars>>

\* Mutant: a retry that trusts the status FAILED and does not look at paid_at.
RetryUnpaid(w, o) ==
    /\ status[o] \in Fulfillable
    /\ Begin(w, o, "retry", "execute")
    /\ UNCHANGED <<rowVars, markVars, goodsVars, envVars>>

\* RetryFulfillment, asked for by an administrator.
RetryFulfillment(w, o) ==
    /\ paidAt[o]
    /\ status[o] \in Fulfillable
    /\ Begin(w, o, "retry", "execute")
    /\ UNCHANGED <<rowVars, markVars, goodsVars, envVars>>

-----------------------------------------------------------------------------
(* Asking the provider: checkPaidWithOptions and cancelCore.               *)

\* Only cancelCore passes cancelIfUnpaid and goes on to change the status.
Cancels(w) == job[w] \in {"cancel", "expire"}

\* prov.QueryOrder.  When it fails, or the provider knows of no payment, the
\* order is treated as unpaid: cancelCore still cancels it.
QueryOrder(w) ==
    /\ pc[w] = "query"
    /\ \/ /\ upstream[at[w]] = "paid"
          /\ Proceed(w, IF at[w] \in ReportsTradeNo /\ ~knows[w]
                        THEN "persist" ELSE "confirm")
       \/ /\ upstream[at[w]] # "paid"
          /\ Cancels(w)
          /\ Proceed(w, IF at[w] \in Cancelable /\ upstream[at[w]] # "none"
                        THEN "close" ELSE "setcancel")
       \/ upstream[at[w]] # "paid" /\ ~Cancels(w) /\ Answer(w, TRUE)
       \/ Cancels(w) /\ FaultTo(w, "setcancel")
       \/ ~Cancels(w) /\ ErrorReturn(w)

\* The provider's trade number is stored with no condition on the status; the
\* write renews updated_at whatever the order has become meanwhile.
PersistTradeNo(w) ==
    /\ pc[w] = "persist"
    /\ \/ /\ NoFault
          /\ Goto(w, "confirm")
          /\ WriteRow(at[w], status[at[w]])
          /\ tradeNo' = [tradeNo EXCEPT ![at[w]] = TRUE]
          /\ UNCHANGED <<owner, paidAt, refused, goodsVars, envVars,
                         at, job, knows>>
       \/ FaultTo(w, "confirm")

\* cp.CancelPayment, its error ignored: a payment made meanwhile stands.
ClosePayment(w) ==
    /\ pc[w] = "close"
    /\ \/ /\ NoFault
          /\ Goto(w, "setcancel")
          /\ upstream' = IF upstream[at[w]] \in {"opened", "unpaid"}
                         THEN [upstream EXCEPT ![at[w]] = "closed"]
                         ELSE upstream
          /\ UNCHANGED <<rowVars, markVars, goodsVars, timedOut, hook,
                         at, job, knows>>
       \/ FaultTo(w, "setcancel")

\* Mutant: cancelCore without its WHERE status = PENDING.
SetCancelledUnchecked(w) ==
    /\ pc[w] = "setcancel"
    /\ NoFault
    /\ WriteRow(at[w], IF job[w] = "expire" THEN "EXPIRED" ELSE "CANCELLED")
    /\ Return(w, TRUE)
    /\ UNCHANGED <<markVars, goodsVars, timedOut, upstream>>

\* Mutant: cancelCore stores the outcome it returns instead of the status.
SetCancelledOutcome(w) ==
    /\ pc[w] = "setcancel"
    /\ NoFault
    /\ status[at[w]] = "PENDING"
    /\ WriteRow(at[w], job[w])
    /\ Return(w, TRUE)
    /\ UNCHANGED <<markVars, goodsVars, timedOut, upstream>>

\* The compare-and-set at the end of cancelCore.
SetCancelled(w) ==
    /\ pc[w] = "setcancel"
    /\ \/ /\ NoFault
          /\ \/ /\ status[at[w]] = "PENDING"
                /\ WriteRow(at[w], IF job[w] = "expire" THEN "EXPIRED"
                                                        ELSE "CANCELLED")
             \/ status[at[w]] # "PENDING" /\ UNCHANGED rowVars
          /\ Return(w, TRUE)
          /\ UNCHANGED <<markVars, goodsVars, timedOut, upstream>>
       \/ ErrorReturn(w)

-----------------------------------------------------------------------------
(* A payment is confirmed.                                                 *)

\* HandlePaymentNotification and confirmPayment, whose lookups may fail: the
\* first with an error, the second silently, which acknowledges the callback.
ConfirmPayment(w) ==
    /\ pc[w] = "confirm"
    /\ \/ Proceed(w, "topaid")
       \/ ErrorReturn(w)
       \/ /\ SwallowsFaults
          /\ Fault
          /\ Return(w, TRUE)
          /\ UNCHANGED <<rowVars, markVars, goodsVars, timedOut, upstream>>

\* The statuses from which a payment is still accepted.
Payable(o) ==
    \/ status[o] \in {"PENDING", "CANCELLED"}
    \/ status[o] = "EXPIRED" /\ fresh[o]

\* toPaid.
ToPaid(w) ==
    /\ pc[w] = "topaid"
    /\ \/ /\ Payable(at[w])
          /\ NoFault
          /\ WriteRow(at[w], "PAID")
          /\ paidAt' = [paidAt EXCEPT ![at[w]] = TRUE]
          /\ tradeNo' = [tradeNo EXCEPT ![at[w]] = TRUE]
          /\ Goto(w, "execute")
          /\ UNCHANGED <<owner, refused, goodsVars, envVars, at, job, knows>>
       \/ ~Payable(at[w]) /\ Proceed(w, "already")
       \/ ErrorReturn(w)

\* alreadyProcessed.  Its own read failing counts as success, and so does a
\* failed write of the audit row PAYMENT_AFTER_EXPIRY.
AlreadyProcessed(w) ==
    /\ pc[w] = "already"
    /\ \/ status[at[w]] \in Fulfillable /\ Proceed(w, "execute")
       \/ /\ status[at[w]] = "EXPIRED"
          /\ NoFault
          /\ refused' = [refused EXCEPT ![at[w]] = TRUE]
          /\ Return(w, TRUE)
          /\ UNCHANGED <<rowVars, owner, tradeNo, paidAt, goodsVars,
                         timedOut, upstream>>
       \/ status[at[w]] \notin Fulfillable \cup {"EXPIRED"} /\ Answer(w, TRUE)
       \/ /\ SwallowsFaults
          /\ Fault
          /\ Return(w, TRUE)
          /\ UNCHANGED <<rowVars, markVars, goodsVars, timedOut, upstream>>

\* executeFulfillment and the checks that open ExecuteBalanceFulfillment and
\* ExecuteSubscriptionFulfillment.
ExecuteFulfillment(w) ==
    /\ pc[w] = "execute"
    /\ \/ status[at[w]] \in Fulfillable /\ Proceed(w, "acquire")
       \/ /\ status[at[w]] \notin Fulfillable
          /\ Answer(w, status[at[w]] = "COMPLETED")
       \/ ErrorReturn(w)

-----------------------------------------------------------------------------
(* The fulfilment lease: status RECHARGING, versioned by updated_at.       *)

\* Mutant: a lease that never becomes stale.
AcquirableOnce(o) == status[o] \in {"PAID", "FAILED"}

\* What the WHERE clause of the lease accepts.
Acquirable(o) ==
    \/ status[o] \in {"PAID", "FAILED"}
    \/ status[o] = "RECHARGING" /\ ~fresh[o]

\* The compare-and-set of acquirePaymentFulfillmentLease.
AcquireLease(w) ==
    /\ pc[w] = "acquire"
    /\ \/ /\ Acquirable(at[w])
          /\ NoFault
          /\ WriteRow(at[w], "RECHARGING")
          /\ owner' = [owner EXCEPT ![at[w]] = {w}]
          /\ Goto(w, "reload")
          /\ UNCHANGED <<tradeNo, paidAt, refused, goodsVars, envVars,
                         at, job, knows>>
       \/ ~Acquirable(at[w]) /\ Proceed(w, "contended")
       \/ ErrorReturn(w)

\* Mutant: an order that somebody else processes counts as success.
LeaseContendedIsFine(w) == pc[w] = "contended" /\ Answer(w, TRUE)

\* The read that tells a finished order from one that is being processed.
LeaseContended(w) ==
    /\ pc[w] = "contended"
    /\ \/ Answer(w, status[at[w]] = "COMPLETED")
       \/ ErrorReturn(w)

\* "Reload the persisted timestamp": whatever updated_at is by now becomes the
\* version of this worker's lease.
ReloadLease(w) ==
    /\ pc[w] = "reload"
    /\ \/ /\ status[at[w]] = "RECHARGING"
          /\ NoFault
          /\ holders' = [holders EXCEPT ![at[w]] = @ \cup {w}]
          /\ Goto(w, IF at[w] \in SubscriptionOrders THEN "assign"
                                                     ELSE "lookup")
          /\ UNCHANGED <<status, fresh, markVars, goodsVars, envVars,
                         at, job, knows>>
       \/ status[at[w]] # "RECHARGING" /\ Answer(w, FALSE)
       \/ ErrorReturn(w)

\* The WHERE clause of markCompleted and markFailed.
HoldsLease(w) ==
    /\ status[at[w]] = "RECHARGING"
    /\ w \in holders[at[w]]

-----------------------------------------------------------------------------
(* Delivering a balance order: doBalance and RedeemService.Redeem.         *)

\* Mutant: an existing code counts as a redeemed one.
LookupCodeExists(w) ==
    /\ pc[w] = "lookup"
    /\ Proceed(w, IF code[at[w]] = "absent" THEN "mint" ELSE "rebate")

\* GetByCode and resolveRedeemAction; a failed lookup means "create".
LookupCode(w) ==
    /\ pc[w] = "lookup"
    /\ \/ code[at[w]] = "used" /\ Proceed(w, "rebate")
       \/ code[at[w]] = "unused" /\ Proceed(w, "check")
       \/ code[at[w]] = "absent" /\ Proceed(w, "mint")
       \/ FaultTo(w, "mint")

\* CreateCode; codes are unique, so a second insert fails.
CreateCode(w) ==
    /\ pc[w] = "mint"
    /\ \/ /\ code[at[w]] = "absent"
          /\ NoFault
          /\ code' = [code EXCEPT ![at[w]] = "unused"]
          /\ Goto(w, "check")
          /\ UNCHANGED <<rowVars, markVars, assigned, granted, claimed,
                         rebates, envVars, at, job, knows>>
       \/ code[at[w]] # "absent" /\ Proceed(w, "fail")
       \/ FaultTo(w, "fail")

\* Redeem up to its transaction.  Its Redis lock lets the caller through when
\* Redis fails, so it excludes nobody for certain; a refusal by the lock or by
\* the rate limit is a failed call.
CheckCode(w) ==
    /\ pc[w] = "check"
    /\ \/ Proceed(w, IF code[at[w]] = "unused" THEN "use" ELSE "fail")
       \/ FaultTo(w, "fail")

\* Mutant: Use without its WHERE status = 'unused'.
UseCodeUnguarded(w) ==
    /\ pc[w] = "use"
    /\ NoFault
    /\ code' = [code EXCEPT ![at[w]] = "used"]
    /\ granted' = [granted EXCEPT ![at[w]] = @ + 1]
    /\ Goto(w, "rebate")
    /\ UNCHANGED <<rowVars, markVars, assigned, claimed, rebates, envVars,
                   at, job, knows>>

\* Redeem's transaction: redeemRepo.Use (WHERE status = 'unused') and
\* UpdateBalance.  The read after the commit may still fail the call.
UseCode(w) ==
    /\ pc[w] = "use"
    /\ \/ /\ code[at[w]] = "unused"
          /\ code' = [code EXCEPT ![at[w]] = "used"]
          /\ granted' = [granted EXCEPT ![at[w]] = @ + 1]
          /\ \/ NoFault /\ Goto(w, "rebate")
             \/ Fault /\ Goto(w, "fail")
          /\ UNCHANGED <<rowVars, markVars, assigned, claimed, rebates,
                         envVars, at, job, knows>>
       \/ code[at[w]] # "unused" /\ Proceed(w, "fail")
       \/ FaultTo(w, "fail")

-----------------------------------------------------------------------------
(* Delivering a subscription order: doSub.                                 *)

\* Mutant: the assignment is recorded but not looked up first.
AssignSubscriptionAgain(w) ==
    /\ pc[w] = "assign"
    /\ assigned' = [assigned EXCEPT ![at[w]] = TRUE]
    /\ granted' = [granted EXCEPT ![at[w]] = @ + 1]
    /\ \/ NoFault /\ Goto(w, "rebate")
       \/ Fault /\ Goto(w, "fail")
    /\ UNCHANGED <<rowVars, markVars, code, claimed, rebates, envVars,
                   at, job, knows>>

\* Mutant: a failed assignment is logged and the order completes.
AssignSubscriptionBestEffort(w) ==
    /\ pc[w] = "assign"
    /\ \/ Proceed(w, "rebate") /\ assigned[at[w]]
       \/ FaultTo(w, "rebate")

\* ensurePaymentSubscriptionAssigned: one transaction that extends the
\* subscription and inserts SUBSCRIPTION_ASSIGNED, whose uniqueness makes the
\* later of two concurrent ones roll back and find the row.  Invalidating the
\* cache after the commit may still fail the call.
AssignSubscription(w) ==
    /\ pc[w] = "assign"
    /\ \/ /\ assigned' = [assigned EXCEPT ![at[w]] = TRUE]
          /\ granted' = IF assigned[at[w]] THEN granted
                        ELSE [granted EXCEPT ![at[w]] = @ + 1]
          /\ \/ NoFault /\ Goto(w, "rebate")
             \/ Fault /\ Goto(w, "fail")
          /\ UNCHANGED <<rowVars, markVars, code, claimed, rebates,
                         envVars, at, job, knows>>
       \/ FaultTo(w, "fail")

-----------------------------------------------------------------------------
(* The inviter's rebate and the end of the lease.                          *)

\* Mutant: a failed rebate is logged and the order completes.
ApplyRebateBestEffort(w) ==
    /\ pc[w] = "rebate"
    /\ FaultTo(w, "complete")

\* applyAffiliateRebateForOrder: a transaction that inserts the claim row and
\* credits the inviter, if there is one.  The amount of an order is positive
\* and the affiliate service is wired, so it never returns before the claim;
\* a claim that collides with an uncommitted one is a failed call.
ApplyRebate(w) ==
    /\ pc[w] = "rebate"
    /\ \/ /\ ~claimed[at[w]]
          /\ NoFault
          /\ claimed' = [claimed EXCEPT ![at[w]] = TRUE]
          /\ rebates' \in {rebates, [rebates EXCEPT ![at[w]] = @ + 1]}
          /\ Goto(w, "complete")
          /\ UNCHANGED <<rowVars, markVars, code, assigned, granted,
                         envVars, at, job, knows>>
       \/ claimed[at[w]] /\ Proceed(w, "complete")
       \/ FaultTo(w, "fail")

\* markCompleted.
MarkCompleted(w) ==
    /\ pc[w] = "complete"
    /\ \/ /\ HoldsLease(w)
          /\ NoFault
          /\ WriteRow(at[w], "COMPLETED")
          /\ Return(w, TRUE)
          /\ UNCHANGED <<markVars, goodsVars, timedOut, upstream>>
       \/ ~HoldsLease(w) /\ Proceed(w, "lost")
       \/ FaultTo(w, "fail")

\* markCompleted changed no row: fine if somebody else completed the order.
LeaseLost(w) ==
    /\ pc[w] = "lost"
    /\ \/ status[at[w]] = "COMPLETED" /\ Answer(w, TRUE)
       \/ status[at[w]] # "COMPLETED" /\ Proceed(w, "fail")
       \/ FaultTo(w, "fail")

\* Mutant: markFailed without the conditions on status and version.
MarkFailedUnchecked(w) ==
    /\ pc[w] = "fail"
    /\ NoFault
    /\ WriteRow(at[w], "FAILED")
    /\ Return(w, FALSE)
    /\ UNCHANGED <<markVars, goodsVars, timedOut, upstream>>

\* markFailed; the error that led here is the answer either way.
MarkFailed(w) ==
    /\ pc[w] = "fail"
    /\ \/ /\ HoldsLease(w)
          /\ NoFault
          /\ WriteRow(at[w], "FAILED")
          /\ Return(w, FALSE)
          /\ UNCHANGED <<markVars, goodsVars, timedOut, upstream>>
       \/ ~HoldsLease(w) /\ Answer(w, FALSE)
       \/ ErrorReturn(w)

-----------------------------------------------------------------------------
(* The surroundings.                                                       *)

\* The buyer pays, and the provider owes us a callback.
Pay(o) ==
    /\ upstream[o] = "unpaid"
    /\ upstream' = [upstream EXCEPT ![o] = "paid"]
    /\ hook' = [hook EXCEPT ![o] = "due"]
    /\ NoFault
    /\ UNCHANGED <<rowVars, markVars, goodsVars, timedOut, workerVars>>

\* expires_at passes.
TimeOut(o) ==
    /\ status[o] # "NONE"
    /\ ~timedOut[o]
    /\ timedOut' = [timedOut EXCEPT ![o] = TRUE]
    /\ NoFault
    /\ UNCHANGED <<rowVars, markVars, goodsVars, upstream, hook, workerVars>>

InLease(w, o) == pc[w] \in LeasePcs /\ at[w] = o

\* updated_at becomes five minutes old: the grace of an EXPIRED order and the
\* lease of a RECHARGING one both end.  That a live worker is slower than its
\* lease is a fault.
Age(o) ==
    /\ status[o] # "NONE"
    /\ fresh[o]
    /\ fresh' = [fresh EXCEPT ![o] = FALSE]
    /\ IF \E w \in Workers : InLease(w, o) THEN Fault ELSE NoFault
    /\ UNCHANGED <<status, holders, markVars, goodsVars, envVars, workerVars>>

\* The goroutine dies, or its process does.
Crash(w) ==
    /\ pc[w] # "idle"
    /\ ErrorReturn(w)

\* payment_refund.go moves a delivered order between COMPLETED and the refund
\* statuses.
MoveRefund(o) ==
    /\ status[o] \in Settled
    /\ \E s \in Settled : WriteRow(o, s)
    /\ NoFault
    /\ UNCHANGED <<markVars, goodsVars, envVars, workerVars>>

-----------------------------------------------------------------------------
Init ==
    /\ status = [o \in Orders |-> "NONE"]
    /\ fresh = [o \in Orders |-> TRUE]
    /\ holders = [o \in Orders |-> {}]
    /\ owner = [o \in Orders |-> {}]
    /\ tradeNo = [o \in Orders |-> FALSE]
    /\ paidAt = [o \in Orders |-> FALSE]
    /\ timedOut = [o \in Orders |-> FALSE]
    /\ refused = [o \in Orders |-> FALSE]
    /\ code = [o \in Orders |-> "absent"]
    /\ assigned = [o \in Orders |-> FALSE]
    /\ granted = [o \in Orders |-> 0]
    /\ claimed = [o \in Orders |-> FALSE]
    /\ rebates = [o \in Orders |-> 0]
    /\ upstream = [o \in Orders |-> "none"]
    /\ hook = [o \in Orders |-> "none"]
    /\ pc = [w \in Workers |-> "idle"]
    /\ at \in [Workers -> Orders]
    /\ job = [w \in Workers |-> "none"]
    /\ knows = [w \in Workers |-> FALSE]
    /\ faults = 0

\* What a worker does next once it has begun.
Step(w) ==
    \/ InvokeProvider(w) \/ RecordPayment(w) \/ RejectOrder(w)
    \/ QueryOrder(w) \/ PersistTradeNo(w) \/ ClosePayment(w) \/ SetCancelled(w)
    \/ ConfirmPayment(w) \/ ToPaid(w) \/ AlreadyProcessed(w)
    \/ ExecuteFulfillment(w) \/ AcquireLease(w) \/ LeaseContended(w)
    \/ ReloadLease(w) \/ LookupCode(w) \/ CreateCode(w) \/ CheckCode(w)
    \/ UseCode(w) \/ AssignSubscription(w) \/ ApplyRebate(w)
    \/ MarkCompleted(w) \/ LeaseLost(w) \/ MarkFailed(w)

Arrive(w, o) ==
    \/ CreateOrder(w, o) \/ Webhook(w, o) \/ VerifyOrder(w, o)
    \/ ReconcileOrder(w, o) \/ CancelOrder(w, o) \/ ExpireOrder(w, o)
    \/ RetryFulfillment(w, o)

Surroundings(o) == Pay(o) \/ TimeOut(o) \/ Age(o) \/ MoveRefund(o)

Next ==
    \/ \E w \in Workers : Step(w) \/ Crash(w)
    \/ \E w \in Workers, o \in Orders : Arrive(w, o)
    \/ \E o \in Orders : Surroundings(o)

Spec == Init /\ [][Next]_vars

(***************************************************************************)
(* Fairness.  A goroutine that runs takes its next step, and only finitely *)
(* many steps fail.  The provider repeats a callback until it is           *)
(* acknowledged, and the sweep runs every minute; each arrival gets a      *)
(* goroutine of its own in the program, so that the workers of the model   *)
(* happen to be busy must not starve it: strong fairness.  Time passes.    *)
(* Nothing is assumed of buyers and administrators.                        *)
(***************************************************************************)
Redeliver(o) == hook[o] = "due" /\ \E w \in Workers : Webhook(w, o)

Sweep(o) == \E w \in Workers : ExpireOrder(w, o)

Fairness ==
    /\ \A w \in Workers : WF_vars(Step(w))
    /\ \A o \in Orders : /\ SF_vars(Redeliver(o))
                         /\ SF_vars(Sweep(o))
                         /\ WF_vars(TimeOut(o))
                         /\ WF_vars(Age(o))

FairSpec == Spec /\ Fairness

-----------------------------------------------------------------------------
(* Properties.                                                             *)

RowTypeOK ==
    /\ status \in [Orders -> Statuses]
    /\ fresh \in [Orders -> BOOLEAN]
    /\ holders \in [Orders -> SUBSET Workers]

MarkTypeOK ==
    /\ owner \in [Orders -> SUBSET Workers]
    /\ tradeNo \in [Orders -> BOOLEAN]
    /\ paidAt \in [Orders -> BOOLEAN]
    /\ refused \in [Orders -> BOOLEAN]

GoodsTypeOK ==
    /\ code \in [Orders -> {"absent", "unused", "used"}]
    /\ assigned \in [Orders -> BOOLEAN]
    /\ granted \in [Orders -> Nat]
    /\ claimed \in [Orders -> BOOLEAN]
    /\ rebates \in [Orders -> Nat]

EnvTypeOK ==
    /\ timedOut \in [Orders -> BOOLEAN]
    /\ upstream \in [Orders -> {"none", "opened", "unpaid", "paid", "closed"}]
    /\ hook \in [Orders -> {"none", "due", "acked"}]

WorkerTypeOK ==
    /\ pc \in [Workers -> Pcs]
    /\ at \in [Workers -> Orders]
    /\ job \in [Workers -> Jobs]
    /\ knows \in [Workers -> BOOLEAN]

\* Every variable has its type: no step writes a status, a step or a count the
\* code does not have.
TypeOK ==
    /\ RowTypeOK
    /\ MarkTypeOK
    /\ GoodsTypeOK
    /\ EnvTypeOK
    /\ WorkerTypeOK
    /\ faults \in 0 .. MaxFaults

\* The buyer is credited at most once and so is the inviter, although leases
\* are stolen, callbacks repeat and calls fail after their commit
\* (doBalance, ensurePaymentSubscriptionAssigned, tryClaimAffiliateRebateAudit).
DeliveredOnce ==
    \A o \in Orders : granted[o] \leq 1 /\ rebates[o] \leq 1

\* Nothing is delivered for an order the provider was not paid for, not even by
\* an administrator's retry of an order whose creation failed
\* (RetryFulfillment's check of PaidAt).
DeliveredOnlyIfPaid ==
    \A o \in Orders : granted[o] > 0 => upstream[o] = "paid"

\* An order that is COMPLETED, or refunded after it was, has been delivered and
\* its rebate has been decided (markCompleted is the last step of doBalance and
\* of doSub, but a worker may reach it by skipping the steps before it).
CompletedMeansDelivered ==
    \A o \in Orders : status[o] \in Settled => granted[o] > 0 /\ claimed[o]

\* A payment that was accepted is never turned into a cancelled, expired or
\* pending order by a cancellation or a sweep that looked before it arrived
\* (cancelCore's compare-and-set).
PaidIsRemembered ==
    \A o \in Orders :
        paidAt[o] => status[o] \in Fulfillable \cup Settled

\* Fulfilment and cancellation never take an order out of COMPLETED or of the
\* refund statuses, however late a worker's write comes (markFailed,
\* acquirePaymentFulfillmentLease, toPaid).
SettledIsFinal ==
    [][\A o \in Orders : status[o] \in Settled => status'[o] \in Settled]_vars

\* The provider is told to stop repeating its callback only when the order was
\* delivered or its payment was refused on record (handleNotify answers 2xx
\* when HandlePaymentNotification returns nil).
AckedIsHandled ==
    \A o \in Orders :
        hook[o] = "acked" => status[o] \in Settled \/ refused[o]

\* A payment that was made is delivered, or refused on record because it came
\* more than five minutes after the order expired.
PaidOrderIsHandled ==
    \A o \in Orders :
        upstream[o] = "paid" ~> (status[o] \in Settled \/ refused[o])

-----------------------------------------------------------------------------
(* Why they hold: what is true of every order, and of an order because a   *)
(* worker has come to a certain step of its work on it.                    *)

\* The marker that the goods were credited, written with the credit in one
\* transaction.
Delivered(o) == IF o \in SubscriptionOrders THEN assigned[o] ELSE code[o] = "used"

OrderInv(o) ==
    /\ granted[o] = IF Delivered(o) THEN 1 ELSE 0
    /\ rebates[o] \leq IF claimed[o] THEN 1 ELSE 0
    /\ status[o] = "NONE" => upstream[o] = "none"
    /\ hook[o] # "none" => upstream[o] = "paid"
    /\ paidAt[o] => upstream[o] = "paid" /\ status[o] \in Fulfillable \cup Settled
    /\ Delivered(o) => upstream[o] = "paid"
    /\ claimed[o] => Delivered(o)
    /\ status[o] \in Settled => claimed[o]
    /\ ~SwallowsFaults /\ hook[o] = "acked" => status[o] \in Settled \/ refused[o]

CreatePcs == {"invoke", "record", "reject"}

\* A worker comes here only after the provider reported the payment, or after
\* RetryFulfillment found paid_at.
PaidPcs == {"persist", "confirm", "topaid", "already", "execute", "acquire",
            "contended"} \cup LeasePcs

\* What the worker's step p in job j tells about its order o.
At(o, p, j) ==
    /\ p \in CreatePcs =>
          status[o] # "NONE" /\ upstream[o] \in {"none", "opened", "closed"}
    /\ p = "invoke" => upstream[o] = "none"
    /\ p \in PaidPcs => upstream[o] = "paid"
    /\ j = "webhook" => p \in PaidPcs
    /\ p = "already" => status[o] \notin {"NONE", "PENDING", "CANCELLED"}
    /\ p \in {"lookup", "mint", "check", "use"} => o \notin SubscriptionOrders
    /\ p = "assign" => o \in SubscriptionOrders
    /\ p \in {"rebate", "complete", "lost"} => Delivered(o)
    /\ p \in {"complete", "lost"} => claimed[o]

\* Only the request that inserted the row still creates its payment.
SoleCreator ==
    \A v, w \in Workers :
        pc[v] \in CreatePcs /\ pc[w] \in CreatePcs /\ at[v] = at[w] => v = w

\* The inductive invariant: an order's markers, statuses and callbacks agree,
\* and no worker's next step contradicts them.
Consistent ==
    /\ TypeOK
    /\ \A o \in Orders : OrderInv(o)
    /\ \A w \in Workers : At(at[w], pc[w], job[w])
    /\ SoleCreator

\* An order is charged, then delivered, then its rebate is decided, then it is
\* closed, each once and nothing else, whatever the workers do: the whole
\* machine implements PaymentPromise.
Promise == INSTANCE PaymentPromise WITH
    stage <- [o \in Orders |-> IF granted[o] > 0 THEN "delivered"
                               ELSE IF upstream[o] = "paid" THEN "paid"
                               ELSE "open"],
    decided <- claimed,
    closed <- [o \in Orders |-> status[o] \in Settled]

KeepsPromise == Promise!PromiseSpec

-----------------------------------------------------------------------------
(* What the repository says of the program and the program does not do.    *)

\* payment_fulfillment.go:875, markFailed: "The lease version prevents a stale
\* worker from overwriting a newer owner."
StaleWorkerFailsNobody ==
    [][\A w \in Workers :
          MarkFailed(w) /\ status' # status => w \in owner[at[w]]]_vars
==============================================================================
