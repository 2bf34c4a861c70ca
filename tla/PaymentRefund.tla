---------------------------- MODULE PaymentRefund ----------------------------
(***************************************************************************)
(* Refunds of one delivered balance order:                                 *)
(* backend/internal/service/payment_refund.go.  PaymentFulfillment sees    *)
(* this machine as MoveRefund.                                             *)
(*                                                                         *)
(* Administrators (and the buyer, who may ask for a refund) are workers;   *)
(* every SQL statement, SQL transaction or provider call is a step.  Money *)
(* is counted in units, and the amount returned by the provider equals the *)
(* amount taken from the balance (no fee).                                 *)
(***************************************************************************)
EXTENDS Integers, FiniteSetsExt

CONSTANTS
    Admins,          \* concurrent requests (a bound of the instance)
    Amount,          \* what the order credited, in units
    MaxBalance,      \* bound on the user's money, with what refunds took
    Queryable,       \* whether the provider is Stripe, Wxpay or Airwallex,
                     \* which know a refund by order and amount and can be asked
                     \* about it (RefundQueryProvider), or Alipay or EasyPay
    MaxFaults,       \* bound on failed calls and crashes together
    SwallowsFaults   \* whether audit reads and writes, whose errors the code
                     \* drops, may fail

ASSUME AmountAssumption ==
    /\ Amount \in Nat \ {0}
    /\ MaxBalance \in Nat
    /\ Amount \leq MaxBalance

ASSUME RefundFaultsAssumption ==
    /\ MaxFaults \in Nat
    /\ SwallowsFaults \in BOOLEAN
    /\ Queryable \in BOOLEAN

VARIABLES
    status,          \* payment_orders.status
    refundAmount,    \* payment_orders.refund_amount
    balance,         \* users.balance
    taken,           \* net units that refunds of the order took (history)
    rollbackFailed,  \* audit row REFUND_ROLLBACK_FAILED exists
    note,            \* audit row REFUND_PENDING, NoNote if there is none
    succeeded,       \* audit row REFUND_SUCCESS exists
    refund,          \* the provider's refunds of each amount
    doubt,           \* the provider left open whether it will pay (history)
    pc,              \* next step of a worker
    plan,            \* its RefundPlan
    faults           \* faults so far

rowVars == <<status, refundAmount>>
auditVars == <<rollbackFailed, note, succeeded>>
moneyVars == <<balance, taken>>
vars == <<rowVars, auditVars, moneyVars, refund, doubt, pc, plan, faults>>

-----------------------------------------------------------------------------
Amounts == 1 .. Amount

RefundStatuses == {"COMPLETED", "REFUND_REQUESTED", "REFUNDING",
                   "REFUND_PENDING", "REFUND_FAILED", "REFUNDED",
                   "PARTIALLY_REFUNDED"}

\* The statuses PrepareRefund and ExecuteRefund accept.
Refundable == {"COMPLETED", "REFUND_REQUESTED", "REFUND_PENDING",
               "REFUND_FAILED"}

Refunded == {"REFUNDED", "PARTIALLY_REFUNDED"}

Pcs == {"idle", "request", "prepare", "lock", "audit", "deduct", "gateway",
        "ok", "record", "undo", "restore", "markfail", "rollback",
        "markpending", "note", "detail", "query", "finalize", "finalizefail"}

\* A worker is here between the compare-and-set to REFUNDING and its last write.
HoldPcs == {"audit", "deduct", "gateway", "ok", "undo", "restore", "markfail",
            "rollback", "markpending"}

\* A plan: the amount to refund, the units to take, the status to restore,
\* whether the deduction was undone, and the refund a query asks about.
Plans == [amount : 0 .. Amount, take : 0 .. Amount,
          from : {"COMPLETED", "REFUND_REQUESTED"}, undone : BOOLEAN,
          id : 0 .. Amount]

NoPlan == [amount |-> 0, take |-> 0, from |-> "COMPLETED", undone |-> TRUE,
           id |-> 0]

NoNote == [id |-> 0, undone |-> TRUE]

\* Mutant: deducts what it is told to, like DeductBalance of the repository.
AtMostBalanceUnchecked(x) == x

\* LEAST(x, GREATEST(balance, 0)).
AtMostBalance(x) == IF balance \leq 0 THEN 0
                    ELSE IF x \leq balance THEN x ELSE balance

\* What restoreStatus makes of an order that was read with status s.
Restored(s) == IF s = "REFUND_REQUESTED" THEN s ELSE "COMPLETED"

FinalStatus(amt) == IF amt < Amount THEN "PARTIALLY_REFUNDED" ELSE "REFUNDED"

-----------------------------------------------------------------------------
(* Steps.                                                                  *)

Goto(w, p) == pc' = [pc EXCEPT ![w] = p]

Return(w) ==
    /\ pc' = [pc EXCEPT ![w] = "idle"]
    /\ plan' = [plan EXCEPT ![w] = NoPlan]

Fault == faults < MaxFaults /\ faults' = faults + 1

NoFault == faults' = faults

\* A call fails and the request ends, leaving the order as it is.
ErrorReturn(w) ==
    /\ Fault
    /\ Return(w)
    /\ UNCHANGED <<rowVars, auditVars, moneyVars, refund, doubt>>

\* A step that changes nothing but where the worker stands.
Proceed(w, p) ==
    /\ NoFault
    /\ Goto(w, p)
    /\ UNCHANGED <<rowVars, auditVars, moneyVars, refund, doubt, plan>>

Refuse(w) ==
    /\ NoFault
    /\ Return(w)
    /\ UNCHANGED <<rowVars, auditVars, moneyVars, refund, doubt>>

-----------------------------------------------------------------------------
(* Asking for a refund: RequestRefund.                                     *)

\* Its checks of the order and of the balance.
CheckRequest(w) ==
    /\ pc[w] = "idle"
    /\ status = "COMPLETED"
    /\ balance >= Amount
    /\ Proceed(w, "request")

\* Its compare-and-set.
RequestRefund(w) ==
    /\ pc[w] = "request"
    /\ \/ /\ status = "COMPLETED"
          /\ status' = "REFUND_REQUESTED"
          /\ refundAmount' = Amount
          /\ NoFault
          /\ Return(w)
          /\ UNCHANGED <<auditVars, moneyVars, refund, doubt>>
       \/ status # "COMPLETED" /\ Refuse(w)
       \/ ErrorReturn(w)

-----------------------------------------------------------------------------
(* Refunding: PrepareRefund and ExecuteRefund.                             *)

\* PrepareRefund reads the order; with the option to deduct, prepDeduct follows.
PrepareRefund(w) ==
    /\ pc[w] = "idle"
    /\ status \in Refundable
    /\ \E amt \in Amounts :
          plan' = [plan EXCEPT ![w] =
                     [NoPlan EXCEPT !.amount = amt, !.from = Restored(status)]]
    /\ \E p \in {"prepare", "lock"} : Goto(w, p)
    /\ NoFault
    /\ UNCHANGED <<rowVars, auditVars, moneyVars, refund, doubt>>

\* prepDeduct plans to take what the user has of the amount.  Without force it
\* insists on a balance that covers it; with force it makes do, even without
\* having read it.
PrepDeduct(w) ==
    /\ pc[w] = "prepare"
    /\ \/ \E force \in BOOLEAN :
            /\ balance >= plan[w].amount \/ force
            /\ NoFault
            /\ plan' = [plan EXCEPT ![w].take = AtMostBalance(plan[w].amount)]
            /\ Goto(w, "lock")
            /\ UNCHANGED <<rowVars, auditVars, moneyVars, refund, doubt>>
       \/ balance < plan[w].amount /\ Refuse(w)
       \/ ErrorReturn(w)
       \/ /\ Fault
          /\ Goto(w, "lock")
          /\ UNCHANGED <<rowVars, auditVars, moneyVars, refund, doubt, plan>>

\* Mutant: an order that is being refunded may be refunded.
LockRefundAgain(w) ==
    /\ pc[w] = "lock"
    /\ status \in Refundable \cup {"REFUNDING"}
    /\ status' = "REFUNDING"
    /\ NoFault
    /\ Goto(w, IF plan[w].take > 0 THEN "audit" ELSE "gateway")
    /\ UNCHANGED <<refundAmount, auditVars, moneyVars, refund, doubt, plan>>

\* The compare-and-set to REFUNDING that opens ExecuteRefund.
LockRefund(w) ==
    /\ pc[w] = "lock"
    /\ \/ /\ status \in Refundable
          /\ status' = "REFUNDING"
          /\ NoFault
          /\ Goto(w, IF plan[w].take > 0 THEN "audit" ELSE "gateway")
          /\ UNCHANGED <<refundAmount, auditVars, moneyVars, refund, doubt,
                         plan>>
       \/ status \notin Refundable /\ Refuse(w)
       \/ ErrorReturn(w)

\* Mutant: a retry does not ask whether the last attempt kept the money.
CheckRollbackAuditSkipped(w) == pc[w] = "audit" /\ Proceed(w, "deduct")

\* hasAuditLog(REFUND_ROLLBACK_FAILED), whose own error counts as "no".
CheckRollbackAudit(w) ==
    /\ pc[w] = "audit"
    /\ \/ ~rollbackFailed /\ Proceed(w, "deduct")
       \/ /\ rollbackFailed
          /\ NoFault
          /\ plan' = [plan EXCEPT ![w].take = 0]
          /\ Goto(w, "gateway")
          /\ UNCHANGED <<rowVars, auditVars, moneyVars, refund, doubt>>
       \/ /\ SwallowsFaults
          /\ Fault
          /\ Goto(w, "deduct")
          /\ UNCHANGED <<rowVars, auditVars, moneyVars, refund, doubt, plan>>

\* Mutant: the planned amount is taken, whatever the balance is by now.
DeductBalanceAsPlanned(w) ==
    /\ pc[w] = "deduct"
    /\ NoFault
    /\ balance' = balance - plan[w].take
    /\ taken' = taken + plan[w].take
    /\ Goto(w, "gateway")
    /\ UNCHANGED <<rowVars, auditVars, refund, doubt, plan>>

\* deductAvailableBalance takes what is there, at most what was planned.
DeductBalance(w) ==
    /\ pc[w] = "deduct"
    /\ \/ LET d == AtMostBalance(plan[w].take) IN
          /\ NoFault
          /\ balance' = balance - d
          /\ taken' = taken + d
          /\ plan' = [plan EXCEPT ![w].take = d]
          /\ Goto(w, "gateway")
          /\ UNCHANGED <<rowVars, auditVars, refund, doubt>>
       \/ /\ Fault
          /\ Goto(w, "restore")
          /\ UNCHANGED <<rowVars, auditVars, moneyVars, refund, doubt, plan>>

-----------------------------------------------------------------------------
(* The provider.                                                           *)

\* How many refunds of an amount are being processed, how many were paid, and
\* whether one failed that can be asked about.
RefundCounts == [open : Nat, paid : Nat, failed : BOOLEAN]

NoRefunds == [open |-> 0, paid |-> 0, failed |-> FALSE]

\* What it has returned of an amount or is about to.
Committed(a) == a * (refund[a].open + refund[a].paid)

\* It never returns more than was paid.
Acceptable(a) == a + MapThenSumSet(Committed, Amounts) \leq Amount

\* Alipay gets a new request number with every call and EasyPay none, so that a
\* repeated request is another refund.
UnkeyedRefund(a, answer) ==
    \/ answer = "failed" /\ UNCHANGED refund
    \/ /\ Acceptable(a)
       /\ \/ answer = "pending" /\ refund' = [refund EXCEPT ![a].open = @ + 1]
          \/ answer = "paid" /\ refund' = [refund EXCEPT ![a].paid = @ + 1]

\* The others get an idempotency key made of order and amount: a repeat finds
\* the refund that is there, and may get the answer that was given the first
\* time.  A refund that failed at once may be reported as pending.
KeyedRefund(a, answer) ==
    LET known == refund[a].open + refund[a].paid > 0 IN
    \/ /\ known
       /\ answer = "pending" \/ (answer = "paid" /\ refund[a].paid > 0)
       /\ UNCHANGED refund
    \/ ~known /\ UnkeyedRefund(a, answer)
    \/ /\ ~known
       /\ answer \in {"failed", "pending"}
       /\ refund' = [refund EXCEPT ![a].failed = TRUE]

\* prov.Refund.
AskRefund(a, answer) ==
    IF Queryable THEN KeyedRefund(a, answer) ELSE UnkeyedRefund(a, answer)

\* gwRefund.  The request may take effect although its answer is lost.
GatewayRefund(w) ==
    /\ pc[w] = "gateway"
    /\ \E answer \in {"paid", "pending", "failed"} :
          /\ AskRefund(plan[w].amount, answer)
          /\ \/ /\ NoFault
                /\ doubt' = (doubt \/ answer = "pending")
                /\ \/ answer = "paid" /\ Goto(w, "ok")
                   \/ answer = "pending" /\ Goto(w, "rollback")
                   \/ answer = "failed" /\ Goto(w, "undo")
             \/ Fault /\ doubt' = TRUE /\ Goto(w, "undo")
    /\ UNCHANGED <<rowVars, auditVars, moneyVars, plan>>

-----------------------------------------------------------------------------
(* The answer: finishRefund and handleGwFail.                              *)

\* Mutant: when the status cannot be written the refund is undone.
MarkRefundOkUndone(w) ==
    /\ pc[w] = "ok"
    /\ \/ /\ status' = FinalStatus(plan[w].amount)
          /\ refundAmount' = plan[w].amount
          /\ NoFault
          /\ Goto(w, "record")
       \/ Fault /\ Goto(w, "undo") /\ UNCHANGED rowVars
    /\ UNCHANGED <<auditVars, moneyVars, refund, doubt, plan>>

\* markRefundOk.  If it fails the order stays REFUNDING.
MarkRefundOk(w) ==
    /\ pc[w] = "ok"
    /\ \/ /\ status' = FinalStatus(plan[w].amount)
          /\ refundAmount' = plan[w].amount
          /\ NoFault
          /\ Goto(w, "record")
          /\ UNCHANGED <<auditVars, moneyVars, refund, doubt, plan>>
       \/ ErrorReturn(w)

\* Its audit row REFUND_SUCCESS.
RecordSuccess(w) ==
    /\ pc[w] = "record"
    /\ \/ /\ succeeded' = TRUE
          /\ NoFault
          /\ Return(w)
          /\ UNCHANGED <<rowVars, rollbackFailed, note, moneyVars, refund,
                         doubt>>
       \/ SwallowsFaults /\ ErrorReturn(w)

\* Mutant: a rollback that fails is logged but not recorded.
RollbackRefundUnmarked(w, done, left) ==
    /\ plan[w].take > 0
    /\ Fault
    /\ plan' = [plan EXCEPT ![w].undone = FALSE]
    /\ Goto(w, left)
    /\ UNCHANGED <<rowVars, auditVars, moneyVars, refund, doubt>>

\* RollbackRefund gives back what was taken, then goes to "done"; when that
\* fails it leaves REFUND_ROLLBACK_FAILED, if it can, and goes to "left".
RollbackRefund(w, done, left) ==
    \/ /\ NoFault
       /\ balance' = balance + plan[w].take
       /\ taken' = taken - plan[w].take
       /\ plan' = [plan EXCEPT ![w].take = 0, ![w].undone = TRUE]
       /\ Goto(w, done)
       /\ UNCHANGED <<rowVars, auditVars, refund, doubt>>
    \/ /\ plan[w].take > 0
       /\ Fault
       /\ rollbackFailed' \in {TRUE} \cup (IF SwallowsFaults THEN {rollbackFailed}
                                                             ELSE {})
       /\ plan' = [plan EXCEPT ![w].undone = FALSE]
       /\ Goto(w, left)
       /\ UNCHANGED <<rowVars, note, succeeded, moneyVars, refund, doubt>>

\* handleGwFail up to the status.
UndoRefund(w) == pc[w] = "undo" /\ RollbackRefund(w, "restore", "markfail")

\* restoreStatus, with no condition and its error ignored.
RestoreStatus(w) ==
    /\ pc[w] = "restore"
    /\ \/ /\ status' = plan[w].from
          /\ NoFault
          /\ Return(w)
          /\ UNCHANGED <<refundAmount, auditVars, moneyVars, refund, doubt>>
       \/ ErrorReturn(w)

\* handleGwFail when the rollback failed.
MarkRefundFailed(w) ==
    /\ pc[w] = "markfail"
    /\ \/ /\ status' = "REFUND_FAILED"
          /\ NoFault
          /\ Return(w)
          /\ UNCHANGED <<refundAmount, auditVars, moneyVars, refund, doubt>>
       \/ ErrorReturn(w)

\* markRefundPending: the deduction is undone until the provider confirms.
PendingRollback(w) ==
    pc[w] = "rollback" /\ RollbackRefund(w, "markpending", "markpending")

MarkRefundPending(w) ==
    /\ pc[w] = "markpending"
    /\ \/ /\ status' = "REFUND_PENDING"
          /\ refundAmount' = plan[w].amount
          /\ NoFault
          /\ Goto(w, "note")
          /\ UNCHANGED <<auditVars, moneyVars, refund, doubt, plan>>
       \/ ErrorReturn(w)

\* Its audit row.  Audit rows are unique per order and action: a second one is
\* refused and the first remains.
WritePendingNote(w) ==
    /\ pc[w] = "note"
    /\ \/ /\ note' = IF note = NoNote
                     THEN [id |-> plan[w].amount, undone |-> plan[w].undone]
                     ELSE note
          /\ NoFault
          /\ Return(w)
          /\ UNCHANGED <<rowVars, rollbackFailed, succeeded, moneyVars,
                         refund, doubt>>
       \/ SwallowsFaults /\ ErrorReturn(w)

-----------------------------------------------------------------------------
(* Finalizing a pending refund: QueryAndFinalizeRefund.                    *)

\* It reads the order and makes refundFinalizePlan from it, which takes the
\* amount whether or not the refund was asked for with a deduction.
BeginFinalize(w) ==
    /\ pc[w] = "idle"
    /\ Queryable
    /\ status = "REFUND_PENDING"
    /\ plan' = [plan EXCEPT ![w] =
                  [NoPlan EXCEPT !.amount = refundAmount, !.take = refundAmount]]
    /\ Goto(w, "detail")
    /\ NoFault
    /\ UNCHANGED <<rowVars, auditVars, moneyVars, refund, doubt>>

\* latestRefundPendingDetail.  Without a note, or if it cannot be read, the
\* deduction counts as undone and the adapter finds the refund: Wxpay by the
\* amount, Stripe takes the latest one, Airwallex refuses.  Any amount stands
\* for these, since those without a refund are refused.
ReadPendingDetail(w) ==
    /\ pc[w] = "detail"
    /\ \/ /\ note # NoNote
          /\ NoFault
          /\ plan' = [plan EXCEPT
                        ![w].id = note.id,
                        ![w].undone = note.undone,
                        ![w].take = IF note.undone THEN @ ELSE 0]
       \/ /\ (note = NoNote /\ NoFault) \/ (SwallowsFaults /\ Fault)
          /\ \E a \in Amounts : plan' = [plan EXCEPT ![w].id = a]
    /\ Goto(w, "query")
    /\ UNCHANGED <<rowVars, auditVars, moneyVars, refund, doubt>>

\* Mutant: a refund that is still pending is finalized.
QueryRefundOptimistic(w) ==
    /\ pc[w] = "query"
    /\ refund[plan[w].id].open + refund[plan[w].id].paid > 0
    /\ Proceed(w, "finalize")

\* QueryRefund.  A provider that knows of no such refund answers with an error.
QueryRefund(w) ==
    /\ pc[w] = "query"
    /\ \/ refund[plan[w].id].paid > 0 /\ Proceed(w, "finalize")
       \/ refund[plan[w].id].open > 0 /\ Refuse(w)
       \/ refund[plan[w].id].failed /\ Proceed(w, "finalizefail")
       \/ refund[plan[w].id] = NoRefunds /\ Refuse(w)
       \/ ErrorReturn(w)

\* finalizePendingRefundSuccess: one transaction, rolled back when the status
\* changed or REFUND_SUCCESS is already there.
FinalizePendingRefund(w) ==
    /\ pc[w] = "finalize"
    /\ \/ LET d == AtMostBalance(plan[w].take) IN
          /\ status = "REFUND_PENDING"
          /\ ~succeeded
          /\ status' = FinalStatus(plan[w].amount)
          /\ refundAmount' = plan[w].amount
          /\ succeeded' = TRUE
          /\ balance' = balance - d
          /\ taken' = taken + d
          /\ NoFault
          /\ Return(w)
          /\ UNCHANGED <<rollbackFailed, note, refund, doubt>>
       \/ (status # "REFUND_PENDING" \/ succeeded) /\ Refuse(w)
       \/ ErrorReturn(w)

\* finalizeRefundFailed, with no condition on the status.
FinalizeRefundFailed(w) ==
    /\ pc[w] = "finalizefail"
    /\ \/ /\ status' = "REFUND_FAILED"
          /\ NoFault
          /\ Return(w)
          /\ UNCHANGED <<refundAmount, auditVars, moneyVars, refund, doubt>>
       \/ ErrorReturn(w)

-----------------------------------------------------------------------------
(* The surroundings.                                                       *)

\* The provider settles a pending refund.
SettleRefund(a) ==
    /\ refund[a].open > 0
    /\ \/ refund' = [refund EXCEPT ![a].open = @ - 1, ![a].paid = @ + 1]
       \/ refund' = [refund EXCEPT ![a].open = @ - 1, ![a].failed = Queryable]
    /\ NoFault
    /\ UNCHANGED <<rowVars, auditVars, moneyVars, doubt, pc, plan>>

\* The user spends, possibly into a deficit, or recharges.
Spend ==
    /\ balance >= 0
    /\ balance' = balance - 1
    /\ NoFault
    /\ UNCHANGED <<rowVars, auditVars, taken, refund, doubt, pc, plan>>

Recharge ==
    /\ balance + taken < MaxBalance
    /\ balance' = balance + 1
    /\ NoFault
    /\ UNCHANGED <<rowVars, auditVars, taken, refund, doubt, pc, plan>>

\* The goroutine dies, or its process does.
Crash(w) == pc[w] # "idle" /\ ErrorReturn(w)

-----------------------------------------------------------------------------
Init ==
    /\ status = "COMPLETED"
    /\ refundAmount = 0
    /\ balance \in 0 .. MaxBalance
    /\ taken = 0
    /\ rollbackFailed = FALSE
    /\ note = NoNote
    /\ succeeded = FALSE
    /\ refund = [a \in Amounts |-> NoRefunds]
    /\ doubt = FALSE
    /\ pc = [w \in Admins |-> "idle"]
    /\ plan = [w \in Admins |-> NoPlan]
    /\ faults = 0

Step(w) ==
    \/ CheckRequest(w) \/ RequestRefund(w) \/ PrepareRefund(w) \/ PrepDeduct(w)
    \/ LockRefund(w)
    \/ CheckRollbackAudit(w) \/ DeductBalance(w) \/ GatewayRefund(w)
    \/ MarkRefundOk(w) \/ RecordSuccess(w) \/ UndoRefund(w) \/ RestoreStatus(w)
    \/ MarkRefundFailed(w) \/ PendingRollback(w) \/ MarkRefundPending(w)
    \/ WritePendingNote(w) \/ BeginFinalize(w) \/ ReadPendingDetail(w)
    \/ QueryRefund(w)
    \/ FinalizePendingRefund(w) \/ FinalizeRefundFailed(w) \/ Crash(w)

Next ==
    \/ \E w \in Admins : Step(w)
    \/ \E a \in Amounts : SettleRefund(a)
    \/ Spend
    \/ Recharge

Spec == Init /\ [][Next]_vars

-----------------------------------------------------------------------------
(* Properties.                                                             *)

\* Every variable has its type, and the user's money stays within its bound.
TypeOK ==
    /\ status \in RefundStatuses
    /\ refundAmount \in 0 .. Amount
    /\ balance \in -1 .. MaxBalance
    /\ taken \in 0 .. MaxBalance + 1
    /\ rollbackFailed \in BOOLEAN
    /\ succeeded \in BOOLEAN
    /\ note \in [id : 0 .. Amount, undone : BOOLEAN]
    /\ refund \in [Amounts -> RefundCounts]
    /\ doubt \in BOOLEAN
    /\ pc \in [Admins -> Pcs]
    /\ plan \in [Admins -> Plans]
    /\ faults \in 0 .. MaxFaults

\* However often a refund is tried, and whatever fails on the way, the user is
\* never charged more than the order had credited (ExecuteRefund's check for
\* REFUND_ROLLBACK_FAILED and the rollbacks of handleGwFail and
\* markRefundPending).
TakenOnce == taken \leq Amount

\* An order that can still be refunded has given back all that earlier attempts
\* took, or says that it could not (RollbackRefund before restoreStatus and
\* markRefundPending).
GivenBackOrMarked ==
    status \in Refundable => taken = 0 \/ rollbackFailed

\* A refund never takes a balance below zero nor deepens a deficit, although
\* the balance it planned with may be spent meanwhile (DeductAvailableBalance).
NoOverdraft == [][taken' > taken => balance' >= 0]_vars

\* An order that says it was refunded was paid back by the provider in the
\* amount that the order says, and nothing besides was paid or will be, however
\* many attempts failed before, unless the provider left an attempt in doubt:
\* after a lost answer or a pending one, a retry may be paid as well
\* (markRefundOk, whose failure leaves the order REFUNDING, and handleGwFail).
RefundedIsPaidBack ==
    status \in Refunded =>
        /\ refund[refundAmount].paid > 0
        /\ ~doubt => \A a \in Amounts :
              /\ refund[a].open = 0
              /\ refund[a].paid = IF a = refundAmount THEN 1 ELSE 0

\* An order that says it was refunded had money returned by the provider, even
\* if a pending refund was finalized on the answer about an earlier one, whose
\* REFUND_PENDING row is the one that remains (latestRefundPendingDetail).
NeverRefundedUnpaid ==
    status \in Refunded => \E a \in Amounts : refund[a].paid > 0

\* Only one request at a time stands between the compare-and-set to REFUNDING
\* and its last write of the status.
OneRefunder ==
    \A v, w \in Admins : pc[v] \in HoldPcs /\ pc[w] \in HoldPcs => v = w

\* What was taken, what the provider was asked for and returned, and what the
\* order says change as RefundPromise says: a deduction is never made on top of
\* another, an order that was refunded stays so, with what was taken for it,
\* and the provider is asked for nothing more.
Promise == INSTANCE RefundPromise WITH
    Total <- Amount,
    out <- taken,
    open <- [a \in Amounts |-> refund[a].open],
    paid <- [a \in Amounts |-> refund[a].paid],
    said <- IF status \in Refunded THEN refundAmount ELSE 0

KeepsRefundPromise == Promise!RefundSpec

\* payment_refund.go:307, ExecuteRefund: "Skip balance deduction on retry if
\* previous attempt already deducted but failed to roll back".  Once the audit
\* log says so, nothing more is taken.  It holds unless the provider can be
\* queried: QueryAndFinalizeRefund does not look at that audit row.
NothingMoreIsTaken == [][rollbackFailed => taken' \leq taken]_vars
==============================================================================
