------------------------- MODULE PaymentRefundProofs -------------------------
(***************************************************************************)
(* Proofs about PaymentRefund, for any number of administrators, any       *)
(* amount and balance and any number of faults.                            *)
(***************************************************************************)
EXTENDS PaymentRefund, TLAPS

QueryPcs == {"detail", "query", "finalize", "finalizefail"}

\* What every step keeps, whatever the provider can do.
Typed ==
    /\ status \in RefundStatuses
    /\ refundAmount \in 0 .. Amount
    /\ balance \in Int
    /\ taken \in Int
    /\ rollbackFailed \in BOOLEAN
    /\ succeeded \in BOOLEAN
    /\ note \in [id : 0 .. Amount, undone : BOOLEAN]
    /\ refund \in [Amounts -> RefundCounts]
    /\ doubt \in BOOLEAN
    /\ pc \in [Admins -> Pcs]
    /\ plan \in [Admins -> Plans]
    /\ faults \in 0 .. MaxFaults

\* From PrepareRefund on, and once a refund is pending or done, it has an amount.
AmountInv ==
    /\ status \in Refunded \cup {"REFUND_PENDING"} => refundAmount \in Amounts
    /\ note # NoNote => note.id \in Amounts
    /\ \A w \in Admins :
          /\ pc[w] \notin {"idle", "request", "finalizefail"} =>
                plan[w].amount \in Amounts
          /\ pc[w] \in {"query", "finalize"} => plan[w].id \in Amounts

\* Whoever is about to say that the order was refunded has the provider's word.
WordInv ==
    \A w \in Admins :
        /\ pc[w] = "ok" => refund[plan[w].amount].paid > 0
        /\ pc[w] = "finalize" => refund[plan[w].id].paid > 0

\* The inductive invariant behind NeverRefundedUnpaid.
Honest == Typed /\ AmountInv /\ WordInv /\ NeverRefundedUnpaid

\* The order is REFUNDING while a request is between its two writes.
LockInv ==
    /\ \A w \in Admins : pc[w] \notin QueryPcs
    /\ \A w \in Admins : pc[w] \in HoldPcs => status = "REFUNDING"

\* What a request may give back was taken.
MoneyInv ==
    /\ balance >= -1
    /\ taken >= 0
    /\ balance + taken \leq MaxBalance
    /\ \A w \in Admins :
          pc[w] \in {"gateway", "undo", "rollback"} => plan[w].take \leq taken

\* A refunded order was paid back in its amount.
PaidBack == status \in Refunded => refund[refundAmount].paid > 0

\* The provider was asked for nothing, or for a and nothing else.
Unasked == \A b \in Amounts : refund[b].paid = 0

PaidOnly(a) == \A b \in Amounts : refund[b].paid = IF b = a THEN 1 ELSE 0

\* Without doubt, an order that can be refunded, or is being, was not paid back
\* before: markRefundOk alone follows the payment.
ExactInv ==
    ~doubt =>
        /\ \A b \in Amounts : refund[b].open = 0
        /\ status \in Refundable => Unasked
        /\ status \in Refunded => PaidOnly(refundAmount)
        /\ \A w \in Admins :
              /\ pc[w] \in HoldPcs \ {"ok"} => Unasked
              /\ pc[w] = "ok" => PaidOnly(plan[w].amount)

\* The inductive invariant with a provider that cannot be queried.
Sound ==
    Honest /\ LockInv /\ OneRefunder /\ MoneyInv /\ PaidBack /\ ExactInv

Settled == taken = 0 \/ rollbackFailed

\* How the money taken and the plan of the request at work belong together.
OnceInv ==
    \A w \in Admins :
        /\ pc[w] \in {"audit", "restore", "markfail", "markpending"} => Settled
        /\ pc[w] = "deduct" => taken = 0 /\ ~rollbackFailed
        /\ pc[w] \in {"gateway", "undo", "rollback"} =>
              taken = plan[w].take \/ (plan[w].take = 0 /\ rollbackFailed)

Charged == OnceInv /\ TakenOnce /\ GivenBackOrMarked

\* The inductive invariant when the audit log works.
Careful == Sound /\ Charged
-----------------------------------------------------------------------------
(* Operators of the model.                                                 *)

\* What is deducted is at most what is asked for and what is there.
LEMMA AtMostBalanceBounds ==
    ASSUME balance \in Int, NEW x \in 0 .. Amount
    PROVE  /\ AtMostBalance(x) \in 0 .. Amount
           /\ AtMostBalance(x) \leq x
           /\ AtMostBalance(x) > 0 => AtMostBalance(x) \leq balance
  BY AmountAssumption DEF AtMostBalance

\* The empty plan is a plan.
LEMMA NoPlanTyped == NoPlan \in Plans
  BY AmountAssumption DEF Plans, NoPlan, RefundStatuses

\* A plan with another field is a plan.
LEMMA FieldsTyped ==
    ASSUME NEW p \in Plans
    PROVE  /\ \A a \in 0 .. Amount :
                 /\ [p EXCEPT !.amount = a] \in Plans
                 /\ [p EXCEPT !.take = a] \in Plans
                 /\ [p EXCEPT !.id = a] \in Plans
           /\ \A s \in {"COMPLETED", "REFUND_REQUESTED"} :
                 [p EXCEPT !.from = s] \in Plans
           /\ \A b \in BOOLEAN : [p EXCEPT !.undone = b] \in Plans
  BY DEF Plans

\* A plan may take any amount.
LEMMA TakeTyped ==
    ASSUME NEW f \in [Admins -> Plans], NEW w \in Admins, NEW t \in 0 .. Amount
    PROVE  [f EXCEPT ![w].take = t] \in [Admins -> Plans]
  <1>1. [f[w] EXCEPT !.take = t] \in Plans
    BY FieldsTyped
  <1> QED
    BY <1>1

\* A deduction may be undone or not.
LEMMA UndoneTyped ==
    ASSUME plan \in [Admins -> Plans], NEW w \in Admins
    PROVE  /\ [plan EXCEPT ![w].take = 0, ![w].undone = TRUE] \in [Admins -> Plans]
           /\ [plan EXCEPT ![w].undone = FALSE] \in [Admins -> Plans]
  <1> DEFINE g == [plan EXCEPT ![w].take = 0]
  <1>1. g \in [Admins -> Plans]
    BY AmountAssumption, TakeTyped
  <1>2. ASSUME NEW h \in [Admins -> Plans], NEW b \in BOOLEAN
        PROVE  [h EXCEPT ![w].undone = b] \in [Admins -> Plans]
    <2>1. [h[w] EXCEPT !.undone = b] \in Plans
      BY FieldsTyped
    <2> QED
      BY <2>1
  <1>3. [g EXCEPT ![w].undone = TRUE] \in [Admins -> Plans]
    BY <1>1, <1>2
  <1>4. [plan EXCEPT ![w].undone = FALSE] \in [Admins -> Plans]
    BY <1>2
  <1> QED
    BY <1>3, <1>4

\* What PrepareRefund and refundFinalizePlan make are plans.
LEMMA NewPlanTyped ==
    ASSUME NEW s, NEW a \in 0 .. Amount
    PROVE  /\ [NoPlan EXCEPT !.amount = a, !.from = Restored(s)] \in Plans
           /\ [NoPlan EXCEPT !.amount = a, !.take = a] \in Plans
  <1> DEFINE p == [NoPlan EXCEPT !.amount = a]
  <1>1. p \in Plans
    BY NoPlanTyped, FieldsTyped
  <1>2. Restored(s) \in {"COMPLETED", "REFUND_REQUESTED"}
    BY DEF Restored
  <1>3. [p EXCEPT !.from = Restored(s)] \in Plans /\ [p EXCEPT !.take = a] \in Plans
    BY <1>1, <1>2, FieldsTyped
  <1> QED
    BY <1>3

\* What latestRefundPendingDetail makes of a plan is a plan.
LEMMA DetailTyped ==
    ASSUME plan \in [Admins -> Plans], NEW w \in Admins,
           note \in [id : 0 .. Amount, undone : BOOLEAN]
    PROVE  [plan EXCEPT ![w].id = note.id, ![w].undone = note.undone,
                        ![w].take = IF note.undone THEN @ ELSE 0]
              \in [Admins -> Plans]
  <1> DEFINE g == [plan EXCEPT ![w].id = note.id]
             h == [g EXCEPT ![w].undone = note.undone]
  <1>1. g \in [Admins -> Plans]
    <2>1. [plan[w] EXCEPT !.id = note.id] \in Plans
      BY FieldsTyped
    <2> QED
      BY <2>1
  <1>2. h \in [Admins -> Plans]
    <2>1. [g[w] EXCEPT !.undone = note.undone] \in Plans
      BY <1>1, FieldsTyped
    <2> QED
      BY <1>1, <2>1
  <1>3. (IF note.undone THEN h[w].take ELSE 0) \in 0 .. Amount
    BY <1>2, AmountAssumption DEF Plans
  <1> HIDE DEF h
  <1>4. [h EXCEPT ![w].take = IF note.undone THEN @ ELSE 0] \in [Admins -> Plans]
    BY <1>2, <1>3, TakeTyped
  <1> QED
    BY <1>4 DEF h

\* A plan may ask about any amount.
LEMMA IdTyped ==
    ASSUME plan \in [Admins -> Plans], NEW w \in Admins, NEW a \in Amounts
    PROVE  [plan EXCEPT ![w].id = a] \in [Admins -> Plans]
  <1>1. a \in 0 .. Amount
    BY AmountAssumption DEF Amounts
  <1>2. [plan[w] EXCEPT !.id = a] \in Plans
    BY <1>1, FieldsTyped
  <1> QED
    BY <1>2

\* A refund that is asked for adds at most one, open or paid, to those of its
\* amount, and one whose answer is "paid" was paid.
LEMMA AskEffect ==
    ASSUME refund \in [Amounts -> RefundCounts], NEW a \in Amounts, NEW answer,
           AskRefund(a, answer)
    PROVE  /\ refund' \in [Amounts -> RefundCounts]
           /\ \A b \in Amounts : b # a => refund'[b] = refund[b]
           /\ \/ /\ refund'[a].open = refund[a].open
                 /\ refund'[a].paid = refund[a].paid
              \/ /\ refund'[a].open = refund[a].open + 1
                 /\ refund'[a].paid = refund[a].paid
              \/ /\ refund'[a].open = refund[a].open
                 /\ refund'[a].paid = refund[a].paid + 1
           /\ answer = "paid" => refund'[a].paid > 0
           /\ ~Queryable /\ answer = "failed" => refund' = refund
           /\ ~Queryable /\ answer = "paid" =>
                 /\ refund'[a].open = refund[a].open
                 /\ refund'[a].paid = refund[a].paid + 1
  <1>1. refund[a] \in RefundCounts
    OBVIOUS
  <1>2. CASE UNCHANGED refund
    BY <1>1, <1>2
       DEF AskRefund, KeyedRefund, UnkeyedRefund, RefundCounts
  <1>3. CASE ~UNCHANGED refund
    <2>1. \/ /\ answer = "pending" \/ Queryable
             /\ answer # "paid"
             /\ \/ refund' = [refund EXCEPT ![a].open = @ + 1]
                \/ refund' = [refund EXCEPT ![a].failed = TRUE]
          \/ answer = "paid" /\ refund' = [refund EXCEPT ![a].paid = @ + 1]
      BY <1>3 DEF AskRefund, KeyedRefund, UnkeyedRefund
    <2>2. CASE refund' = [refund EXCEPT ![a].open = @ + 1]
      BY <1>1, <1>3, <2>1, <2>2 DEF RefundCounts
    <2>3. CASE refund' = [refund EXCEPT ![a].failed = TRUE]
      <3>1. [refund[a] EXCEPT !.failed = TRUE] \in RefundCounts
        BY <1>1 DEF RefundCounts
      <3>2. refund' \in [Amounts -> RefundCounts]
        BY <2>3, <3>1
      <3>3. refund'[a] = [refund[a] EXCEPT !.failed = TRUE]
        BY <2>3
      <3>4. refund'[a].open = refund[a].open /\ refund'[a].paid = refund[a].paid
        BY <1>1, <3>3 DEF RefundCounts
      <3>5. \A b \in Amounts : b # a => refund'[b] = refund[b]
        BY <2>3
      <3>6. answer # "paid" /\ (answer = "pending" \/ Queryable)
        <4>1. refund'[a].paid # refund[a].paid + 1
          BY <1>1, <3>4 DEF RefundCounts
        <4>2. ~(refund' = [refund EXCEPT ![a].paid = @ + 1])
          BY <1>1, <4>1 DEF RefundCounts
        <4> QED
          BY <2>1, <4>2
      <3> QED
        BY <3>2, <3>4, <3>5, <3>6
    <2>4. CASE answer = "paid" /\ refund' = [refund EXCEPT ![a].paid = @ + 1]
      BY <1>1, <2>4 DEF RefundCounts
    <2> QED
      BY <2>1, <2>2, <2>3, <2>4
  <1> QED
    BY <1>2, <1>3

\* A refund that is settled is no longer open, and may be paid.
LEMMA SettleEffect ==
    ASSUME refund \in [Amounts -> RefundCounts], NEW a \in Amounts,
           SettleRefund(a)
    PROVE  /\ refund' \in [Amounts -> RefundCounts]
           /\ \A b \in Amounts : b # a => refund'[b] = refund[b]
           /\ refund[a].open > 0
           /\ refund'[a].open = refund[a].open - 1
           /\ \/ refund'[a].paid = refund[a].paid
              \/ refund'[a].paid = refund[a].paid + 1
  <1>1. refund[a] \in RefundCounts /\ refund[a].open > 0
    BY DEF SettleRefund
  <1>2. CASE refund' = [refund EXCEPT ![a].open = @ - 1, ![a].paid = @ + 1]
    BY <1>1, <1>2 DEF RefundCounts
  <1>3. CASE refund' = [refund EXCEPT ![a].open = @ - 1, ![a].failed = Queryable]
    <2>1. PICK q \in BOOLEAN : q = Queryable
      BY RefundFaultsAssumption
    <2>2. refund' = [refund EXCEPT ![a].open = @ - 1, ![a].failed = q]
      BY <1>3, <2>1, Zenon
    <2> DEFINE g == [refund EXCEPT ![a].open = @ - 1]
    <2>3. /\ g \in [Amounts -> RefundCounts]
          /\ \A b \in Amounts : b # a => g[b] = refund[b]
          /\ g[a].open = refund[a].open - 1 /\ g[a].paid = refund[a].paid
      BY <1>1 DEF RefundCounts
    <2>4. refund' = [g EXCEPT ![a].failed = q]
      BY <2>2
    <2> HIDE DEF g
    <2>5. [g[a] EXCEPT !.failed = q] \in RefundCounts
      BY <2>3 DEF RefundCounts
    <2>6. refund'[a] = [g[a] EXCEPT !.failed = q]
      BY <2>3, <2>4
    <2>7. refund'[a].open = g[a].open /\ refund'[a].paid = g[a].paid
      BY <2>3, <2>6 DEF RefundCounts
    <2>8. /\ refund' \in [Amounts -> RefundCounts]
          /\ \A b \in Amounts : b # a => refund'[b] = g[b]
      BY <2>3, <2>4, <2>5
    <2> QED
      BY <1>1, <2>3, <2>7, <2>8
  <1> QED
    BY <1>2, <1>3 DEF SettleRefund

\* A step moves a worker to a step,
LEMMA GotoTyped ==
    ASSUME Typed, NEW w \in Admins, NEW p \in Pcs, Goto(w, p)
    PROVE  pc' \in [Admins -> Pcs]
  BY DEF Typed, Goto

\* the end of a request clears its plan,
LEMMA ReturnTyped ==
    ASSUME Typed, NEW w \in Admins, Return(w)
    PROVE  plan' \in [Admins -> Plans] /\ pc' \in [Admins -> Pcs]
  BY NoPlanTyped DEF Typed, Return, Pcs

\* and faults stay within their bound.
LEMMA FaultTyped ==
    ASSUME Typed, Fault \/ NoFault
    PROVE  faults' \in 0 .. MaxFaults
  BY RefundFaultsAssumption DEF Typed, Fault, NoFault

\* Steps that end the request or only move it keep the types.
LEMMA EndTyped ==
    ASSUME Typed, NEW w \in Admins, ErrorReturn(w) \/ Refuse(w)
    PROVE  Typed'
  BY ReturnTyped, FaultTyped
     DEF ErrorReturn, Refuse, Typed, rowVars, auditVars, moneyVars

LEMMA ProceedTyped ==
    ASSUME Typed, NEW w \in Admins, NEW p \in Pcs, Proceed(w, p)
    PROVE  Typed'
  BY GotoTyped, FaultTyped DEF Proceed, Typed, rowVars, auditVars, moneyVars

-----------------------------------------------------------------------------
(* Every step keeps the weak type invariant.                               *)

\* RollbackRefund keeps it, wherever it goes.
LEMMA RollbackTyped ==
    ASSUME Typed, NEW w \in Admins, NEW d \in Pcs, NEW l \in Pcs,
           RollbackRefund(w, d, l)
    PROVE  Typed'
  <1>1. plan' \in [Admins -> Plans]
    <2>1. plan \in [Admins -> Plans]
      BY DEF Typed
    <2>2. \/ plan' = [plan EXCEPT ![w].take = 0, ![w].undone = TRUE]
          \/ plan' = [plan EXCEPT ![w].undone = FALSE]
      BY DEF RollbackRefund
    <2> QED
      BY <2>1, <2>2, UndoneTyped
  <1>2. pc' \in [Admins -> Pcs]
    BY GotoTyped DEF RollbackRefund
  <1>3. faults' \in 0 .. MaxFaults
    BY FaultTyped DEF RollbackRefund
  <1>4. balance' \in Int /\ taken' \in Int
    <2>1. plan[w].take \in Int /\ balance \in Int /\ taken \in Int
      BY AmountAssumption DEF Typed, Plans
    <2>2. \/ balance' = balance + plan[w].take /\ taken' = taken - plan[w].take
          \/ balance' = balance /\ taken' = taken
      BY DEF RollbackRefund, moneyVars
    <2> QED
      BY <2>1, <2>2
  <1>5. rollbackFailed' \in BOOLEAN
    BY DEF RollbackRefund, Typed, auditVars
  <1> QED
    BY <1>1, <1>2, <1>3, <1>4, <1>5
       DEF RollbackRefund, Typed, rowVars, auditVars

LEMMA TypedStep ==
    ASSUME Typed, AmountInv, [Next]_vars
    PROVE  Typed'
  <1> USE AmountAssumption
  <1>1. ASSUME NEW w \in Admins, CheckRequest(w) PROVE Typed'
    BY <1>1, ProceedTyped DEF CheckRequest, Pcs
  <1>2. ASSUME NEW w \in Admins, RequestRefund(w) PROVE Typed'
    <2>1. CASE ErrorReturn(w) \/ Refuse(w)
      BY <2>1, EndTyped
    <2>2. CASE ~(ErrorReturn(w) \/ Refuse(w))
      BY <1>2, <2>2, ReturnTyped, FaultTyped
         DEF RequestRefund, Typed, RefundStatuses, auditVars, moneyVars
    <2> QED
      BY <2>1, <2>2
  <1>3. ASSUME NEW w \in Admins, PrepareRefund(w) PROVE Typed'
    <2>1. plan' \in [Admins -> Plans]
      <3>1. plan \in [Admins -> Plans] /\ status \in RefundStatuses
        BY DEF Typed
      <3>2. PICK a \in Amounts :
                plan' = [plan EXCEPT ![w] =
                           [NoPlan EXCEPT !.amount = a, !.from = Restored(status)]]
        BY <1>3, Zenon DEF PrepareRefund
      <3>3. [NoPlan EXCEPT !.amount = a, !.from = Restored(status)] \in Plans
        <4>1. a \in 0 .. Amount
          BY DEF Amounts
        <4> QED
          BY <3>1, <4>1, NewPlanTyped, Zenon
      <3> QED
        BY <3>1, <3>2, <3>3
    <2>2. pc' \in [Admins -> Pcs]
      BY <1>3, GotoTyped DEF PrepareRefund, Pcs
    <2>3. faults' \in 0 .. MaxFaults
      BY <1>3, FaultTyped DEF PrepareRefund
    <2> QED
      BY <1>3, <2>1, <2>2, <2>3
         DEF PrepareRefund, Typed, rowVars, auditVars, moneyVars
  <1>4. ASSUME NEW w \in Admins, PrepDeduct(w) PROVE Typed'
    <2>1. CASE ErrorReturn(w) \/ Refuse(w)
      BY <2>1, EndTyped
    <2>2. CASE ~(ErrorReturn(w) \/ Refuse(w))
      <3>1. AtMostBalance(plan[w].amount) \in 0 .. Amount
        BY AtMostBalanceBounds DEF Typed, Plans
      <3>2. plan' \in [Admins -> Plans]
        BY <1>4, <2>2, <3>1, TakeTyped DEF PrepDeduct, Typed
      <3>3. pc' \in [Admins -> Pcs]
        BY <1>4, <2>2, GotoTyped DEF PrepDeduct, Pcs
      <3>4. faults' \in 0 .. MaxFaults
        BY <1>4, <2>2, FaultTyped DEF PrepDeduct
      <3> QED
        BY <1>4, <2>2, <3>2, <3>3, <3>4
           DEF PrepDeduct, Typed, rowVars, auditVars, moneyVars
    <2> QED
      BY <2>1, <2>2
  <1>5. ASSUME NEW w \in Admins, LockRefund(w) PROVE Typed'
    <2>1. CASE ErrorReturn(w) \/ Refuse(w)
      BY <2>1, EndTyped
    <2>2. CASE ~(ErrorReturn(w) \/ Refuse(w))
      <3>1. pc' \in [Admins -> Pcs]
        BY <1>5, <2>2, GotoTyped DEF LockRefund, Pcs
      <3> QED
        BY <1>5, <2>2, <3>1, FaultTyped
           DEF LockRefund, Typed, RefundStatuses, auditVars, moneyVars
    <2> QED
      BY <2>1, <2>2
  <1>6. ASSUME NEW w \in Admins, CheckRollbackAudit(w) PROVE Typed'
    <2>1. CASE Proceed(w, "deduct")
      BY <2>1, ProceedTyped DEF Pcs
    <2>2. CASE ~Proceed(w, "deduct")
      <3>1. plan' \in [Admins -> Plans]
        BY <1>6, <2>2, TakeTyped DEF CheckRollbackAudit, Typed
      <3>2. pc' \in [Admins -> Pcs]
        BY <1>6, <2>2, GotoTyped DEF CheckRollbackAudit, Pcs
      <3>3. faults' \in 0 .. MaxFaults
        BY <1>6, <2>2, FaultTyped DEF CheckRollbackAudit
      <3> QED
        BY <1>6, <2>2, <3>1, <3>2, <3>3
           DEF CheckRollbackAudit, Typed, rowVars, auditVars, moneyVars
    <2> QED
      BY <2>1, <2>2
  <1>7. ASSUME NEW w \in Admins, DeductBalance(w) PROVE Typed'
    <2>1. AtMostBalance(plan[w].take) \in 0 .. Amount
      BY AtMostBalanceBounds DEF Typed, Plans
    <2>2. plan' \in [Admins -> Plans]
      BY <1>7, <2>1, TakeTyped DEF DeductBalance, Typed
    <2>3. pc' \in [Admins -> Pcs]
      BY <1>7, GotoTyped DEF DeductBalance, Pcs
    <2>4. faults' \in 0 .. MaxFaults
      BY <1>7, FaultTyped DEF DeductBalance
    <2>5. balance' \in Int /\ taken' \in Int
      BY <1>7, <2>1 DEF DeductBalance, Typed, moneyVars
    <2> QED
      BY <1>7, <2>2, <2>3, <2>4, <2>5
         DEF DeductBalance, Typed, rowVars, auditVars
  <1>8. ASSUME NEW w \in Admins, GatewayRefund(w) PROVE Typed'
    <2>1. refund' \in [Amounts -> RefundCounts] /\ doubt' \in BOOLEAN
      <3>1. plan[w].amount \in Amounts
        BY <1>8 DEF AmountInv, GatewayRefund
      <3>2. refund \in [Amounts -> RefundCounts] /\ doubt \in BOOLEAN
        BY DEF Typed
      <3> QED
        BY <1>8, <3>1, <3>2, AskEffect DEF GatewayRefund
    <2>2. pc' \in [Admins -> Pcs]
      BY <1>8, GotoTyped DEF GatewayRefund, Pcs
    <2>3. faults' \in 0 .. MaxFaults
      BY <1>8, FaultTyped DEF GatewayRefund
    <2> QED
      BY <1>8, <2>1, <2>2, <2>3
         DEF GatewayRefund, Typed, rowVars, auditVars, moneyVars
  <1>9. ASSUME NEW w \in Admins, MarkRefundOk(w) PROVE Typed'
    <2>1. CASE ErrorReturn(w)
      BY <2>1, EndTyped
    <2>2. CASE ~ErrorReturn(w)
      <3>1. pc' \in [Admins -> Pcs]
        BY <1>9, <2>2, GotoTyped DEF MarkRefundOk, Pcs
      <3>2. status' \in RefundStatuses /\ refundAmount' \in 0 .. Amount
        BY <1>9, <2>2
           DEF MarkRefundOk, FinalStatus, RefundStatuses, Typed, Plans
      <3> QED
        BY <1>9, <2>2, <3>1, <3>2, FaultTyped
           DEF MarkRefundOk, Typed, auditVars, moneyVars
    <2> QED
      BY <2>1, <2>2
  <1>10. ASSUME NEW w \in Admins, RecordSuccess(w) PROVE Typed'
    <2>1. CASE ErrorReturn(w)
      BY <2>1, EndTyped
    <2>2. CASE ~ErrorReturn(w)
      BY <1>10, <2>2, ReturnTyped, FaultTyped
         DEF RecordSuccess, Typed, rowVars, moneyVars
    <2> QED
      BY <2>1, <2>2
  <1>11. ASSUME NEW w \in Admins, UndoRefund(w) PROVE Typed'
    BY <1>11, RollbackTyped DEF UndoRefund, Pcs
  <1>12. ASSUME NEW w \in Admins, RestoreStatus(w) PROVE Typed'
    <2>1. CASE ErrorReturn(w)
      BY <2>1, EndTyped
    <2>2. CASE ~ErrorReturn(w)
      <3>1. status' \in RefundStatuses
        BY <1>12, <2>2 DEF RestoreStatus, Typed, Plans, RefundStatuses
      <3> QED
        BY <1>12, <2>2, <3>1, ReturnTyped, FaultTyped
           DEF RestoreStatus, Typed, auditVars, moneyVars
    <2> QED
      BY <2>1, <2>2
  <1>13. ASSUME NEW w \in Admins, MarkRefundFailed(w) PROVE Typed'
    <2>1. CASE ErrorReturn(w)
      BY <2>1, EndTyped
    <2>2. CASE ~ErrorReturn(w)
      BY <1>13, <2>2, ReturnTyped, FaultTyped
         DEF MarkRefundFailed, Typed, RefundStatuses, auditVars, moneyVars
    <2> QED
      BY <2>1, <2>2
  <1>14. ASSUME NEW w \in Admins, PendingRollback(w) PROVE Typed'
    BY <1>14, RollbackTyped DEF PendingRollback, Pcs
  <1>15. ASSUME NEW w \in Admins, MarkRefundPending(w) PROVE Typed'
    <2>1. CASE ErrorReturn(w)
      BY <2>1, EndTyped
    <2>2. CASE ~ErrorReturn(w)
      <3>1. pc' \in [Admins -> Pcs]
        BY <1>15, <2>2, GotoTyped DEF MarkRefundPending, Pcs
      <3>2. status' \in RefundStatuses /\ refundAmount' \in 0 .. Amount
        BY <1>15, <2>2 DEF MarkRefundPending, RefundStatuses, Typed, Plans
      <3> QED
        BY <1>15, <2>2, <3>1, <3>2, FaultTyped
           DEF MarkRefundPending, Typed, auditVars, moneyVars
    <2> QED
      BY <2>1, <2>2
  <1>16. ASSUME NEW w \in Admins, WritePendingNote(w) PROVE Typed'
    <2>1. CASE ErrorReturn(w)
      BY <2>1, EndTyped
    <2>2. CASE ~ErrorReturn(w)
      <3>1. note' \in [id : 0 .. Amount, undone : BOOLEAN]
        BY <1>16, <2>2 DEF WritePendingNote, Typed, Plans
      <3> QED
        BY <1>16, <2>2, <3>1, ReturnTyped, FaultTyped
           DEF WritePendingNote, Typed, rowVars, moneyVars
    <2> QED
      BY <2>1, <2>2
  <1>17. ASSUME NEW w \in Admins, BeginFinalize(w) PROVE Typed'
    <2>1. plan' \in [Admins -> Plans]
      BY <1>17, NewPlanTyped DEF BeginFinalize, Typed
    <2>2. pc' \in [Admins -> Pcs]
      BY <1>17, GotoTyped DEF BeginFinalize, Pcs
    <2> QED
      BY <1>17, <2>1, <2>2, FaultTyped
         DEF BeginFinalize, Typed, rowVars, auditVars, moneyVars
  <1>18. ASSUME NEW w \in Admins, ReadPendingDetail(w) PROVE Typed'
    <2>1. plan' \in [Admins -> Plans]
      <3>1. /\ plan \in [Admins -> Plans]
            /\ note \in [id : 0 .. Amount, undone : BOOLEAN]
        BY DEF Typed
      <3>2. \/ \E a \in Amounts : plan' = [plan EXCEPT ![w].id = a]
            \/ plan' = [plan EXCEPT
                          ![w].id = note.id,
                          ![w].undone = note.undone,
                          ![w].take = IF note.undone THEN @ ELSE 0]
        BY <1>18 DEF ReadPendingDetail
      <3>3. ASSUME NEW a \in Amounts, plan' = [plan EXCEPT ![w].id = a]
            PROVE  plan' \in [Admins -> Plans]
        BY <3>1, <3>3, IdTyped
      <3> QED
        BY <3>1, <3>2, <3>3, DetailTyped
    <2>2. pc' \in [Admins -> Pcs]
      BY <1>18, GotoTyped DEF ReadPendingDetail, Pcs
    <2>3. faults' \in 0 .. MaxFaults
      BY <1>18, FaultTyped DEF ReadPendingDetail
    <2> QED
      BY <1>18, <2>1, <2>2, <2>3
         DEF ReadPendingDetail, Typed, rowVars, auditVars, moneyVars
  <1>19. ASSUME NEW w \in Admins, QueryRefund(w) PROVE Typed'
    BY <1>19, EndTyped, ProceedTyped DEF QueryRefund, Pcs
  <1>20. ASSUME NEW w \in Admins, FinalizePendingRefund(w) PROVE Typed'
    <2>1. CASE ErrorReturn(w) \/ Refuse(w)
      BY <2>1, EndTyped
    <2>2. CASE ~(ErrorReturn(w) \/ Refuse(w))
      <3>1. AtMostBalance(plan[w].take) \in 0 .. Amount
        BY AtMostBalanceBounds DEF Typed, Plans
      <3>2. status' \in RefundStatuses /\ refundAmount' \in 0 .. Amount
        BY <1>20, <2>2
           DEF FinalizePendingRefund, FinalStatus, RefundStatuses, Typed, Plans
      <3>3. balance' \in Int /\ taken' \in Int
        BY <1>20, <2>2, <3>1 DEF FinalizePendingRefund, Typed
      <3> QED
        BY <1>20, <2>2, <3>2, <3>3, ReturnTyped, FaultTyped
           DEF FinalizePendingRefund, Typed
    <2> QED
      BY <2>1, <2>2
  <1>21. ASSUME NEW w \in Admins, FinalizeRefundFailed(w) PROVE Typed'
    <2>1. CASE ErrorReturn(w)
      BY <2>1, EndTyped
    <2>2. CASE ~ErrorReturn(w)
      BY <1>21, <2>2, ReturnTyped, FaultTyped
         DEF FinalizeRefundFailed, Typed, RefundStatuses, auditVars, moneyVars
    <2> QED
      BY <2>1, <2>2
  <1>22. ASSUME NEW w \in Admins, Crash(w) PROVE Typed'
    BY <1>22, EndTyped DEF Crash
  <1>23. ASSUME NEW a \in Amounts, SettleRefund(a) PROVE Typed'
    <2>1. refund' \in [Amounts -> RefundCounts]
      BY <1>23, SettleEffect DEF Typed
    <2> QED
      BY <1>23, <2>1, FaultTyped
         DEF SettleRefund, Typed, rowVars, auditVars, moneyVars
  <1>24. CASE Spend
    BY <1>24 DEF Spend, Typed, NoFault, rowVars, auditVars
  <1>25. CASE Recharge
    BY <1>25 DEF Recharge, Typed, NoFault, rowVars, auditVars
  <1>26. CASE UNCHANGED vars
    BY <1>26 DEF vars, Typed, rowVars, auditVars, moneyVars
  <1> QED
    BY <1>1, <1>2, <1>3, <1>4, <1>5, <1>6, <1>7, <1>8, <1>9, <1>10, <1>11,
       <1>12, <1>13, <1>14, <1>15, <1>16, <1>17, <1>18, <1>19, <1>20, <1>21,
       <1>22, <1>23, <1>24, <1>25, <1>26 DEF Next, Step

-----------------------------------------------------------------------------
(* The provider's word.                                                    *)

\* What a change of a plan keeps.
LEMMA TakeKeeps ==
    ASSUME plan \in [Admins -> Plans], NEW w \in Admins, NEW t,
           plan' = [plan EXCEPT ![w].take = t]
    PROVE  /\ plan'[w].take = t
           /\ plan'[w].amount = plan[w].amount
           /\ \A v \in Admins : v # w => plan'[v] = plan[v]
  BY DEF Plans

LEMMA UndoneKeeps ==
    ASSUME plan \in [Admins -> Plans], NEW w \in Admins,
           \/ plan' = [plan EXCEPT ![w].take = 0, ![w].undone = TRUE]
           \/ plan' = [plan EXCEPT ![w].undone = FALSE]
    PROVE  /\ plan'[w].amount = plan[w].amount
           /\ \A v \in Admins : v # w => plan'[v] = plan[v]
  BY DEF Plans

LEMMA IdKeeps ==
    ASSUME plan \in [Admins -> Plans], NEW w \in Admins, NEW a,
           plan' = [plan EXCEPT ![w].id = a]
    PROVE  /\ plan'[w].amount = plan[w].amount
           /\ plan'[w].id = a
           /\ \A v \in Admins : v # w => plan'[v] = plan[v]
  BY DEF Plans

LEMMA DetailKeeps ==
    ASSUME plan \in [Admins -> Plans], NEW w \in Admins,
           plan' = [plan EXCEPT ![w].id = note.id, ![w].undone = note.undone,
                                ![w].take = IF note.undone THEN @ ELSE 0]
    PROVE  /\ plan'[w].amount = plan[w].amount
           /\ plan'[w].id = note.id
           /\ \A v \in Admins : v # w => plan'[v] = plan[v]
  <1> DEFINE g == [plan EXCEPT ![w].id = note.id]
             h == [g EXCEPT ![w].undone = note.undone]
  <1>1. /\ g[w].amount = plan[w].amount
        /\ g[w].id = note.id
        /\ \A v \in Admins : v # w => g[v] = plan[v]
    BY DEF Plans
  <1>2. h[w].amount = g[w].amount
    BY DEF Plans
  <1>3. h[w].id = g[w].id
    BY DEF Plans
  <1> QED
    BY <1>1

\* A refund that was paid stays paid, whatever is asked of the provider.
LEMMA PaidIsStable ==
    ASSUME Typed, AmountInv, [Next]_vars, NEW a \in Amounts, refund[a].paid > 0
    PROVE  refund'[a].paid > 0
  <1>0. refund \in [Amounts -> RefundCounts] /\ refund[a].paid \in Nat
    BY DEF Typed, RefundCounts
  <1>1. ASSUME NEW w \in Admins, GatewayRefund(w) PROVE refund'[a].paid > 0
    <2>1. plan[w].amount \in Amounts
      BY <1>1 DEF AmountInv, GatewayRefund
    <2>2. PICK answer : AskRefund(plan[w].amount, answer)
      BY <1>1 DEF GatewayRefund
    <2> QED
      BY <1>0, <2>1, <2>2, AskEffect
  <1>2. ASSUME NEW b \in Amounts, SettleRefund(b) PROVE refund'[a].paid > 0
    BY <1>0, <1>2, SettleEffect
  <1>3. CASE UNCHANGED refund
    BY <1>3
  <1>4. ASSUME NEW w \in Admins, Step(w), ~GatewayRefund(w)
        PROVE  UNCHANGED refund
    BY <1>4 DEF Step, CheckRequest, RequestRefund, PrepareRefund, PrepDeduct,
        LockRefund, CheckRollbackAudit, DeductBalance, MarkRefundOk,
        RecordSuccess, UndoRefund, RestoreStatus, MarkRefundFailed,
        PendingRollback, MarkRefundPending, WritePendingNote, BeginFinalize,
        ReadPendingDetail, QueryRefund, FinalizePendingRefund,
        FinalizeRefundFailed, Crash, RollbackRefund, Proceed, Refuse, ErrorReturn
  <1> QED
    BY <1>1, <1>2, <1>3, <1>4 DEF Next, Spend, Recharge, vars

\* Plans and the order keep their amounts.
LEMMA AmountStep ==
    ASSUME Typed, AmountInv, [Next]_vars
    PROVE  AmountInv'
  <1>1. ASSUME NEW w \in Admins, CheckRequest(w) PROVE AmountInv'
    BY <1>1 DEF CheckRequest, AmountInv, Typed, Refunded, Goto, Proceed,
        rowVars, auditVars, moneyVars
  <1>2. ASSUME NEW w \in Admins, RequestRefund(w) PROVE AmountInv'
    BY <1>2 DEF RequestRefund, AmountInv, Typed, Refunded, Return,
        ErrorReturn, Refuse, rowVars, auditVars, moneyVars
  <1>3. ASSUME NEW w \in Admins, PrepareRefund(w) PROVE AmountInv'
    BY <1>3 DEF PrepareRefund, AmountInv, Typed, Refunded, Goto, rowVars,
        auditVars, moneyVars, Amounts, NoPlan
  <1>4. ASSUME NEW w \in Admins, PrepDeduct(w) PROVE AmountInv'
    BY <1>4, TakeKeeps DEF PrepDeduct, AmountInv, Typed, Refunded, Goto,
        Return, ErrorReturn, Refuse, rowVars, auditVars, moneyVars
  <1>5. ASSUME NEW w \in Admins, LockRefund(w) PROVE AmountInv'
    BY <1>5 DEF LockRefund, AmountInv, Typed, Refunded, Goto, Return,
        ErrorReturn, Refuse, rowVars, auditVars, moneyVars
  <1>6. ASSUME NEW w \in Admins, CheckRollbackAudit(w) PROVE AmountInv'
    BY <1>6, TakeKeeps DEF CheckRollbackAudit, AmountInv, Typed, Refunded,
        Goto, Proceed, rowVars, auditVars, moneyVars
  <1>7. ASSUME NEW w \in Admins, DeductBalance(w) PROVE AmountInv'
    BY <1>7, TakeKeeps DEF DeductBalance, AmountInv, Typed, Refunded, Goto,
        rowVars, auditVars, moneyVars
  <1>8. ASSUME NEW w \in Admins, GatewayRefund(w) PROVE AmountInv'
    BY <1>8 DEF GatewayRefund, AmountInv, Typed, Refunded, Goto, rowVars,
        auditVars, moneyVars
  <1>9. ASSUME NEW w \in Admins, MarkRefundOk(w) PROVE AmountInv'
    BY <1>9 DEF MarkRefundOk, AmountInv, Typed, Refunded, Goto, Return,
        ErrorReturn, rowVars, auditVars, moneyVars, FinalStatus
  <1>10. ASSUME NEW w \in Admins, RecordSuccess(w) PROVE AmountInv'
    BY <1>10 DEF RecordSuccess, AmountInv, Typed, Refunded, Return,
        ErrorReturn, rowVars, auditVars, moneyVars
  <1>11. ASSUME NEW w \in Admins, UndoRefund(w) PROVE AmountInv'
    BY <1>11, UndoneKeeps DEF UndoRefund, AmountInv, Typed, Refunded, Goto,
        rowVars, auditVars, moneyVars, RollbackRefund
  <1>12. ASSUME NEW w \in Admins, RestoreStatus(w) PROVE AmountInv'
    BY <1>12 DEF RestoreStatus, AmountInv, Typed, Plans, Refunded, Return,
        ErrorReturn, rowVars, auditVars, moneyVars
  <1>13. ASSUME NEW w \in Admins, MarkRefundFailed(w) PROVE AmountInv'
    BY <1>13 DEF MarkRefundFailed, AmountInv, Typed, Refunded, Return,
        ErrorReturn, rowVars, auditVars, moneyVars
  <1>14. ASSUME NEW w \in Admins, PendingRollback(w) PROVE AmountInv'
    BY <1>14, UndoneKeeps DEF PendingRollback, AmountInv, Typed, Refunded,
        Goto, rowVars, auditVars, moneyVars, RollbackRefund
  <1>15. ASSUME NEW w \in Admins, MarkRefundPending(w) PROVE AmountInv'
    BY <1>15 DEF MarkRefundPending, AmountInv, Typed, Refunded, Goto,
        Return, ErrorReturn, rowVars, auditVars, moneyVars
  <1>16. ASSUME NEW w \in Admins, WritePendingNote(w) PROVE AmountInv'
    BY <1>16 DEF WritePendingNote, AmountInv, Typed, Refunded, Return,
        ErrorReturn, rowVars, auditVars, moneyVars, NoNote
  <1>17. ASSUME NEW w \in Admins, BeginFinalize(w) PROVE AmountInv'
    BY <1>17 DEF BeginFinalize, AmountInv, Typed, Refunded, Goto, rowVars,
        auditVars, moneyVars, NoPlan
  <1>18. ASSUME NEW w \in Admins, ReadPendingDetail(w) PROVE AmountInv'
    <2>1. plan \in [Admins -> Plans]
      BY DEF Typed
    <2>2. /\ plan'[w].amount = plan[w].amount
          /\ plan'[w].id \in Amounts
          /\ \A v \in Admins : v # w => plan'[v] = plan[v]
      <3>1. ASSUME NEW a \in Amounts, plan' = [plan EXCEPT ![w].id = a]
            PROVE  /\ plan'[w].amount = plan[w].amount
                   /\ plan'[w].id \in Amounts
                   /\ \A v \in Admins : v # w => plan'[v] = plan[v]
        BY <2>1, <3>1, IdKeeps
      <3> QED
        BY <1>18, <2>1, <3>1, DetailKeeps DEF ReadPendingDetail, AmountInv
    <2>3. /\ pc[w] = "detail" /\ pc' = [pc EXCEPT ![w] = "query"]
          /\ UNCHANGED <<status, refundAmount, note>>
      BY <1>18 DEF ReadPendingDetail, Goto, rowVars, auditVars
    <2> QED
      BY <2>2, <2>3 DEF AmountInv, Typed
  <1>19. ASSUME NEW w \in Admins, QueryRefund(w) PROVE AmountInv'
    BY <1>19 DEF QueryRefund, AmountInv, Typed, Refunded, Goto, Return,
        ErrorReturn, Proceed, Refuse, rowVars, auditVars, moneyVars
  <1>20. ASSUME NEW w \in Admins, FinalizePendingRefund(w) PROVE AmountInv'
    BY <1>20 DEF FinalizePendingRefund, AmountInv, Typed, Refunded, Return,
        ErrorReturn, Refuse, rowVars, auditVars, moneyVars, FinalStatus
  <1>21. ASSUME NEW w \in Admins, FinalizeRefundFailed(w) PROVE AmountInv'
    BY <1>21 DEF FinalizeRefundFailed, AmountInv, Typed, Refunded, Return,
        ErrorReturn, rowVars, auditVars, moneyVars
  <1>22. ASSUME NEW w \in Admins, Crash(w) PROVE AmountInv'
    BY <1>22 DEF Crash, AmountInv, Typed, Refunded, Return, ErrorReturn,
        rowVars, auditVars, moneyVars
  <1>23. ASSUME NEW a \in Amounts, SettleRefund(a) PROVE AmountInv'
    BY <1>23 DEF SettleRefund, AmountInv, Typed, Refunded, rowVars,
        auditVars, moneyVars
  <1>24. CASE Spend
    BY <1>24 DEF Spend, AmountInv, Typed, Refunded, rowVars, auditVars
  <1>25. CASE Recharge
    BY <1>25 DEF Recharge, AmountInv, Typed, Refunded, rowVars, auditVars
  <1>26. CASE UNCHANGED vars
    BY <1>26 DEF vars, AmountInv, Typed, Refunded, rowVars, auditVars,
        moneyVars
  <1> QED
    BY <1>1, <1>2, <1>3, <1>4, <1>5, <1>6, <1>7, <1>8, <1>9, <1>10, <1>11,
        <1>12, <1>13, <1>14, <1>15, <1>16, <1>17, <1>18, <1>19, <1>20,
        <1>21, <1>22, <1>23, <1>24, <1>25, <1>26 DEF Next, Step

\* Whoever is about to mark the order refunded still has the word of the provider:
\* only gwRefund and QueryRefund lead there, and a paid refund stays paid.
LEMMA WordStep ==
    ASSUME Typed, AmountInv, WordInv, [Next]_vars
    PROVE  WordInv'
  <1>0. \A a \in Amounts : refund[a].paid > 0 => refund'[a].paid > 0
    BY PaidIsStable
  <1>1. ASSUME NEW w \in Admins, CheckRequest(w) PROVE WordInv'
    BY <1>1, <1>0 DEF CheckRequest, AmountInv, WordInv, Typed, Goto,
        Proceed, rowVars, auditVars, moneyVars
  <1>2. ASSUME NEW w \in Admins, RequestRefund(w) PROVE WordInv'
    BY <1>2, <1>0 DEF RequestRefund, AmountInv, WordInv, Typed, Return,
        ErrorReturn, Refuse, rowVars, auditVars, moneyVars
  <1>3. ASSUME NEW w \in Admins, PrepareRefund(w) PROVE WordInv'
    BY <1>3, <1>0 DEF PrepareRefund, AmountInv, WordInv, Typed, Goto,
        rowVars, auditVars, moneyVars
  <1>4. ASSUME NEW w \in Admins, PrepDeduct(w) PROVE WordInv'
    BY <1>4, <1>0, TakeKeeps DEF PrepDeduct, AmountInv, WordInv, Typed,
        Goto, Return, ErrorReturn, Refuse, rowVars, auditVars, moneyVars
  <1>5. ASSUME NEW w \in Admins, LockRefund(w) PROVE WordInv'
    BY <1>5, <1>0 DEF LockRefund, AmountInv, WordInv, Typed, Goto, Return,
        ErrorReturn, Refuse, rowVars, auditVars, moneyVars
  <1>6. ASSUME NEW w \in Admins, CheckRollbackAudit(w) PROVE WordInv'
    BY <1>6, <1>0, TakeKeeps DEF CheckRollbackAudit, AmountInv, WordInv,
        Typed, Goto, Proceed, rowVars, auditVars, moneyVars
  <1>7. ASSUME NEW w \in Admins, DeductBalance(w) PROVE WordInv'
    BY <1>7, <1>0, TakeKeeps DEF DeductBalance, AmountInv, WordInv, Typed,
        Goto, rowVars, auditVars, moneyVars
  <1>8. ASSUME NEW w \in Admins, GatewayRefund(w) PROVE WordInv'
    <2>1. plan[w].amount \in Amounts
      BY <1>8 DEF AmountInv, GatewayRefund
    <2>2. PICK answer :
            /\ AskRefund(plan[w].amount, answer)
            /\ \/ answer = "paid" /\ pc' = [pc EXCEPT ![w] = "ok"]
               \/ \E p \in {"rollback", "undo"} : pc' = [pc EXCEPT ![w] = p]
      BY <1>8 DEF GatewayRefund, Goto
    <2>3. answer = "paid" => refund'[plan[w].amount].paid > 0
      BY <2>1, <2>2, AskEffect DEF Typed
    <2>4. UNCHANGED plan
      BY <1>8 DEF GatewayRefund
    <2> QED
      BY <1>0, <2>2, <2>3, <2>4 DEF AmountInv, WordInv, Typed
  <1>9. ASSUME NEW w \in Admins, MarkRefundOk(w) PROVE WordInv'
    BY <1>9, <1>0 DEF MarkRefundOk, AmountInv, WordInv, Typed, Goto, Return,
        ErrorReturn, rowVars, auditVars, moneyVars
  <1>10. ASSUME NEW w \in Admins, RecordSuccess(w) PROVE WordInv'
    BY <1>10, <1>0 DEF RecordSuccess, AmountInv, WordInv, Typed, Return,
        ErrorReturn, rowVars, auditVars, moneyVars
  <1>11. ASSUME NEW w \in Admins, UndoRefund(w) PROVE WordInv'
    <2>1. \A v \in Admins : v # w => plan'[v] = plan[v]
      BY <1>11, UndoneKeeps DEF UndoRefund, RollbackRefund, Typed
    <2>2. /\ \E p \in {"restore", "markfail", "markpending"} :
                 pc' = [pc EXCEPT ![w] = p]
          /\ UNCHANGED refund
      BY <1>11 DEF UndoRefund, RollbackRefund, Goto
    <2> QED
      BY <2>1, <2>2 DEF WordInv, Typed
  <1>12. ASSUME NEW w \in Admins, RestoreStatus(w) PROVE WordInv'
    BY <1>12, <1>0 DEF RestoreStatus, AmountInv, WordInv, Typed, Return,
        ErrorReturn, rowVars, auditVars, moneyVars
  <1>13. ASSUME NEW w \in Admins, MarkRefundFailed(w) PROVE WordInv'
    BY <1>13, <1>0 DEF MarkRefundFailed, AmountInv, WordInv, Typed, Return,
        ErrorReturn, rowVars, auditVars, moneyVars
  <1>14. ASSUME NEW w \in Admins, PendingRollback(w) PROVE WordInv'
    <2>1. \A v \in Admins : v # w => plan'[v] = plan[v]
      BY <1>14, UndoneKeeps DEF PendingRollback, RollbackRefund, Typed
    <2>2. /\ \E p \in {"restore", "markfail", "markpending"} :
                 pc' = [pc EXCEPT ![w] = p]
          /\ UNCHANGED refund
      BY <1>14 DEF PendingRollback, RollbackRefund, Goto
    <2> QED
      BY <2>1, <2>2 DEF WordInv, Typed
  <1>15. ASSUME NEW w \in Admins, MarkRefundPending(w) PROVE WordInv'
    BY <1>15, <1>0 DEF MarkRefundPending, AmountInv, WordInv, Typed, Goto,
        Return, ErrorReturn, rowVars, auditVars, moneyVars
  <1>16. ASSUME NEW w \in Admins, WritePendingNote(w) PROVE WordInv'
    BY <1>16, <1>0 DEF WritePendingNote, AmountInv, WordInv, Typed, Return,
        ErrorReturn, rowVars, auditVars, moneyVars
  <1>17. ASSUME NEW w \in Admins, BeginFinalize(w) PROVE WordInv'
    BY <1>17, <1>0 DEF BeginFinalize, AmountInv, WordInv, Typed, Goto,
        rowVars, auditVars, moneyVars
  <1>18. ASSUME NEW w \in Admins, ReadPendingDetail(w) PROVE WordInv'
    <2>1. \A v \in Admins : v # w => plan'[v] = plan[v]
      BY <1>18, DetailKeeps, IdKeeps DEF ReadPendingDetail, Typed
    <2>2. pc' = [pc EXCEPT ![w] = "query"] /\ UNCHANGED refund
      BY <1>18 DEF ReadPendingDetail, Goto
    <2> QED
      BY <2>1, <2>2 DEF WordInv, Typed
  <1>19. ASSUME NEW w \in Admins, QueryRefund(w) PROVE WordInv'
    BY <1>19, <1>0 DEF QueryRefund, AmountInv, WordInv, Typed, Goto, Return,
        ErrorReturn, Proceed, Refuse, rowVars, auditVars, moneyVars
  <1>20. ASSUME NEW w \in Admins, FinalizePendingRefund(w) PROVE WordInv'
    BY <1>20, <1>0 DEF FinalizePendingRefund, AmountInv, WordInv, Typed,
        Return, ErrorReturn, Refuse, rowVars, auditVars, moneyVars
  <1>21. ASSUME NEW w \in Admins, FinalizeRefundFailed(w) PROVE WordInv'
    BY <1>21, <1>0 DEF FinalizeRefundFailed, AmountInv, WordInv, Typed,
        Return, ErrorReturn, rowVars, auditVars, moneyVars
  <1>22. ASSUME NEW w \in Admins, Crash(w) PROVE WordInv'
    BY <1>22, <1>0 DEF Crash, AmountInv, WordInv, Typed, Return,
        ErrorReturn, rowVars, auditVars, moneyVars
  <1>23. ASSUME NEW a \in Amounts, SettleRefund(a) PROVE WordInv'
    BY <1>23, <1>0 DEF SettleRefund, AmountInv, WordInv, Typed, rowVars,
        auditVars, moneyVars
  <1>24. CASE Spend
    BY <1>24, <1>0 DEF Spend, AmountInv, WordInv, Typed, rowVars, auditVars
  <1>25. CASE Recharge
    BY <1>25, <1>0 DEF Recharge, AmountInv, WordInv, Typed, rowVars,
        auditVars
  <1>26. CASE UNCHANGED vars
    BY <1>26 DEF vars, AmountInv, WordInv, Typed, rowVars, auditVars,
        moneyVars
  <1> QED
    BY <1>1, <1>2, <1>3, <1>4, <1>5, <1>6, <1>7, <1>8, <1>9, <1>10, <1>11,
        <1>12, <1>13, <1>14, <1>15, <1>16, <1>17, <1>18, <1>19, <1>20,
        <1>21, <1>22, <1>23, <1>24, <1>25, <1>26 DEF Next, Step

\* Only markRefundOk and finalizePendingRefundSuccess mark an order refunded.
LEMMA UnpaidStep ==
    ASSUME Typed, AmountInv, WordInv, NeverRefundedUnpaid, [Next]_vars
    PROVE  NeverRefundedUnpaid'
  <1>0. \A a \in Amounts : refund[a].paid > 0 => refund'[a].paid > 0
    BY PaidIsStable
  <1>1. ASSUME NEW w \in Admins, CheckRequest(w) PROVE NeverRefundedUnpaid'
    BY <1>1, <1>0 DEF CheckRequest, NeverRefundedUnpaid, AmountInv, WordInv,
        Typed, Refunded, Goto, Proceed, rowVars, auditVars, moneyVars
  <1>2. ASSUME NEW w \in Admins, RequestRefund(w) PROVE NeverRefundedUnpaid'
    BY <1>2, <1>0 DEF RequestRefund, NeverRefundedUnpaid, AmountInv,
        WordInv, Typed, Refunded, Return, ErrorReturn, Refuse, rowVars,
        auditVars, moneyVars
  <1>3. ASSUME NEW w \in Admins, PrepareRefund(w) PROVE NeverRefundedUnpaid'
    BY <1>3, <1>0 DEF PrepareRefund, NeverRefundedUnpaid, AmountInv,
        WordInv, Typed, Refunded, Goto, rowVars, auditVars, moneyVars
  <1>4. ASSUME NEW w \in Admins, PrepDeduct(w) PROVE NeverRefundedUnpaid'
    BY <1>4, <1>0 DEF PrepDeduct, NeverRefundedUnpaid, AmountInv, WordInv,
        Typed, Refunded, Goto, Return, ErrorReturn, Refuse, rowVars,
        auditVars, moneyVars
  <1>5. ASSUME NEW w \in Admins, LockRefund(w) PROVE NeverRefundedUnpaid'
    BY <1>5, <1>0 DEF LockRefund, NeverRefundedUnpaid, AmountInv, WordInv,
        Typed, Refunded, Goto, Return, ErrorReturn, Refuse, rowVars,
        auditVars, moneyVars
  <1>6. ASSUME NEW w \in Admins, CheckRollbackAudit(w) PROVE NeverRefundedUnpaid'
    BY <1>6, <1>0 DEF CheckRollbackAudit, NeverRefundedUnpaid, AmountInv,
        WordInv, Typed, Refunded, Goto, Proceed, rowVars, auditVars,
        moneyVars
  <1>7. ASSUME NEW w \in Admins, DeductBalance(w) PROVE NeverRefundedUnpaid'
    BY <1>7, <1>0 DEF DeductBalance, NeverRefundedUnpaid, AmountInv,
        WordInv, Typed, Refunded, Goto, rowVars, auditVars, moneyVars
  <1>8. ASSUME NEW w \in Admins, GatewayRefund(w) PROVE NeverRefundedUnpaid'
    BY <1>8, <1>0 DEF GatewayRefund, NeverRefundedUnpaid, AmountInv,
        WordInv, Typed, Refunded, Goto, rowVars, auditVars, moneyVars
  <1>9. ASSUME NEW w \in Admins, MarkRefundOk(w) PROVE NeverRefundedUnpaid'
    BY <1>9, <1>0 DEF MarkRefundOk, NeverRefundedUnpaid, AmountInv, WordInv,
        Typed, Refunded, Goto, Return, ErrorReturn, rowVars, auditVars,
        moneyVars
  <1>10. ASSUME NEW w \in Admins, RecordSuccess(w) PROVE NeverRefundedUnpaid'
    BY <1>10, <1>0 DEF RecordSuccess, NeverRefundedUnpaid, AmountInv,
        WordInv, Typed, Refunded, Return, ErrorReturn, rowVars, auditVars,
        moneyVars
  <1>11. ASSUME NEW w \in Admins, UndoRefund(w) PROVE NeverRefundedUnpaid'
    BY <1>11, <1>0 DEF UndoRefund, NeverRefundedUnpaid, AmountInv, WordInv,
        Typed, Refunded, Goto, rowVars, auditVars, moneyVars, RollbackRefund
  <1>12. ASSUME NEW w \in Admins, RestoreStatus(w) PROVE NeverRefundedUnpaid'
    BY <1>12, <1>0 DEF RestoreStatus, NeverRefundedUnpaid, AmountInv,
        WordInv, Typed, Plans, Refunded, Return, ErrorReturn, rowVars,
        auditVars, moneyVars
  <1>13. ASSUME NEW w \in Admins, MarkRefundFailed(w) PROVE NeverRefundedUnpaid'
    BY <1>13, <1>0 DEF MarkRefundFailed, NeverRefundedUnpaid, AmountInv,
        WordInv, Typed, Refunded, Return, ErrorReturn, rowVars, auditVars,
        moneyVars
  <1>14. ASSUME NEW w \in Admins, PendingRollback(w) PROVE NeverRefundedUnpaid'
    BY <1>14, <1>0 DEF PendingRollback, NeverRefundedUnpaid, AmountInv,
        WordInv, Typed, Refunded, Goto, rowVars, auditVars, moneyVars,
        RollbackRefund
  <1>15. ASSUME NEW w \in Admins, MarkRefundPending(w) PROVE NeverRefundedUnpaid'
    BY <1>15, <1>0 DEF MarkRefundPending, NeverRefundedUnpaid, AmountInv,
        WordInv, Typed, Refunded, Goto, Return, ErrorReturn, rowVars,
        auditVars, moneyVars
  <1>16. ASSUME NEW w \in Admins, WritePendingNote(w) PROVE NeverRefundedUnpaid'
    BY <1>16, <1>0 DEF WritePendingNote, NeverRefundedUnpaid, AmountInv,
        WordInv, Typed, Refunded, Return, ErrorReturn, rowVars, auditVars,
        moneyVars
  <1>17. ASSUME NEW w \in Admins, BeginFinalize(w) PROVE NeverRefundedUnpaid'
    BY <1>17, <1>0 DEF BeginFinalize, NeverRefundedUnpaid, AmountInv,
        WordInv, Typed, Refunded, Goto, rowVars, auditVars, moneyVars
  <1>18. ASSUME NEW w \in Admins, ReadPendingDetail(w) PROVE NeverRefundedUnpaid'
    BY <1>18, <1>0 DEF ReadPendingDetail, NeverRefundedUnpaid, AmountInv,
        WordInv, Typed, Refunded, Goto, Proceed, rowVars, auditVars,
        moneyVars
  <1>19. ASSUME NEW w \in Admins, QueryRefund(w) PROVE NeverRefundedUnpaid'
    BY <1>19, <1>0 DEF QueryRefund, NeverRefundedUnpaid, AmountInv, WordInv,
        Typed, Refunded, Goto, Return, ErrorReturn, Proceed, Refuse,
        rowVars, auditVars, moneyVars
  <1>20. ASSUME NEW w \in Admins, FinalizePendingRefund(w) PROVE NeverRefundedUnpaid'
    BY <1>20, <1>0 DEF FinalizePendingRefund, NeverRefundedUnpaid,
        AmountInv, WordInv, Typed, Refunded, Return, ErrorReturn, Refuse,
        rowVars, auditVars, moneyVars
  <1>21. ASSUME NEW w \in Admins, FinalizeRefundFailed(w) PROVE NeverRefundedUnpaid'
    BY <1>21, <1>0 DEF FinalizeRefundFailed, NeverRefundedUnpaid, AmountInv,
        WordInv, Typed, Refunded, Return, ErrorReturn, rowVars, auditVars,
        moneyVars
  <1>22. ASSUME NEW w \in Admins, Crash(w) PROVE NeverRefundedUnpaid'
    BY <1>22, <1>0 DEF Crash, NeverRefundedUnpaid, AmountInv, WordInv,
        Typed, Refunded, Return, ErrorReturn, rowVars, auditVars, moneyVars
  <1>23. ASSUME NEW a \in Amounts, SettleRefund(a) PROVE NeverRefundedUnpaid'
    BY <1>23, <1>0 DEF SettleRefund, NeverRefundedUnpaid, AmountInv,
        WordInv, Typed, Refunded, rowVars, auditVars, moneyVars
  <1>24. CASE Spend
    BY <1>24, <1>0 DEF Spend, NeverRefundedUnpaid, AmountInv, WordInv,
        Typed, Refunded, rowVars, auditVars
  <1>25. CASE Recharge
    BY <1>25, <1>0 DEF Recharge, NeverRefundedUnpaid, AmountInv, WordInv,
        Typed, Refunded, rowVars, auditVars
  <1>26. CASE UNCHANGED vars
    BY <1>26 DEF vars, NeverRefundedUnpaid, AmountInv, WordInv, Typed,
        Refunded, rowVars, auditVars, moneyVars
  <1> QED
    BY <1>1, <1>2, <1>3, <1>4, <1>5, <1>6, <1>7, <1>8, <1>9, <1>10, <1>11,
        <1>12, <1>13, <1>14, <1>15, <1>16, <1>17, <1>18, <1>19, <1>20,
        <1>21, <1>22, <1>23, <1>24, <1>25, <1>26 DEF Next, Step

-----------------------------------------------------------------------------
(* Theorems about any provider.                                            *)

\* What every administrator, provider and audit log keeps.
THEOREM AlwaysHonest == Spec => []Honest
  <1>1. Init => Honest
    <2> SUFFICES ASSUME Init PROVE Honest
      OBVIOUS
    <2>1. plan \in [Admins -> Plans]
      BY NoPlanTyped DEF Init
    <2>2. note \in [id : 0 .. Amount, undone : BOOLEAN]
      BY AmountAssumption DEF Init, NoNote
    <2>3. /\ balance \in Int /\ taken \in Int
          /\ refundAmount \in 0 .. Amount /\ faults \in 0 .. MaxFaults
      BY AmountAssumption, RefundFaultsAssumption DEF Init
    <2>4. /\ refund \in [Amounts -> RefundCounts] /\ pc \in [Admins -> Pcs]
          /\ status \in RefundStatuses
      BY DEF Init, RefundCounts, NoRefunds, Pcs, RefundStatuses
    <2>5. rollbackFailed \in BOOLEAN /\ succeeded \in BOOLEAN /\ doubt \in BOOLEAN
      BY DEF Init
    <2>6. Typed
      BY <2>1, <2>2, <2>3, <2>4, <2>5 DEF Typed
    <2> QED
      BY <2>6 DEF Init, Honest, AmountInv, WordInv, NeverRefundedUnpaid, Refunded
  <1>2. Honest /\ [Next]_vars => Honest'
    BY TypedStep, AmountStep, WordStep, UnpaidStep DEF Honest
  <1> QED
    BY <1>1, <1>2, PTL DEF Spec

\* An order that says it was refunded had money returned by the provider: the
\* status is written only on the provider's word, from markRefundOk or from
\* finalizePendingRefundSuccess, and what was paid stays paid.
THEOREM RefundedHadMoneyBack == Spec => []NeverRefundedUnpaid
  <1>1. Honest => NeverRefundedUnpaid
    BY DEF Honest
  <1> QED
    BY <1>1, AlwaysHonest, PTL

\* Only DeductBalance and FinalizePendingRefund take money, at most what the
\* balance holds at that moment.
LEMMA TakesWhatIsThere ==
    ASSUME Typed, [Next]_vars, taken' > taken
    PROVE  balance' >= 0
  <1>1. \A w \in Admins : plan[w].take \in 0 .. Amount
    BY DEF Typed, Plans
  <1>2. ASSUME NEW w \in Admins, taken' = taken + AtMostBalance(plan[w].take),
               balance' = balance - AtMostBalance(plan[w].take)
        PROVE  balance' >= 0
    BY <1>1, <1>2, AtMostBalanceBounds, AmountAssumption DEF Typed
  <1>3. ASSUME NEW w \in Admins, DeductBalance(w) PROVE balance' >= 0
    BY <1>2, <1>3 DEF DeductBalance, moneyVars, Typed
  <1>4. ASSUME NEW w \in Admins, FinalizePendingRefund(w) PROVE balance' >= 0
    BY <1>2, <1>4 DEF FinalizePendingRefund, Refuse, ErrorReturn, moneyVars, Typed
  <1>5. ASSUME NEW w \in Admins, UndoRefund(w) \/ PendingRollback(w)
        PROVE  FALSE
    <2>1. taken' = taken - plan[w].take \/ taken' = taken
      BY <1>5 DEF UndoRefund, PendingRollback, RollbackRefund, moneyVars
    <2> QED
      BY <1>1, <2>1, AmountAssumption DEF Typed
  <1>6. ASSUME NEW w \in Admins, Step(w), ~DeductBalance(w),
               ~FinalizePendingRefund(w), ~UndoRefund(w), ~PendingRollback(w)
        PROVE  taken' = taken
    BY <1>6 DEF Step, CheckRequest, RequestRefund, PrepareRefund, PrepDeduct,
        LockRefund, CheckRollbackAudit, GatewayRefund, MarkRefundOk,
        RecordSuccess, RestoreStatus, MarkRefundFailed, MarkRefundPending,
        WritePendingNote, BeginFinalize, ReadPendingDetail, QueryRefund,
        FinalizeRefundFailed, Crash, Proceed, Refuse, ErrorReturn, moneyVars
  <1>7. taken' # taken
    BY DEF Typed
  <1> QED
    BY <1>3, <1>4, <1>5, <1>6, <1>7
       DEF Next, SettleRefund, Spend, Recharge, vars, moneyVars

\* Whatever the user spends between the plan and the deduction, a refund never
\* takes the balance below zero nor deepens a deficit (DeductAvailableBalance).
THEOREM RefundsNeverOverdraw == Spec => NoOverdraft
  <1>1. Honest /\ [Next]_vars => [taken' > taken => balance' >= 0]_vars
    BY TakesWhatIsThere DEF Honest
  <1> QED
    BY <1>1, AlwaysHonest, PTL DEF Spec, NoOverdraft

-----------------------------------------------------------------------------
(* Steps with a provider that cannot be queried.                           *)

\* The order is REFUNDING as long as a request holds it: the requests that could
\* change the status are that one, by OneRefunder, and those that find another
\* status.
LEMMA LockStep ==
    ASSUME ~Queryable, Typed, LockInv, OneRefunder, [Next]_vars
    PROVE  LockInv'
  <1>1. ASSUME NEW w \in Admins, CheckRequest(w) PROVE LockInv'
    BY <1>1 DEF CheckRequest, LockInv, OneRefunder, Typed, HoldPcs,
        QueryPcs, Goto, Proceed, rowVars, auditVars, moneyVars
  <1>2. ASSUME NEW w \in Admins, RequestRefund(w) PROVE LockInv'
    BY <1>2 DEF RequestRefund, LockInv, OneRefunder, Typed, HoldPcs,
        QueryPcs, Return, ErrorReturn, Refuse, rowVars, auditVars, moneyVars
  <1>3. ASSUME NEW w \in Admins, PrepareRefund(w) PROVE LockInv'
    BY <1>3 DEF PrepareRefund, LockInv, OneRefunder, Typed, HoldPcs,
        QueryPcs, Goto, rowVars, auditVars, moneyVars
  <1>4. ASSUME NEW w \in Admins, PrepDeduct(w) PROVE LockInv'
    BY <1>4 DEF PrepDeduct, LockInv, OneRefunder, Typed, HoldPcs, QueryPcs,
        Goto, Return, ErrorReturn, Refuse, rowVars, auditVars, moneyVars
  <1>5. ASSUME NEW w \in Admins, LockRefund(w) PROVE LockInv'
    BY <1>5 DEF LockRefund, LockInv, OneRefunder, Typed, HoldPcs, QueryPcs,
        Goto, Return, ErrorReturn, Refuse, rowVars, auditVars, moneyVars,
        Refundable
  <1>6. ASSUME NEW w \in Admins, CheckRollbackAudit(w) PROVE LockInv'
    BY <1>6 DEF CheckRollbackAudit, LockInv, OneRefunder, Typed, HoldPcs,
        QueryPcs, Goto, Proceed, rowVars, auditVars, moneyVars
  <1>7. ASSUME NEW w \in Admins, DeductBalance(w) PROVE LockInv'
    BY <1>7 DEF DeductBalance, LockInv, OneRefunder, Typed, HoldPcs,
        QueryPcs, Goto, rowVars, auditVars, moneyVars
  <1>8. ASSUME NEW w \in Admins, GatewayRefund(w) PROVE LockInv'
    BY <1>8 DEF GatewayRefund, LockInv, OneRefunder, Typed, HoldPcs,
        QueryPcs, Goto, rowVars, auditVars, moneyVars
  <1>9. ASSUME NEW w \in Admins, MarkRefundOk(w) PROVE LockInv'
    BY <1>9 DEF MarkRefundOk, LockInv, OneRefunder, Typed, HoldPcs,
        QueryPcs, Goto, Return, ErrorReturn, rowVars, auditVars, moneyVars
  <1>10. ASSUME NEW w \in Admins, RecordSuccess(w) PROVE LockInv'
    BY <1>10 DEF RecordSuccess, LockInv, OneRefunder, Typed, HoldPcs,
        QueryPcs, Return, ErrorReturn, rowVars, auditVars, moneyVars
  <1>11. ASSUME NEW w \in Admins, UndoRefund(w) PROVE LockInv'
    BY <1>11 DEF UndoRefund, LockInv, OneRefunder, Typed, HoldPcs, QueryPcs,
        Goto, rowVars, auditVars, moneyVars, RollbackRefund
  <1>12. ASSUME NEW w \in Admins, RestoreStatus(w) PROVE LockInv'
    BY <1>12 DEF RestoreStatus, LockInv, OneRefunder, Typed, HoldPcs,
        QueryPcs, Return, ErrorReturn, rowVars, auditVars, moneyVars
  <1>13. ASSUME NEW w \in Admins, MarkRefundFailed(w) PROVE LockInv'
    BY <1>13 DEF MarkRefundFailed, LockInv, OneRefunder, Typed, HoldPcs,
        QueryPcs, Return, ErrorReturn, rowVars, auditVars, moneyVars
  <1>14. ASSUME NEW w \in Admins, PendingRollback(w) PROVE LockInv'
    BY <1>14 DEF PendingRollback, LockInv, OneRefunder, Typed, HoldPcs,
        QueryPcs, Goto, rowVars, auditVars, moneyVars, RollbackRefund
  <1>15. ASSUME NEW w \in Admins, MarkRefundPending(w) PROVE LockInv'
    BY <1>15 DEF MarkRefundPending, LockInv, OneRefunder, Typed, HoldPcs,
        QueryPcs, Goto, Return, ErrorReturn, rowVars, auditVars, moneyVars
  <1>16. ASSUME NEW w \in Admins, WritePendingNote(w) PROVE LockInv'
    BY <1>16 DEF WritePendingNote, LockInv, OneRefunder, Typed, HoldPcs,
        QueryPcs, Return, ErrorReturn, rowVars, auditVars, moneyVars
  <1>17. ASSUME NEW w \in Admins, BeginFinalize(w) PROVE LockInv'
    BY <1>17 DEF BeginFinalize, LockInv, OneRefunder, Typed, HoldPcs,
        QueryPcs, Goto, rowVars, auditVars, moneyVars
  <1>18. ASSUME NEW w \in Admins, ReadPendingDetail(w) PROVE LockInv'
    BY <1>18 DEF ReadPendingDetail, LockInv, OneRefunder, Typed, HoldPcs,
        QueryPcs, Goto, Proceed, rowVars, auditVars, moneyVars
  <1>19. ASSUME NEW w \in Admins, QueryRefund(w) PROVE LockInv'
    BY <1>19 DEF QueryRefund, LockInv, OneRefunder, Typed, HoldPcs,
        QueryPcs, Goto, Return, ErrorReturn, Proceed, Refuse, rowVars,
        auditVars, moneyVars
  <1>20. ASSUME NEW w \in Admins, FinalizePendingRefund(w) PROVE LockInv'
    BY <1>20 DEF FinalizePendingRefund, LockInv, OneRefunder, Typed,
        HoldPcs, QueryPcs, Return, ErrorReturn, Refuse, rowVars, auditVars,
        moneyVars
  <1>21. ASSUME NEW w \in Admins, FinalizeRefundFailed(w) PROVE LockInv'
    BY <1>21 DEF FinalizeRefundFailed, LockInv, OneRefunder, Typed, HoldPcs,
        QueryPcs, Return, ErrorReturn, rowVars, auditVars, moneyVars
  <1>22. ASSUME NEW w \in Admins, Crash(w) PROVE LockInv'
    BY <1>22 DEF Crash, LockInv, OneRefunder, Typed, HoldPcs, QueryPcs,
        Return, ErrorReturn, rowVars, auditVars, moneyVars
  <1>23. ASSUME NEW a \in Amounts, SettleRefund(a) PROVE LockInv'
    BY <1>23 DEF SettleRefund, LockInv, OneRefunder, Typed, HoldPcs,
        QueryPcs, rowVars, auditVars, moneyVars
  <1>24. CASE Spend
    BY <1>24 DEF Spend, LockInv, OneRefunder, Typed, HoldPcs, QueryPcs,
        rowVars, auditVars
  <1>25. CASE Recharge
    BY <1>25 DEF Recharge, LockInv, OneRefunder, Typed, HoldPcs, QueryPcs,
        rowVars, auditVars
  <1>26. CASE UNCHANGED vars
    BY <1>26 DEF vars, LockInv, OneRefunder, Typed, HoldPcs, QueryPcs,
        rowVars, auditVars, moneyVars
  <1> QED
    BY <1>1, <1>2, <1>3, <1>4, <1>5, <1>6, <1>7, <1>8, <1>9, <1>10, <1>11,
        <1>12, <1>13, <1>14, <1>15, <1>16, <1>17, <1>18, <1>19, <1>20,
        <1>21, <1>22, <1>23, <1>24, <1>25, <1>26 DEF Next, Step

\* A second request finds the order REFUNDING.
LEMMA OneRefunderStep ==
    ASSUME ~Queryable, Typed, LockInv, OneRefunder, [Next]_vars
    PROVE  OneRefunder'
  <1>1. ASSUME NEW w \in Admins, CheckRequest(w) PROVE OneRefunder'
    BY <1>1 DEF CheckRequest, LockInv, OneRefunder, Typed, HoldPcs,
        QueryPcs, Goto, Proceed, rowVars, auditVars, moneyVars
  <1>2. ASSUME NEW w \in Admins, RequestRefund(w) PROVE OneRefunder'
    BY <1>2 DEF RequestRefund, LockInv, OneRefunder, Typed, HoldPcs,
        QueryPcs, Return, ErrorReturn, Refuse, rowVars, auditVars, moneyVars
  <1>3. ASSUME NEW w \in Admins, PrepareRefund(w) PROVE OneRefunder'
    BY <1>3 DEF PrepareRefund, LockInv, OneRefunder, Typed, HoldPcs,
        QueryPcs, Goto, rowVars, auditVars, moneyVars
  <1>4. ASSUME NEW w \in Admins, PrepDeduct(w) PROVE OneRefunder'
    BY <1>4 DEF PrepDeduct, LockInv, OneRefunder, Typed, HoldPcs, QueryPcs,
        Goto, Return, ErrorReturn, Refuse, rowVars, auditVars, moneyVars
  <1>5. ASSUME NEW w \in Admins, LockRefund(w) PROVE OneRefunder'
    BY <1>5 DEF LockRefund, LockInv, OneRefunder, Typed, HoldPcs, QueryPcs,
        Goto, Return, ErrorReturn, Refuse, rowVars, auditVars, moneyVars,
        Refundable
  <1>6. ASSUME NEW w \in Admins, CheckRollbackAudit(w) PROVE OneRefunder'
    BY <1>6 DEF CheckRollbackAudit, LockInv, OneRefunder, Typed, HoldPcs,
        QueryPcs, Goto, Proceed, rowVars, auditVars, moneyVars
  <1>7. ASSUME NEW w \in Admins, DeductBalance(w) PROVE OneRefunder'
    BY <1>7 DEF DeductBalance, LockInv, OneRefunder, Typed, HoldPcs,
        QueryPcs, Goto, rowVars, auditVars, moneyVars
  <1>8. ASSUME NEW w \in Admins, GatewayRefund(w) PROVE OneRefunder'
    BY <1>8 DEF GatewayRefund, LockInv, OneRefunder, Typed, HoldPcs,
        QueryPcs, Goto, rowVars, auditVars, moneyVars
  <1>9. ASSUME NEW w \in Admins, MarkRefundOk(w) PROVE OneRefunder'
    BY <1>9 DEF MarkRefundOk, LockInv, OneRefunder, Typed, HoldPcs,
        QueryPcs, Goto, Return, ErrorReturn, rowVars, auditVars, moneyVars
  <1>10. ASSUME NEW w \in Admins, RecordSuccess(w) PROVE OneRefunder'
    BY <1>10 DEF RecordSuccess, LockInv, OneRefunder, Typed, HoldPcs,
        QueryPcs, Return, ErrorReturn, rowVars, auditVars, moneyVars
  <1>11. ASSUME NEW w \in Admins, UndoRefund(w) PROVE OneRefunder'
    BY <1>11 DEF UndoRefund, LockInv, OneRefunder, Typed, HoldPcs, QueryPcs,
        Goto, rowVars, auditVars, moneyVars, RollbackRefund
  <1>12. ASSUME NEW w \in Admins, RestoreStatus(w) PROVE OneRefunder'
    BY <1>12 DEF RestoreStatus, LockInv, OneRefunder, Typed, HoldPcs,
        QueryPcs, Return, ErrorReturn, rowVars, auditVars, moneyVars
  <1>13. ASSUME NEW w \in Admins, MarkRefundFailed(w) PROVE OneRefunder'
    BY <1>13 DEF MarkRefundFailed, LockInv, OneRefunder, Typed, HoldPcs,
        QueryPcs, Return, ErrorReturn, rowVars, auditVars, moneyVars
  <1>14. ASSUME NEW w \in Admins, PendingRollback(w) PROVE OneRefunder'
    BY <1>14 DEF PendingRollback, LockInv, OneRefunder, Typed, HoldPcs,
        QueryPcs, Goto, rowVars, auditVars, moneyVars, RollbackRefund
  <1>15. ASSUME NEW w \in Admins, MarkRefundPending(w) PROVE OneRefunder'
    BY <1>15 DEF MarkRefundPending, LockInv, OneRefunder, Typed, HoldPcs,
        QueryPcs, Goto, Return, ErrorReturn, rowVars, auditVars, moneyVars
  <1>16. ASSUME NEW w \in Admins, WritePendingNote(w) PROVE OneRefunder'
    BY <1>16 DEF WritePendingNote, LockInv, OneRefunder, Typed, HoldPcs,
        QueryPcs, Return, ErrorReturn, rowVars, auditVars, moneyVars
  <1>17. ASSUME NEW w \in Admins, BeginFinalize(w) PROVE OneRefunder'
    BY <1>17 DEF BeginFinalize, LockInv, OneRefunder, Typed, HoldPcs,
        QueryPcs, Goto, rowVars, auditVars, moneyVars
  <1>18. ASSUME NEW w \in Admins, ReadPendingDetail(w) PROVE OneRefunder'
    BY <1>18 DEF ReadPendingDetail, LockInv, OneRefunder, Typed, HoldPcs,
        QueryPcs, Goto, Proceed, rowVars, auditVars, moneyVars
  <1>19. ASSUME NEW w \in Admins, QueryRefund(w) PROVE OneRefunder'
    BY <1>19 DEF QueryRefund, LockInv, OneRefunder, Typed, HoldPcs,
        QueryPcs, Goto, Return, ErrorReturn, Proceed, Refuse, rowVars,
        auditVars, moneyVars
  <1>20. ASSUME NEW w \in Admins, FinalizePendingRefund(w) PROVE OneRefunder'
    BY <1>20 DEF FinalizePendingRefund, LockInv, OneRefunder, Typed,
        HoldPcs, QueryPcs, Return, ErrorReturn, Refuse, rowVars, auditVars,
        moneyVars
  <1>21. ASSUME NEW w \in Admins, FinalizeRefundFailed(w) PROVE OneRefunder'
    BY <1>21 DEF FinalizeRefundFailed, LockInv, OneRefunder, Typed, HoldPcs,
        QueryPcs, Return, ErrorReturn, rowVars, auditVars, moneyVars
  <1>22. ASSUME NEW w \in Admins, Crash(w) PROVE OneRefunder'
    BY <1>22 DEF Crash, LockInv, OneRefunder, Typed, HoldPcs, QueryPcs,
        Return, ErrorReturn, rowVars, auditVars, moneyVars
  <1>23. ASSUME NEW a \in Amounts, SettleRefund(a) PROVE OneRefunder'
    BY <1>23 DEF SettleRefund, LockInv, OneRefunder, Typed, HoldPcs,
        QueryPcs, rowVars, auditVars, moneyVars
  <1>24. CASE Spend
    BY <1>24 DEF Spend, LockInv, OneRefunder, Typed, HoldPcs, QueryPcs,
        rowVars, auditVars
  <1>25. CASE Recharge
    BY <1>25 DEF Recharge, LockInv, OneRefunder, Typed, HoldPcs, QueryPcs,
        rowVars, auditVars
  <1>26. CASE UNCHANGED vars
    BY <1>26 DEF vars, LockInv, OneRefunder, Typed, HoldPcs, QueryPcs,
        rowVars, auditVars, moneyVars
  <1> QED
    BY <1>1, <1>2, <1>3, <1>4, <1>5, <1>6, <1>7, <1>8, <1>9, <1>10, <1>11,
        <1>12, <1>13, <1>14, <1>15, <1>16, <1>17, <1>18, <1>19, <1>20,
        <1>21, <1>22, <1>23, <1>24, <1>25, <1>26 DEF Next, Step

\* The amount of a refunded order is that of the refund that was paid.
LEMMA PaidBackStep ==
    ASSUME Typed, WordInv, AmountInv, LockInv, PaidBack, [Next]_vars
    PROVE  PaidBack'
  <1>0. \A a \in Amounts : refund[a].paid > 0 => refund'[a].paid > 0
    BY PaidIsStable
  <1>1. ASSUME NEW w \in Admins, CheckRequest(w) PROVE PaidBack'
    BY <1>1, <1>0 DEF CheckRequest, LockInv, WordInv, AmountInv,
        PaidBack, Typed, HoldPcs, QueryPcs, Refunded, Goto,
        Proceed, rowVars, auditVars, moneyVars
  <1>2. ASSUME NEW w \in Admins, RequestRefund(w) PROVE PaidBack'
    BY <1>2, <1>0 DEF RequestRefund, LockInv, WordInv, AmountInv,
        PaidBack, Typed, HoldPcs, QueryPcs, Refunded, Return,
        ErrorReturn, Refuse, rowVars, auditVars, moneyVars
  <1>3. ASSUME NEW w \in Admins, PrepareRefund(w) PROVE PaidBack'
    BY <1>3, <1>0 DEF PrepareRefund, LockInv, WordInv, AmountInv,
        PaidBack, Typed, HoldPcs, QueryPcs, Refunded, Goto,
        rowVars, auditVars, moneyVars
  <1>4. ASSUME NEW w \in Admins, PrepDeduct(w) PROVE PaidBack'
    BY <1>4, <1>0 DEF PrepDeduct, LockInv, WordInv, AmountInv,
        PaidBack, Typed, HoldPcs, QueryPcs, Refunded, Goto,
        Return, ErrorReturn, Refuse, rowVars, auditVars, moneyVars
  <1>5. ASSUME NEW w \in Admins, LockRefund(w) PROVE PaidBack'
    BY <1>5, <1>0 DEF LockRefund, LockInv, WordInv, AmountInv,
        PaidBack, Typed, HoldPcs, QueryPcs, Refunded, Goto,
        Return, ErrorReturn, Refuse, rowVars, auditVars, moneyVars
  <1>6. ASSUME NEW w \in Admins, CheckRollbackAudit(w) PROVE PaidBack'
    BY <1>6, <1>0 DEF CheckRollbackAudit, LockInv, WordInv, AmountInv,
        PaidBack, Typed, HoldPcs, QueryPcs, Refunded, Goto,
        Proceed, rowVars, auditVars, moneyVars
  <1>7. ASSUME NEW w \in Admins, DeductBalance(w) PROVE PaidBack'
    BY <1>7, <1>0 DEF DeductBalance, LockInv, WordInv, AmountInv,
        PaidBack, Typed, HoldPcs, QueryPcs, Refunded, Goto,
        rowVars, auditVars, moneyVars
  <1>8. ASSUME NEW w \in Admins, GatewayRefund(w) PROVE PaidBack'
    BY <1>8, <1>0 DEF GatewayRefund, LockInv, WordInv, AmountInv,
        PaidBack, Typed, HoldPcs, QueryPcs, Refunded, Goto,
        rowVars, auditVars, moneyVars
  <1>9. ASSUME NEW w \in Admins, MarkRefundOk(w) PROVE PaidBack'
    BY <1>9, <1>0 DEF MarkRefundOk, LockInv, WordInv, AmountInv,
        PaidBack, Typed, HoldPcs, QueryPcs, Refunded, Goto,
        Return, ErrorReturn, rowVars, auditVars, moneyVars
  <1>10. ASSUME NEW w \in Admins, RecordSuccess(w) PROVE PaidBack'
    BY <1>10, <1>0 DEF RecordSuccess, LockInv, WordInv, AmountInv,
        PaidBack, Typed, HoldPcs, QueryPcs, Refunded, Return,
        ErrorReturn, rowVars, auditVars, moneyVars
  <1>11. ASSUME NEW w \in Admins, UndoRefund(w) PROVE PaidBack'
    BY <1>11, <1>0 DEF UndoRefund, LockInv, WordInv, AmountInv,
        PaidBack, Typed, HoldPcs, QueryPcs, Refunded, Goto,
        rowVars, auditVars, moneyVars, RollbackRefund
  <1>12. ASSUME NEW w \in Admins, RestoreStatus(w) PROVE PaidBack'
    BY <1>12, <1>0 DEF RestoreStatus, LockInv, WordInv, AmountInv,
        PaidBack, Typed, Plans, HoldPcs, QueryPcs, Refunded, Return,
        ErrorReturn, rowVars, auditVars, moneyVars
  <1>13. ASSUME NEW w \in Admins, MarkRefundFailed(w) PROVE PaidBack'
    BY <1>13, <1>0 DEF MarkRefundFailed, LockInv, WordInv, AmountInv,
        PaidBack, Typed, HoldPcs, QueryPcs, Refunded, Return,
        ErrorReturn, rowVars, auditVars, moneyVars
  <1>14. ASSUME NEW w \in Admins, PendingRollback(w) PROVE PaidBack'
    BY <1>14, <1>0 DEF PendingRollback, LockInv, WordInv, AmountInv,
        PaidBack, Typed, HoldPcs, QueryPcs, Refunded, Goto,
        rowVars, auditVars, moneyVars, RollbackRefund
  <1>15. ASSUME NEW w \in Admins, MarkRefundPending(w) PROVE PaidBack'
    BY <1>15, <1>0 DEF MarkRefundPending, LockInv, WordInv, AmountInv,
        PaidBack, Typed, HoldPcs, QueryPcs, Refunded, Goto,
        Return, ErrorReturn, rowVars, auditVars, moneyVars
  <1>16. ASSUME NEW w \in Admins, WritePendingNote(w) PROVE PaidBack'
    BY <1>16, <1>0 DEF WritePendingNote, LockInv, WordInv, AmountInv,
        PaidBack, Typed, HoldPcs, QueryPcs, Refunded, Return,
        ErrorReturn, rowVars, auditVars, moneyVars
  <1>17. ASSUME NEW w \in Admins, BeginFinalize(w) PROVE PaidBack'
    BY <1>17, <1>0 DEF BeginFinalize, LockInv, WordInv, AmountInv,
        PaidBack, Typed, HoldPcs, QueryPcs, Refunded, Goto,
        rowVars, auditVars, moneyVars
  <1>18. ASSUME NEW w \in Admins, ReadPendingDetail(w) PROVE PaidBack'
    BY <1>18, <1>0 DEF ReadPendingDetail, LockInv, WordInv, AmountInv,
        PaidBack, Typed, HoldPcs, QueryPcs, Refunded, Goto,
        Proceed, rowVars, auditVars, moneyVars
  <1>19. ASSUME NEW w \in Admins, QueryRefund(w) PROVE PaidBack'
    BY <1>19, <1>0 DEF QueryRefund, LockInv, WordInv, AmountInv,
        PaidBack, Typed, HoldPcs, QueryPcs, Refunded, Goto,
        Return, ErrorReturn, Proceed, Refuse, rowVars, auditVars, moneyVars
  <1>20. ASSUME NEW w \in Admins, FinalizePendingRefund(w) PROVE PaidBack'
    BY <1>20, <1>0 DEF FinalizePendingRefund, LockInv, WordInv, AmountInv,
        PaidBack, Typed, HoldPcs, QueryPcs, Refunded, Return,
        ErrorReturn, Refuse, rowVars, auditVars, moneyVars
  <1>21. ASSUME NEW w \in Admins, FinalizeRefundFailed(w) PROVE PaidBack'
    BY <1>21, <1>0 DEF FinalizeRefundFailed, LockInv, WordInv, AmountInv,
        PaidBack, Typed, HoldPcs, QueryPcs, Refunded, Return,
        ErrorReturn, rowVars, auditVars, moneyVars
  <1>22. ASSUME NEW w \in Admins, Crash(w) PROVE PaidBack'
    BY <1>22, <1>0 DEF Crash, LockInv, WordInv, AmountInv,
        PaidBack, Typed, HoldPcs, QueryPcs, Refunded, Return,
        ErrorReturn, rowVars, auditVars, moneyVars
  <1>23. ASSUME NEW a \in Amounts, SettleRefund(a) PROVE PaidBack'
    BY <1>23, <1>0 DEF SettleRefund, LockInv, WordInv, AmountInv,
        PaidBack, Typed, HoldPcs, QueryPcs, Refunded, rowVars,
        auditVars, moneyVars
  <1>24. CASE Spend
    BY <1>24, <1>0 DEF Spend, LockInv, WordInv, AmountInv,
        PaidBack, Typed, HoldPcs, QueryPcs, Refunded, rowVars,
        auditVars
  <1>25. CASE Recharge
    BY <1>25, <1>0 DEF Recharge, LockInv, WordInv, AmountInv,
        PaidBack, Typed, HoldPcs, QueryPcs, Refunded, rowVars,
        auditVars
  <1>26. CASE UNCHANGED vars
    BY <1>26 DEF vars, LockInv, WordInv, AmountInv, PaidBack,
        Typed, HoldPcs, QueryPcs, Refunded, rowVars, auditVars, moneyVars
  <1> QED
    BY <1>1, <1>2, <1>3, <1>4, <1>5, <1>6, <1>7, <1>8, <1>9, <1>10, <1>11,
        <1>12, <1>13, <1>14, <1>15, <1>16, <1>17, <1>18, <1>19, <1>20,
        <1>21, <1>22, <1>23, <1>24, <1>25, <1>26 DEF Next, Step

\* Only gwRefund has the provider pay, and it finds nothing paid before, unless
\* there is doubt; what follows it without doubt is markRefundOk.
LEMMA ExactStep ==
    ASSUME ~Queryable, Typed, AmountInv, LockInv, OneRefunder, ExactInv,
           [Next]_vars
    PROVE  ExactInv'
  <1>1. ASSUME NEW w \in Admins, GatewayRefund(w) PROVE ExactInv'
    <2> DEFINE a == plan[w].amount
    <2> SUFFICES ASSUME ~doubt' PROVE ExactInv'
      BY DEF ExactInv
    <2>1. PICK answer :
            /\ AskRefund(a, answer)
            /\ ~doubt
            /\ \/ answer = "paid" /\ pc' = [pc EXCEPT ![w] = "ok"]
               \/ answer = "failed" /\ pc' = [pc EXCEPT ![w] = "undo"]
      BY <1>1 DEF GatewayRefund, Goto
    <2>2. /\ pc[w] \in HoldPcs \ {"ok"}
          /\ a \in Amounts
          /\ UNCHANGED <<plan, status, refundAmount>>
      BY <1>1 DEF GatewayRefund, HoldPcs, AmountInv, rowVars
    <2>3. /\ \A b \in Amounts : refund[b].open = 0
          /\ Unasked
          /\ status = "REFUNDING"
          /\ \A v \in Admins : v # w => pc[v] \notin HoldPcs
      BY <2>1, <2>2 DEF ExactInv, LockInv, OneRefunder
    <2>4. status' \notin Refundable /\ status' \notin Refunded
      BY <2>2, <2>3 DEF Refundable, Refunded
    <2>5. \A v \in Admins : v # w => pc'[v] \notin HoldPcs
      BY <2>1, <2>3 DEF Typed
    <2>6. "ok" \in HoldPcs
      BY DEF HoldPcs
    <2>7. refund \in [Amounts -> RefundCounts] /\ pc \in [Admins -> Pcs]
      BY DEF Typed
    <2>8. CASE answer = "paid"
      <3>1. /\ \A b \in Amounts : refund'[b].open = 0
            /\ \A b \in Amounts : refund'[b].paid = IF b = a THEN 1 ELSE 0
        <4>1. /\ \A b \in Amounts : b # a => refund'[b] = refund[b]
              /\ refund'[a].open = refund[a].open
              /\ refund'[a].paid = refund[a].paid + 1
          BY <2>1, <2>2, <2>7, <2>8, AskEffect
        <4> QED
          BY <2>2, <2>3, <4>1 DEF Unasked
      <3>2. pc'[w] = "ok"
        BY <2>1, <2>7, <2>8
      <3> QED
        BY <2>2, <2>4, <2>5, <2>6, <3>1, <3>2 DEF ExactInv, PaidOnly
    <2>9. CASE answer = "failed"
      <3>1. refund' = refund
        BY <2>1, <2>2, <2>7, <2>9, AskEffect
      <3>2. pc'[w] = "undo"
        BY <2>1, <2>7, <2>9
      <3>3. (\A b \in Amounts : refund'[b].open = 0) /\ Unasked'
        BY <2>3, <3>1 DEF Unasked
      <3> QED
        BY <2>4, <2>5, <2>6, <3>2, <3>3 DEF ExactInv
    <2> QED
      BY <2>1, <2>8, <2>9
  <1>2. ASSUME NEW a \in Amounts, SettleRefund(a) PROVE ExactInv'
    BY <1>2 DEF SettleRefund, ExactInv
  <1>3. ASSUME NEW w \in Admins, CheckRequest(w) PROVE ExactInv'
    BY <1>3 DEF CheckRequest, ExactInv, Unasked, PaidOnly, LockInv,
        OneRefunder, Typed, HoldPcs, QueryPcs, Refundable, Refunded, Goto,
        Proceed, rowVars
  <1>4. ASSUME NEW w \in Admins, RequestRefund(w) PROVE ExactInv'
    BY <1>4 DEF RequestRefund, ExactInv, Unasked, PaidOnly, LockInv,
        OneRefunder, Typed, HoldPcs, QueryPcs, Refundable, Refunded, Return,
        ErrorReturn, Refuse, rowVars
  <1>5. ASSUME NEW w \in Admins, PrepareRefund(w) PROVE ExactInv'
    BY <1>5 DEF PrepareRefund, ExactInv, Unasked, PaidOnly, LockInv,
        OneRefunder, Typed, HoldPcs, QueryPcs, Refundable, Refunded, Goto,
        rowVars, NoPlan
  <1>6. ASSUME NEW w \in Admins, PrepDeduct(w) PROVE ExactInv'
    BY <1>6, TakeKeeps DEF PrepDeduct, ExactInv, Unasked, PaidOnly, LockInv,
        OneRefunder, Typed, HoldPcs, QueryPcs, Refundable, Refunded, Goto,
        Return, ErrorReturn, Refuse, rowVars
  <1>7. ASSUME NEW w \in Admins, LockRefund(w) PROVE ExactInv'
    BY <1>7 DEF LockRefund, ExactInv, Unasked, PaidOnly, LockInv,
        OneRefunder, Typed, HoldPcs, QueryPcs, Refundable, Refunded, Goto,
        Return, ErrorReturn, Refuse, rowVars
  <1>8. ASSUME NEW w \in Admins, CheckRollbackAudit(w) PROVE ExactInv'
    BY <1>8, TakeKeeps DEF CheckRollbackAudit, ExactInv, Unasked, PaidOnly,
        LockInv, OneRefunder, Typed, HoldPcs, QueryPcs, Refundable,
        Refunded, Goto, Proceed, rowVars
  <1>9. ASSUME NEW w \in Admins, DeductBalance(w) PROVE ExactInv'
    BY <1>9, TakeKeeps DEF DeductBalance, ExactInv, Unasked, PaidOnly,
        LockInv, OneRefunder, Typed, HoldPcs, QueryPcs, Refundable,
        Refunded, Goto, rowVars
  <1>10. ASSUME NEW w \in Admins, MarkRefundOk(w) PROVE ExactInv'
    BY <1>10 DEF MarkRefundOk, ExactInv, Unasked, PaidOnly, LockInv,
        OneRefunder, Typed, HoldPcs, QueryPcs, Refundable, Refunded, Goto,
        Return, ErrorReturn, rowVars, FinalStatus
  <1>11. ASSUME NEW w \in Admins, RecordSuccess(w) PROVE ExactInv'
    BY <1>11 DEF RecordSuccess, ExactInv, Unasked, PaidOnly, LockInv,
        OneRefunder, Typed, HoldPcs, QueryPcs, Refundable, Refunded, Return,
        ErrorReturn, rowVars
  <1>12. ASSUME NEW w \in Admins, UndoRefund(w) PROVE ExactInv'
    <2>1. \A v \in Admins : plan'[v].amount = plan[v].amount
      BY <1>12, UndoneKeeps DEF UndoRefund, RollbackRefund, Typed
    <2>2. /\ \E p \in {"restore", "markfail"} : pc' = [pc EXCEPT ![w] = p]
          /\ pc[w] \in HoldPcs \ {"ok"}
          /\ UNCHANGED <<refund, doubt, status, refundAmount>>
      BY <1>12 DEF UndoRefund, RollbackRefund, Goto, HoldPcs, rowVars
    <2> QED
      BY <2>1, <2>2 DEF ExactInv, Unasked, PaidOnly, Typed
  <1>13. ASSUME NEW w \in Admins, RestoreStatus(w) PROVE ExactInv'
    BY <1>13 DEF RestoreStatus, ExactInv, Unasked, PaidOnly, LockInv,
        OneRefunder, Typed, HoldPcs, QueryPcs, Refundable, Refunded, Return,
        ErrorReturn, rowVars, Plans
  <1>14. ASSUME NEW w \in Admins, MarkRefundFailed(w) PROVE ExactInv'
    BY <1>14 DEF MarkRefundFailed, ExactInv, Unasked, PaidOnly, LockInv,
        OneRefunder, Typed, HoldPcs, QueryPcs, Refundable, Refunded, Return,
        ErrorReturn, rowVars
  <1>15. ASSUME NEW w \in Admins, PendingRollback(w) PROVE ExactInv'
    <2>1. \A v \in Admins : plan'[v].amount = plan[v].amount
      BY <1>15, UndoneKeeps DEF PendingRollback, RollbackRefund, Typed
    <2>2. /\ \E p \in {"markpending"} : pc' = [pc EXCEPT ![w] = p]
          /\ pc[w] \in HoldPcs \ {"ok"}
          /\ UNCHANGED <<refund, doubt, status, refundAmount>>
      BY <1>15 DEF PendingRollback, RollbackRefund, Goto, HoldPcs, rowVars
    <2> QED
      BY <2>1, <2>2 DEF ExactInv, Unasked, PaidOnly, Typed
  <1>16. ASSUME NEW w \in Admins, MarkRefundPending(w) PROVE ExactInv'
    BY <1>16 DEF MarkRefundPending, ExactInv, Unasked, PaidOnly, LockInv,
        OneRefunder, Typed, HoldPcs, QueryPcs, Refundable, Refunded, Goto,
        Return, ErrorReturn, rowVars
  <1>17. ASSUME NEW w \in Admins, WritePendingNote(w) PROVE ExactInv'
    BY <1>17 DEF WritePendingNote, ExactInv, Unasked, PaidOnly, LockInv,
        OneRefunder, Typed, HoldPcs, QueryPcs, Refundable, Refunded, Return,
        ErrorReturn, rowVars
  <1>18. ASSUME NEW w \in Admins, Crash(w) PROVE ExactInv'
    BY <1>18 DEF Crash, ExactInv, Unasked, PaidOnly, LockInv, OneRefunder,
        Typed, HoldPcs, QueryPcs, Refundable, Refunded, Return, ErrorReturn,
        rowVars
  <1>19. ASSUME NEW w \in Admins,
                \/ BeginFinalize(w) \/ ReadPendingDetail(w) \/ QueryRefund(w)
                \/ FinalizePendingRefund(w) \/ FinalizeRefundFailed(w)
         PROVE  FALSE
    BY <1>19 DEF BeginFinalize, ReadPendingDetail, QueryRefund,
        FinalizePendingRefund, FinalizeRefundFailed, QueryPcs, LockInv
  <1>20. CASE Spend \/ Recharge \/ UNCHANGED vars
    BY <1>20 DEF Spend, Recharge, vars, ExactInv, Unasked, PaidOnly, rowVars
  <1> QED
    BY <1>1, <1>2, <1>3, <1>4, <1>5, <1>6, <1>7, <1>8, <1>9, <1>10, <1>11,
       <1>12, <1>13, <1>14, <1>15, <1>16, <1>17, <1>18, <1>19, <1>20 DEF
       Next, Step

\* What is taken and given back adds up within the user's money.
LEMMA MoneyStep ==
    ASSUME Typed, LockInv, OneRefunder, MoneyInv, [Next]_vars
    PROVE  MoneyInv'
  <1>1. ASSUME NEW w \in Admins, CheckRequest(w) PROVE MoneyInv'
    BY <1>1, AmountAssumption DEF CheckRequest, MoneyInv, LockInv,
        OneRefunder, Typed, HoldPcs, QueryPcs, Goto, Proceed, rowVars,
        auditVars, moneyVars
  <1>2. ASSUME NEW w \in Admins, RequestRefund(w) PROVE MoneyInv'
    BY <1>2, AmountAssumption DEF RequestRefund, MoneyInv, LockInv,
        OneRefunder, Typed, HoldPcs, QueryPcs, Return, ErrorReturn, Refuse,
        rowVars, auditVars, moneyVars
  <1>3. ASSUME NEW w \in Admins, PrepareRefund(w) PROVE MoneyInv'
    BY <1>3, AmountAssumption DEF PrepareRefund, MoneyInv, LockInv,
        OneRefunder, Typed, HoldPcs, QueryPcs, Goto, rowVars, auditVars,
        moneyVars
  <1>4. ASSUME NEW w \in Admins, PrepDeduct(w) PROVE MoneyInv'
    BY <1>4, AmountAssumption DEF PrepDeduct, MoneyInv, LockInv,
        OneRefunder, Typed, HoldPcs, QueryPcs, Goto, Return, ErrorReturn,
        Refuse, rowVars, auditVars, moneyVars
  <1>5. ASSUME NEW w \in Admins, LockRefund(w) PROVE MoneyInv'
    <2>1. \A v \in Admins : plan[v].take \in 0 .. Amount
      BY DEF Typed, Plans
    <2> QED
      BY <1>5, <2>1, AmountAssumption
         DEF LockRefund, MoneyInv, Typed, Goto, Return, Refuse, ErrorReturn, moneyVars
  <1>6. ASSUME NEW w \in Admins, CheckRollbackAudit(w) PROVE MoneyInv'
    <2>1. \A v \in Admins : v # w => plan'[v] = plan[v]
      BY <1>6, TakeKeeps DEF CheckRollbackAudit, Proceed, Typed
    <2>2. \/ pc' = [pc EXCEPT ![w] = "deduct"]
          \/ pc' = [pc EXCEPT ![w] = "gateway"] /\ plan'[w].take = 0
      BY <1>6, TakeKeeps DEF CheckRollbackAudit, Proceed, Goto, Typed
    <2>3. UNCHANGED moneyVars
      BY <1>6 DEF CheckRollbackAudit, Proceed
    <2> QED
      BY <2>1, <2>2, <2>3 DEF MoneyInv, Typed, moneyVars
  <1>7. ASSUME NEW w \in Admins, DeductBalance(w) PROVE MoneyInv'
    <2> DEFINE d == AtMostBalance(plan[w].take)
    <2>1. d \in 0 .. Amount /\ (d > 0 => d \leq balance)
      BY AtMostBalanceBounds DEF Typed, Plans
    <2>2. \A v \in Admins : v # w => pc[v] \notin HoldPcs
      BY <1>7 DEF DeductBalance, OneRefunder, HoldPcs
    <2> HIDE DEF d
    <2>3. CASE /\ balance' = balance - d
               /\ taken' = taken + d
               /\ plan' = [plan EXCEPT ![w].take = d]
               /\ Goto(w, "gateway")
      <3>1. plan'[w].take = d
        BY <2>3, TakeKeeps DEF Typed
      <3> QED
        BY <2>1, <2>2, <2>3, <3>1, AmountAssumption
           DEF MoneyInv, Typed, Goto, HoldPcs
    <2>4. CASE Goto(w, "restore") /\ UNCHANGED <<moneyVars, plan>>
      BY <2>4 DEF MoneyInv, Typed, Goto, moneyVars
    <2> QED
      BY <1>7, <2>3, <2>4 DEF DeductBalance, d
  <1>8. ASSUME NEW w \in Admins, GatewayRefund(w) PROVE MoneyInv'
    BY <1>8, AmountAssumption DEF GatewayRefund, MoneyInv, LockInv,
        OneRefunder, Typed, HoldPcs, QueryPcs, Goto, rowVars, auditVars,
        moneyVars
  <1>9. ASSUME NEW w \in Admins, MarkRefundOk(w) PROVE MoneyInv'
    BY <1>9, AmountAssumption DEF MarkRefundOk, MoneyInv, LockInv,
        OneRefunder, Typed, HoldPcs, QueryPcs, Goto, Return, ErrorReturn,
        rowVars, auditVars, moneyVars
  <1>10. ASSUME NEW w \in Admins, RecordSuccess(w) PROVE MoneyInv'
    BY <1>10, AmountAssumption DEF RecordSuccess, MoneyInv, LockInv,
        OneRefunder, Typed, HoldPcs, QueryPcs, Return, ErrorReturn, rowVars,
        auditVars, moneyVars
  <1>11. ASSUME NEW w \in Admins, UndoRefund(w) PROVE MoneyInv'
    <2>1. /\ plan[w].take \in 0 .. Amount
          /\ plan[w].take \leq taken
      BY <1>11 DEF UndoRefund, MoneyInv, Typed, Plans
    <2>2. \A v \in Admins : v # w => pc[v] \notin HoldPcs
      BY <1>11 DEF UndoRefund, OneRefunder, HoldPcs
    <2>3. \E p \in {"restore", "markfail", "markpending"} :
             pc' = [pc EXCEPT ![w] = p]
      BY <1>11 DEF UndoRefund, RollbackRefund, Goto
    <2>4. \/ balance' = balance + plan[w].take /\ taken' = taken - plan[w].take
          \/ balance' = balance /\ taken' = taken
      BY <1>11 DEF UndoRefund, RollbackRefund, moneyVars
    <2> QED
      BY <2>1, <2>2, <2>3, <2>4, AmountAssumption DEF MoneyInv, Typed, HoldPcs
  <1>12. ASSUME NEW w \in Admins, RestoreStatus(w) PROVE MoneyInv'
    BY <1>12, AmountAssumption DEF RestoreStatus, MoneyInv, LockInv,
        OneRefunder, Typed, HoldPcs, QueryPcs, Return, ErrorReturn, rowVars,
        auditVars, moneyVars
  <1>13. ASSUME NEW w \in Admins, MarkRefundFailed(w) PROVE MoneyInv'
    BY <1>13, AmountAssumption DEF MarkRefundFailed, MoneyInv, LockInv,
        OneRefunder, Typed, HoldPcs, QueryPcs, Return, ErrorReturn, rowVars,
        auditVars, moneyVars
  <1>14. ASSUME NEW w \in Admins, PendingRollback(w) PROVE MoneyInv'
    <2>1. /\ plan[w].take \in 0 .. Amount
          /\ plan[w].take \leq taken
      BY <1>14 DEF PendingRollback, MoneyInv, Typed, Plans
    <2>2. \A v \in Admins : v # w => pc[v] \notin HoldPcs
      BY <1>14 DEF PendingRollback, OneRefunder, HoldPcs
    <2>3. \E p \in {"restore", "markfail", "markpending"} :
             pc' = [pc EXCEPT ![w] = p]
      BY <1>14 DEF PendingRollback, RollbackRefund, Goto
    <2>4. \/ balance' = balance + plan[w].take /\ taken' = taken - plan[w].take
          \/ balance' = balance /\ taken' = taken
      BY <1>14 DEF PendingRollback, RollbackRefund, moneyVars
    <2> QED
      BY <2>1, <2>2, <2>3, <2>4, AmountAssumption DEF MoneyInv, Typed, HoldPcs
  <1>15. ASSUME NEW w \in Admins, MarkRefundPending(w) PROVE MoneyInv'
    BY <1>15, AmountAssumption DEF MarkRefundPending, MoneyInv, LockInv,
        OneRefunder, Typed, HoldPcs, QueryPcs, Goto, Return, ErrorReturn,
        rowVars, auditVars, moneyVars
  <1>16. ASSUME NEW w \in Admins, WritePendingNote(w) PROVE MoneyInv'
    BY <1>16, AmountAssumption DEF WritePendingNote, MoneyInv, LockInv,
        OneRefunder, Typed, HoldPcs, QueryPcs, Return, ErrorReturn, rowVars,
        auditVars, moneyVars
  <1>17. ASSUME NEW w \in Admins, BeginFinalize(w) PROVE MoneyInv'
    BY <1>17, AmountAssumption DEF BeginFinalize, MoneyInv, LockInv,
        OneRefunder, Typed, HoldPcs, QueryPcs, Goto, rowVars, auditVars,
        moneyVars
  <1>18. ASSUME NEW w \in Admins, ReadPendingDetail(w) PROVE MoneyInv'
    BY <1>18, AmountAssumption DEF ReadPendingDetail, MoneyInv, LockInv,
        OneRefunder, Typed, HoldPcs, QueryPcs, Goto, Proceed, rowVars,
        auditVars, moneyVars
  <1>19. ASSUME NEW w \in Admins, QueryRefund(w) PROVE MoneyInv'
    BY <1>19, AmountAssumption DEF QueryRefund, MoneyInv, LockInv,
        OneRefunder, Typed, HoldPcs, QueryPcs, Goto, Return, ErrorReturn,
        Proceed, Refuse, rowVars, auditVars, moneyVars
  <1>20. ASSUME NEW w \in Admins, FinalizePendingRefund(w) PROVE MoneyInv'
    BY <1>20, AmountAssumption DEF FinalizePendingRefund, MoneyInv, LockInv,
        OneRefunder, Typed, HoldPcs, QueryPcs, Return, ErrorReturn, Refuse,
        rowVars, auditVars, moneyVars
  <1>21. ASSUME NEW w \in Admins, FinalizeRefundFailed(w) PROVE MoneyInv'
    BY <1>21, AmountAssumption DEF FinalizeRefundFailed, MoneyInv, LockInv,
        OneRefunder, Typed, HoldPcs, QueryPcs, Return, ErrorReturn, rowVars,
        auditVars, moneyVars
  <1>22. ASSUME NEW w \in Admins, Crash(w) PROVE MoneyInv'
    BY <1>22, AmountAssumption DEF Crash, MoneyInv, LockInv, OneRefunder,
        Typed, HoldPcs, QueryPcs, Return, ErrorReturn, rowVars, auditVars,
        moneyVars
  <1>23. ASSUME NEW a \in Amounts, SettleRefund(a) PROVE MoneyInv'
    BY <1>23, AmountAssumption DEF SettleRefund, MoneyInv, LockInv,
        OneRefunder, Typed, HoldPcs, QueryPcs, rowVars, auditVars, moneyVars
  <1>24. CASE Spend
    BY <1>24, AmountAssumption DEF Spend, MoneyInv, LockInv, OneRefunder,
        Typed, HoldPcs, QueryPcs, rowVars, auditVars
  <1>25. CASE Recharge
    BY <1>25, AmountAssumption DEF Recharge, MoneyInv, LockInv, OneRefunder,
        Typed, HoldPcs, QueryPcs, rowVars, auditVars
  <1>26. CASE UNCHANGED vars
    BY <1>26 DEF vars, MoneyInv, LockInv, OneRefunder, Typed, HoldPcs,
        QueryPcs, rowVars, auditVars, moneyVars
  <1> QED
    BY <1>1, <1>2, <1>3, <1>4, <1>5, <1>6, <1>7, <1>8, <1>9, <1>10, <1>11,
        <1>12, <1>13, <1>14, <1>15, <1>16, <1>17, <1>18, <1>19, <1>20,
        <1>21, <1>22, <1>23, <1>24, <1>25, <1>26 DEF Next, Step

\* A request deducts only when nothing is out, and gives back or marks what it
\* deducted before the order can be refunded again.
LEMMA ChargedStep ==
    ASSUME ~SwallowsFaults, Typed, LockInv, OneRefunder, MoneyInv, Charged, [Next]_vars
    PROVE  Charged'
  <1>1. ASSUME NEW w \in Admins, CheckRequest(w) PROVE Charged'
    BY <1>1, AmountAssumption DEF CheckRequest, Charged, OnceInv, TakenOnce,
        GivenBackOrMarked, Settled, MoneyInv, LockInv, OneRefunder, Typed,
        HoldPcs, QueryPcs, Goto, Proceed, rowVars, auditVars, moneyVars
  <1>2. ASSUME NEW w \in Admins, RequestRefund(w) PROVE Charged'
    BY <1>2, AmountAssumption DEF RequestRefund, Charged, OnceInv,
        TakenOnce, GivenBackOrMarked, Settled, MoneyInv, LockInv,
        OneRefunder, Typed, HoldPcs, QueryPcs, Return, ErrorReturn, Refuse,
        rowVars, auditVars, moneyVars, Refundable
  <1>3. ASSUME NEW w \in Admins, PrepareRefund(w) PROVE Charged'
    BY <1>3, AmountAssumption DEF PrepareRefund, Charged, OnceInv,
        TakenOnce, GivenBackOrMarked, Settled, MoneyInv, LockInv,
        OneRefunder, Typed, HoldPcs, QueryPcs, Goto, rowVars, auditVars,
        moneyVars
  <1>4. ASSUME NEW w \in Admins, PrepDeduct(w) PROVE Charged'
    BY <1>4, AmountAssumption DEF PrepDeduct, Charged, OnceInv, TakenOnce,
        GivenBackOrMarked, Settled, MoneyInv, LockInv, OneRefunder, Typed,
        HoldPcs, QueryPcs, Goto, Return, ErrorReturn, Refuse, rowVars,
        auditVars, moneyVars
  <1>5. ASSUME NEW w \in Admins, LockRefund(w) PROVE Charged'
    <2>1. \A v \in Admins : plan[v].take \in 0 .. Amount
      BY DEF Typed, Plans
    <2>2. CASE Refuse(w) \/ ErrorReturn(w)
      BY <2>2 DEF Charged, OnceInv, TakenOnce, GivenBackOrMarked, Settled, Typed,
          Refuse, ErrorReturn, Return, rowVars, auditVars, moneyVars
    <2>3. CASE ~(Refuse(w) \/ ErrorReturn(w))
      <3>1. /\ Settled
            /\ status' = "REFUNDING"
            /\ pc' = [pc EXCEPT ![w] =
                         IF plan[w].take > 0 THEN "audit" ELSE "gateway"]
            /\ UNCHANGED <<rollbackFailed, taken, plan>>
        BY <1>5, <2>3 DEF LockRefund, Charged, GivenBackOrMarked, Settled, Goto,
            auditVars, moneyVars
      <3> QED
        BY <2>1, <3>1 DEF Charged, OnceInv, TakenOnce, GivenBackOrMarked, Settled,
            Typed, Refundable
    <2> QED
      BY <2>2, <2>3
  <1>6. ASSUME NEW w \in Admins, CheckRollbackAudit(w) PROVE Charged'
    <2>1. \A v \in Admins : v # w => plan'[v] = plan[v]
      BY <1>6, TakeKeeps DEF CheckRollbackAudit, Proceed, Typed
    <2>2. \/ pc' = [pc EXCEPT ![w] = "deduct"] /\ ~rollbackFailed
          \/ /\ pc' = [pc EXCEPT ![w] = "gateway"]
             /\ rollbackFailed
             /\ plan'[w].take = 0
      BY <1>6, TakeKeeps DEF CheckRollbackAudit, Proceed, Goto, Typed
    <2>3. UNCHANGED <<status, rollbackFailed, taken>>
      BY <1>6 DEF CheckRollbackAudit, Proceed, rowVars, auditVars, moneyVars
    <2>4. Settled
      BY <1>6 DEF CheckRollbackAudit, Charged, OnceInv
    <2> QED
      BY <2>1, <2>2, <2>3, <2>4
         DEF Charged, OnceInv, TakenOnce, GivenBackOrMarked, Settled, Typed
  <1>7. ASSUME NEW w \in Admins, DeductBalance(w) PROVE Charged'
    <2> DEFINE d == AtMostBalance(plan[w].take)
    <2>1. d \in 0 .. Amount
      BY AtMostBalanceBounds DEF Typed, Plans
    <2>2. /\ taken = 0
          /\ status = "REFUNDING"
          /\ UNCHANGED <<status, rollbackFailed>>
          /\ \A v \in Admins : v # w => pc[v] \notin HoldPcs
      BY <1>7 DEF DeductBalance, OneRefunder, HoldPcs, Charged, OnceInv, LockInv,
          rowVars, auditVars
    <2> HIDE DEF d
    <2>3. CASE /\ taken' = taken + d
               /\ plan' = [plan EXCEPT ![w].take = d]
               /\ Goto(w, "gateway")
      <3>1. plan'[w].take = d
        BY <2>3, TakeKeeps DEF Typed
      <3>2. pc' = [pc EXCEPT ![w] = "gateway"]
        BY <2>3 DEF Goto
      <3>3. taken' = d
        BY <2>1, <2>2, <2>3
      <3> QED
        BY <2>1, <2>2, <3>1, <3>2, <3>3, AmountAssumption
           DEF Charged, OnceInv, TakenOnce, GivenBackOrMarked, Settled, Typed,
               HoldPcs, Refundable
    <2>4. CASE Goto(w, "restore") /\ UNCHANGED <<moneyVars, plan>>
      BY <2>2, <2>4, AmountAssumption
         DEF Charged, OnceInv, TakenOnce, GivenBackOrMarked, Settled, Typed,
             Goto, moneyVars
    <2> QED
      BY <1>7, <2>3, <2>4 DEF DeductBalance, d
  <1>8. ASSUME NEW w \in Admins, GatewayRefund(w) PROVE Charged'
    BY <1>8, AmountAssumption DEF GatewayRefund, Charged, OnceInv,
        TakenOnce, GivenBackOrMarked, Settled, MoneyInv, LockInv,
        OneRefunder, Typed, HoldPcs, QueryPcs, Goto, rowVars, auditVars,
        moneyVars
  <1>9. ASSUME NEW w \in Admins, MarkRefundOk(w) PROVE Charged'
    <2>1. CASE ErrorReturn(w)
      BY <2>1 DEF Charged, OnceInv, TakenOnce, GivenBackOrMarked, Settled, Typed,
          ErrorReturn, Return, rowVars, auditVars, moneyVars
    <2>2. CASE ~ErrorReturn(w)
      <3>1. /\ status' \notin Refundable
            /\ pc' = [pc EXCEPT ![w] = "record"]
            /\ UNCHANGED <<rollbackFailed, taken, plan>>
        BY <1>9, <2>2 DEF MarkRefundOk, FinalStatus, Refundable, Goto, auditVars,
            moneyVars
      <3> QED
        BY <3>1 DEF Charged, OnceInv, TakenOnce, GivenBackOrMarked, Settled, Typed
    <2> QED
      BY <2>1, <2>2
  <1>10. ASSUME NEW w \in Admins, RecordSuccess(w) PROVE Charged'
    BY <1>10, AmountAssumption DEF RecordSuccess, Charged, OnceInv,
        TakenOnce, GivenBackOrMarked, Settled, MoneyInv, LockInv,
        OneRefunder, Typed, HoldPcs, QueryPcs, Return, ErrorReturn, rowVars,
        auditVars, moneyVars
  <1>11. ASSUME NEW w \in Admins, UndoRefund(w) PROVE Charged'
    <2>1. plan[w].take \in 0 .. Amount
      BY DEF Typed, Plans
    <2>2. taken = plan[w].take \/ (plan[w].take = 0 /\ rollbackFailed)
      BY <1>11 DEF UndoRefund, Charged, OnceInv
    <2>3. \A v \in Admins : v # w => pc[v] \notin HoldPcs
      BY <1>11 DEF UndoRefund, OneRefunder, HoldPcs
    <2>4. \E p \in {"restore", "markfail", "markpending"} :
             pc' = [pc EXCEPT ![w] = p]
      BY <1>11 DEF UndoRefund, RollbackRefund, Goto
    <2>5. /\ \/ taken' = taken - plan[w].take /\ UNCHANGED rollbackFailed
             \/ taken' = taken /\ rollbackFailed'
          /\ UNCHANGED status
      BY <1>11 DEF UndoRefund, RollbackRefund, rowVars, auditVars, moneyVars
    <2>6. Settled' /\ taken' \leq Amount
      BY <2>1, <2>2, <2>5, AmountAssumption
         DEF Settled, Charged, TakenOnce, Typed
    <2> QED
      BY <2>3, <2>4, <2>6
         DEF Charged, OnceInv, TakenOnce, GivenBackOrMarked, Settled, Typed, HoldPcs
  <1>12. ASSUME NEW w \in Admins, RestoreStatus(w) PROVE Charged'
    BY <1>12, AmountAssumption DEF RestoreStatus, Charged, OnceInv,
        TakenOnce, GivenBackOrMarked, Settled, MoneyInv, LockInv,
        OneRefunder, Typed, HoldPcs, QueryPcs, Return, ErrorReturn, rowVars,
        auditVars, moneyVars
  <1>13. ASSUME NEW w \in Admins, MarkRefundFailed(w) PROVE Charged'
    BY <1>13, AmountAssumption DEF MarkRefundFailed, Charged, OnceInv,
        TakenOnce, GivenBackOrMarked, Settled, MoneyInv, LockInv,
        OneRefunder, Typed, HoldPcs, QueryPcs, Return, ErrorReturn, rowVars,
        auditVars, moneyVars
  <1>14. ASSUME NEW w \in Admins, PendingRollback(w) PROVE Charged'
    <2>1. plan[w].take \in 0 .. Amount
      BY DEF Typed, Plans
    <2>2. taken = plan[w].take \/ (plan[w].take = 0 /\ rollbackFailed)
      BY <1>14 DEF PendingRollback, Charged, OnceInv
    <2>3. \A v \in Admins : v # w => pc[v] \notin HoldPcs
      BY <1>14 DEF PendingRollback, OneRefunder, HoldPcs
    <2>4. \E p \in {"restore", "markfail", "markpending"} :
             pc' = [pc EXCEPT ![w] = p]
      BY <1>14 DEF PendingRollback, RollbackRefund, Goto
    <2>5. /\ \/ taken' = taken - plan[w].take /\ UNCHANGED rollbackFailed
             \/ taken' = taken /\ rollbackFailed'
          /\ UNCHANGED status
      BY <1>14 DEF PendingRollback, RollbackRefund, rowVars, auditVars, moneyVars
    <2>6. Settled' /\ taken' \leq Amount
      BY <2>1, <2>2, <2>5, AmountAssumption
         DEF Settled, Charged, TakenOnce, Typed
    <2> QED
      BY <2>3, <2>4, <2>6
         DEF Charged, OnceInv, TakenOnce, GivenBackOrMarked, Settled, Typed, HoldPcs
  <1>15. ASSUME NEW w \in Admins, MarkRefundPending(w) PROVE Charged'
    BY <1>15, AmountAssumption DEF MarkRefundPending, Charged, OnceInv,
        TakenOnce, GivenBackOrMarked, Settled, MoneyInv, LockInv,
        OneRefunder, Typed, HoldPcs, QueryPcs, Goto, Return, ErrorReturn,
        rowVars, auditVars, moneyVars
  <1>16. ASSUME NEW w \in Admins, WritePendingNote(w) PROVE Charged'
    BY <1>16, AmountAssumption DEF WritePendingNote, Charged, OnceInv,
        TakenOnce, GivenBackOrMarked, Settled, MoneyInv, LockInv,
        OneRefunder, Typed, HoldPcs, QueryPcs, Return, ErrorReturn, rowVars,
        auditVars, moneyVars
  <1>17. ASSUME NEW w \in Admins, BeginFinalize(w) PROVE Charged'
    BY <1>17, AmountAssumption DEF BeginFinalize, Charged, OnceInv,
        TakenOnce, GivenBackOrMarked, Settled, MoneyInv, LockInv,
        OneRefunder, Typed, HoldPcs, QueryPcs, Goto, rowVars, auditVars,
        moneyVars
  <1>18. ASSUME NEW w \in Admins, ReadPendingDetail(w) PROVE Charged'
    BY <1>18, AmountAssumption DEF ReadPendingDetail, Charged, OnceInv,
        TakenOnce, GivenBackOrMarked, Settled, MoneyInv, LockInv,
        OneRefunder, Typed, HoldPcs, QueryPcs, Goto, Proceed, rowVars,
        auditVars, moneyVars
  <1>19. ASSUME NEW w \in Admins, QueryRefund(w) PROVE Charged'
    BY <1>19, AmountAssumption DEF QueryRefund, Charged, OnceInv, TakenOnce,
        GivenBackOrMarked, Settled, MoneyInv, LockInv, OneRefunder, Typed,
        HoldPcs, QueryPcs, Goto, Return, ErrorReturn, Proceed, Refuse,
        rowVars, auditVars, moneyVars
  <1>20. ASSUME NEW w \in Admins, FinalizePendingRefund(w) PROVE Charged'
    BY <1>20, AmountAssumption DEF FinalizePendingRefund, Charged, OnceInv,
        TakenOnce, GivenBackOrMarked, Settled, MoneyInv, LockInv,
        OneRefunder, Typed, HoldPcs, QueryPcs, Return, ErrorReturn, Refuse,
        rowVars, auditVars, moneyVars
  <1>21. ASSUME NEW w \in Admins, FinalizeRefundFailed(w) PROVE Charged'
    BY <1>21, AmountAssumption DEF FinalizeRefundFailed, Charged, OnceInv,
        TakenOnce, GivenBackOrMarked, Settled, MoneyInv, LockInv,
        OneRefunder, Typed, HoldPcs, QueryPcs, Return, ErrorReturn, rowVars,
        auditVars, moneyVars
  <1>22. ASSUME NEW w \in Admins, Crash(w) PROVE Charged'
    BY <1>22, AmountAssumption DEF Crash, Charged, OnceInv, TakenOnce,
        GivenBackOrMarked, Settled, MoneyInv, LockInv, OneRefunder, Typed,
        HoldPcs, QueryPcs, Return, ErrorReturn, rowVars, auditVars,
        moneyVars
  <1>23. ASSUME NEW a \in Amounts, SettleRefund(a) PROVE Charged'
    BY <1>23, AmountAssumption DEF SettleRefund, Charged, OnceInv,
        TakenOnce, GivenBackOrMarked, Settled, MoneyInv, LockInv,
        OneRefunder, Typed, HoldPcs, QueryPcs, rowVars, auditVars, moneyVars
  <1>24. CASE Spend
    BY <1>24, AmountAssumption DEF Spend, Charged, OnceInv, TakenOnce,
        GivenBackOrMarked, Settled, MoneyInv, LockInv, OneRefunder, Typed,
        HoldPcs, QueryPcs, rowVars, auditVars
  <1>25. CASE Recharge
    BY <1>25, AmountAssumption DEF Recharge, Charged, OnceInv, TakenOnce,
        GivenBackOrMarked, Settled, MoneyInv, LockInv, OneRefunder, Typed,
        HoldPcs, QueryPcs, rowVars, auditVars
  <1>26. CASE UNCHANGED vars
    BY <1>26 DEF vars, Charged, OnceInv, TakenOnce, GivenBackOrMarked,
        Settled, MoneyInv, LockInv, OneRefunder, Typed, HoldPcs, QueryPcs,
        rowVars, auditVars, moneyVars
  <1> QED
    BY <1>1, <1>2, <1>3, <1>4, <1>5, <1>6, <1>7, <1>8, <1>9, <1>10, <1>11,
        <1>12, <1>13, <1>14, <1>15, <1>16, <1>17, <1>18, <1>19, <1>20,
        <1>21, <1>22, <1>23, <1>24, <1>25, <1>26 DEF Next, Step

-----------------------------------------------------------------------------
(* Theorems about a provider that cannot be queried (Alipay, EasyPay).     *)

LEMMA SoundStep ==
    ASSUME ~Queryable, Sound, [Next]_vars
    PROVE  Sound'
  <1>1. Honest'
    BY TypedStep, AmountStep, WordStep, UnpaidStep DEF Sound, Honest
  <1> QED
    BY <1>1, LockStep, OneRefunderStep, MoneyStep, PaidBackStep, ExactStep
       DEF Sound, Honest

\* The initial state is sound.
LEMMA SoundInit ==
    ASSUME Init, Honest
    PROVE  Sound
  BY AmountAssumption
     DEF Init, Sound, LockInv, OneRefunder, MoneyInv, PaidBack, ExactInv,
         Unasked, NoRefunds, QueryPcs, HoldPcs, Refunded

\* The compare-and-set to REFUNDING keeps refunds apart, and the money that a
\* rollback gives back was taken.
THEOREM AlwaysSound ==
    ASSUME ~Queryable
    PROVE  Spec => []Sound
  <1>1. Init /\ Honest => Sound
    BY SoundInit
  <1>2. Sound /\ [Next]_vars => Sound'
    BY SoundStep
  <1> QED
    BY <1>1, <1>2, AlwaysHonest, PTL DEF Spec

\* Every variable keeps its type and the user's money its bound.
THEOREM TypeCorrect ==
    ASSUME ~Queryable
    PROVE  Spec => []TypeOK
  <1>1. Sound => TypeOK
    BY AmountAssumption
       DEF Sound, Honest, Typed, MoneyInv, TypeOK
  <1> QED
    BY <1>1, AlwaysSound, PTL

\* At most one request stands between the compare-and-set of ExecuteRefund and
\* its last write of the status.
THEOREM RefundsExclude ==
    ASSUME ~Queryable
    PROVE  Spec => []OneRefunder
  <1>1. Sound => OneRefunder
    BY DEF Sound
  <1> QED
    BY <1>1, AlwaysSound, PTL

\* An order that says it was refunded was paid back in the amount it says, once
\* and nothing else, unless an answer of the provider was lost or pending.
THEOREM RefundedInItsAmount ==
    ASSUME ~Queryable
    PROVE  Spec => []RefundedIsPaidBack
  <1>1. Sound => RefundedIsPaidBack
    BY DEF Sound, PaidBack, ExactInv, PaidOnly, RefundedIsPaidBack
  <1> QED
    BY <1>1, AlwaysSound, PTL

-----------------------------------------------------------------------------
(* The same provider, and an audit log that works.                         *)

\* What was taken and the plan of the request at work belong together.
THEOREM AlwaysCareful ==
    ASSUME ~Queryable, ~SwallowsFaults
    PROVE  Spec => []Careful
  <1>1. Init /\ Sound => Careful
    BY AmountAssumption
       DEF Init, Careful, Charged, OnceInv, TakenOnce, GivenBackOrMarked
  <1>2. Careful /\ [Next]_vars => Careful'
    BY SoundStep, ChargedStep DEF Careful, Sound, Honest
  <1> QED
    BY <1>1, <1>2, AlwaysSound, PTL DEF Spec

\* However often a refund is tried and whatever fails on the way, the user is
\* charged at most what the order had credited.
THEOREM ChargedAtMostOnce ==
    ASSUME ~Queryable, ~SwallowsFaults
    PROVE  Spec => []TakenOnce
  <1>1. Careful => TakenOnce
    BY DEF Careful, Charged
  <1> QED
    BY <1>1, AlwaysCareful, PTL

\* An order that can be refunded again has given back what earlier attempts
\* took, or REFUND_ROLLBACK_FAILED says that it could not.
THEOREM RetriesStartEven ==
    ASSUME ~Queryable, ~SwallowsFaults
    PROVE  Spec => []GivenBackOrMarked
  <1>1. Careful => GivenBackOrMarked
    BY DEF Careful, Charged
  <1> QED
    BY <1>1, AlwaysCareful, PTL

\* payment_refund.go:307: once the audit log says that a deduction was not rolled
\* back, no retry takes anything.
THEOREM RetriesTakeNothing ==
    ASSUME ~Queryable, ~SwallowsFaults
    PROVE  Spec => NothingMoreIsTaken
  <1>1. Careful /\ [Next]_vars => [rollbackFailed => taken' \leq taken]_vars
    <2> SUFFICES ASSUME Careful, [Next]_vars, rollbackFailed
                 PROVE  taken' \leq taken
      OBVIOUS
    <2>1. \A w \in Admins : /\ pc[w] # "deduct"
                            /\ pc[w] \notin QueryPcs
                            /\ plan[w].take \in 0 .. Amount
      BY DEF Careful, Charged, OnceInv, Sound, LockInv, Honest, Typed, Plans
    <2>2. taken \in Int
      BY DEF Careful, Sound, Honest, Typed
    <2>3. ASSUME NEW w \in Admins, UndoRefund(w) \/ PendingRollback(w)
          PROVE  taken' \leq taken
      <3>1. taken' = taken - plan[w].take \/ taken' = taken
        BY <2>3 DEF UndoRefund, PendingRollback, RollbackRefund, moneyVars
      <3> QED
        BY <2>1, <2>2, <3>1, AmountAssumption
    <2>4. ASSUME NEW w \in Admins, Step(w), ~UndoRefund(w), ~PendingRollback(w)
          PROVE  taken' = taken
      BY <2>1, <2>4 DEF Step, CheckRequest, RequestRefund, PrepareRefund,
          PrepDeduct, LockRefund, CheckRollbackAudit, DeductBalance,
          GatewayRefund, MarkRefundOk, RecordSuccess, RestoreStatus,
          MarkRefundFailed, MarkRefundPending, WritePendingNote, BeginFinalize,
          ReadPendingDetail, QueryRefund, FinalizePendingRefund,
          FinalizeRefundFailed, Crash, Proceed, Refuse, ErrorReturn, moneyVars,
          QueryPcs
    <2> QED
      <3>1. ASSUME NEW a \in Amounts, SettleRefund(a) PROVE taken' = taken
        BY <3>1 DEF SettleRefund, moneyVars
      <3> QED
        BY <2>2, <2>3, <2>4, <3>1 DEF Next, Spend, Recharge, vars, moneyVars
  <1> QED
    BY <1>1, AlwaysCareful, PTL DEF Spec, NothingMoreIsTaken

-----------------------------------------------------------------------------
(* PaymentRefund implements RefundPromise.  Only the deduction, its undoing, *)
(* the provider and markRefundOk change what the promise speaks of.          *)

Open == [a \in Amounts |-> refund[a].open]

Paid == [a \in Amounts |-> refund[a].paid]

Said == IF status \in Refunded THEN refundAmount ELSE 0

\* Nothing the promise speaks of changes.
Quiet == taken' = taken /\ Open' = Open /\ Paid' = Paid /\ Said' = Said

\* A step of the promise.
Kept == [Promise!RefundNext]_(Promise!refundVars)

LEMMA QuietKept == ASSUME Quiet PROVE Kept
  BY DEF Quiet, Kept, Promise!refundVars, Open, Paid, Said

\* A step that leaves the row, the money and the provider alone.
LEMMA FrameQuiet ==
    ASSUME UNCHANGED <<status, refundAmount, taken, refund>>
    PROVE  Quiet
  BY DEF Quiet, Open, Paid, Said

\* A step from one status to another, neither of which says refunded.
LEMMA StatusQuiet ==
    ASSUME status \notin Refunded, status' \notin Refunded,
           UNCHANGED <<taken, refund>>
    PROVE  Quiet
  BY DEF Quiet, Open, Paid, Said

\* Steps that end or move a request only.
LEMMA EndQuiet ==
    ASSUME NEW w \in Admins, NEW p,
           ErrorReturn(w) \/ Refuse(w) \/ Proceed(w, p)
    PROVE  Quiet
  BY FrameQuiet DEF ErrorReturn, Refuse, Proceed, rowVars, moneyVars

\* A request adds at most one to what is open or to what was paid.
LEMMA AskKept ==
    ASSUME Typed, NEW a \in Amounts, NEW answer, AskRefund(a, answer),
           status = "REFUNDING", UNCHANGED <<status, refundAmount, taken>>
    PROVE  Kept
  <1>1. Said = 0 /\ Said' = 0
    BY DEF Said, Refunded
  <1>2. refund \in [Amounts -> RefundCounts]
    BY DEF Typed
  <1>3. \/ Open' = Open /\ Paid' = Paid
        \/ Open' = [Open EXCEPT ![a] = @ + 1] /\ Paid' = Paid
        \/ Open' = Open /\ Paid' = [Paid EXCEPT ![a] = @ + 1]
    BY <1>2, AskEffect DEF Open, Paid
  <1>4. CASE Open' = Open /\ Paid' = Paid
    BY <1>1, <1>4, QuietKept DEF Quiet
  <1>5. CASE ~(Open' = Open /\ Paid' = Paid)
    <2>1. a \in 1 .. Amount
      BY DEF Amounts
    <2>2. Promise!Ask(a)
      BY <1>1, <1>3, <1>5 DEF Promise!Ask, Open, Paid, Said
    <2> QED
      BY <2>1, <2>2 DEF Kept, Promise!RefundNext
  <1> QED
    BY <1>4, <1>5

\* What the provider settles was asked for.
LEMMA SettleKept ==
    ASSUME Typed, NEW a \in Amounts, SettleRefund(a)
    PROVE  Kept
  <1>1. Said' = Said /\ taken' = taken
    BY DEF SettleRefund, Said, rowVars, moneyVars
  <1>2. refund \in [Amounts -> RefundCounts]
    BY DEF Typed
  <1>3. /\ Open[a] > 0
        /\ Open' = [Open EXCEPT ![a] = @ - 1]
        /\ Paid' = Paid \/ Paid' = [Paid EXCEPT ![a] = @ + 1]
    BY <1>2, SettleEffect DEF Open, Paid
  <1>4. a \in 1 .. Amount
    BY DEF Amounts
  <1>5. Promise!Settle(a)
    BY <1>1, <1>3 DEF Promise!Settle, Open, Paid, Said
  <1> QED
    BY <1>4, <1>5 DEF Kept, Promise!RefundNext

\* A rollback gives back all that is out, or has nothing to give.
LEMMA RollbackKept ==
    ASSUME Careful, NEW w \in Admins, UndoRefund(w) \/ PendingRollback(w)
    PROVE  Kept
  <1>1. /\ pc[w] \in {"undo", "rollback"}
        /\ taken' = taken - plan[w].take \/ taken' = taken
        /\ UNCHANGED <<status, refundAmount, refund>>
    BY DEF UndoRefund, PendingRollback, RollbackRefund, rowVars, moneyVars
  <1>2. /\ taken \in Int
        /\ taken = plan[w].take \/ plan[w].take = 0
        /\ status = "REFUNDING"
    BY <1>1 DEF Careful, Charged, OnceInv, Sound, LockInv, Honest, Typed, HoldPcs
  <1>3. taken' = taken \/ taken' = 0
    BY <1>1, <1>2
  <1>4. Said = 0 /\ Said' = 0 /\ Open' = Open /\ Paid' = Paid
    BY <1>1, <1>2 DEF Said, Open, Paid, Refunded
  <1> QED
    BY <1>3, <1>4
       DEF Kept, Promise!RefundNext, Promise!GiveBack, Promise!refundVars, Said,
           Open, Paid

\* The deduction takes something while nothing is out.
LEMMA DeductKept ==
    ASSUME Careful, NEW w \in Admins, DeductBalance(w)
    PROVE  Kept
  <1> DEFINE d == AtMostBalance(plan[w].take)
  <1>1. /\ taken = 0 /\ status = "REFUNDING" /\ Typed
        /\ UNCHANGED <<status, refundAmount, refund>>
    BY DEF DeductBalance, Careful, Charged, OnceInv, Sound, LockInv, Honest,
        HoldPcs, rowVars
  <1>2. d \in 0 .. Amount
    BY <1>1, AtMostBalanceBounds DEF Typed, Plans
  <1>3. taken' = taken + d \/ taken' = taken
    BY DEF DeductBalance, moneyVars
  <1>4. Said = 0 /\ Said' = 0 /\ Open' = Open /\ Paid' = Paid
    BY <1>1 DEF Said, Open, Paid, Refunded
  <1>5. taken' = 0 \/ taken' \in 1 .. Amount
    BY <1>1, <1>2, <1>3, AmountAssumption
  <1> QED
    BY <1>1, <1>4, <1>5
       DEF Kept, Promise!RefundNext, Promise!Charge, Promise!refundVars, Said,
           Open, Paid

\* markRefundOk confirms what the provider paid.
LEMMA OkKept ==
    ASSUME Careful, NEW w \in Admins, MarkRefundOk(w)
    PROVE  Kept
  <1>1. CASE ErrorReturn(w)
    BY <1>1, EndQuiet, QuietKept
  <1>2. CASE ~ErrorReturn(w)
    <2>1. /\ status' \in Refunded /\ refundAmount' = plan[w].amount
          /\ UNCHANGED <<taken, refund>>
      BY <1>2 DEF MarkRefundOk, FinalStatus, Refunded, moneyVars
    <2>2. /\ status = "REFUNDING"
          /\ plan[w].amount \in Amounts
          /\ refund[plan[w].amount].paid > 0
      BY DEF MarkRefundOk, Careful, Sound, LockInv, Honest, AmountInv, WordInv,
          HoldPcs
    <2>3. /\ Said = 0 /\ Said' = plan[w].amount
          /\ Open' = Open /\ Paid' = Paid /\ Paid[plan[w].amount] > 0
      BY <2>1, <2>2 DEF Said, Open, Paid, Refunded
    <2>4. plan[w].amount \in 1 .. Amount
      BY <2>2 DEF Amounts
    <2>5. Promise!Confirm(plan[w].amount)
      BY <2>1, <2>3 DEF Promise!Confirm, Open, Paid, Said
    <2> QED
      BY <2>4, <2>5 DEF Kept, Promise!RefundNext
  <1> QED
    BY <1>1, <1>2

\* Every step is one of the promise, or does not concern it.
LEMMA StepKept ==
    ASSUME ~Queryable, Careful, [Next]_vars
    PROVE  Kept
  <1>0. /\ Typed
        /\ \A w \in Admins : pc[w] \notin QueryPcs
        /\ \A w \in Admins : pc[w] \in HoldPcs => status = "REFUNDING"
        /\ \A w \in Admins : pc[w] = "gateway" => plan[w].amount \in Amounts
    BY DEF Careful, Sound, LockInv, Honest, AmountInv
  <1>1. ASSUME NEW w \in Admins, GatewayRefund(w) PROVE Kept
    <2>1. PICK answer : AskRefund(plan[w].amount, answer)
      BY <1>1 DEF GatewayRefund
    <2>2. /\ plan[w].amount \in Amounts
          /\ status = "REFUNDING"
          /\ UNCHANGED <<status, refundAmount, taken>>
      BY <1>0, <1>1 DEF GatewayRefund, HoldPcs, rowVars, moneyVars
    <2> QED
      BY <1>0, <2>1, <2>2, AskKept
  <1>2. ASSUME NEW a \in Amounts, SettleRefund(a) PROVE Kept
    BY <1>0, <1>2, SettleKept
  <1>3. ASSUME NEW w \in Admins,
               \/ RequestRefund(w) \/ LockRefund(w) \/ RestoreStatus(w)
               \/ MarkRefundFailed(w) \/ MarkRefundPending(w)
        PROVE  Kept
    <2>1. CASE ErrorReturn(w) \/ Refuse(w)
      BY <2>1, EndQuiet, QuietKept
    <2>2. CASE ~(ErrorReturn(w) \/ Refuse(w))
      <3>1. status \notin Refunded /\ status' \notin Refunded
        BY <1>0, <1>3, <2>2
           DEF RequestRefund, LockRefund, RestoreStatus, MarkRefundFailed,
               MarkRefundPending, Refundable, Refunded, HoldPcs, Typed, Plans
      <3>2. UNCHANGED <<taken, refund>>
        BY <1>3, <2>2
           DEF RequestRefund, LockRefund, RestoreStatus, MarkRefundFailed,
               MarkRefundPending, moneyVars
      <3> QED
        BY <3>1, <3>2, StatusQuiet, QuietKept
    <2> QED
      BY <2>1, <2>2
  <1>4. ASSUME NEW w \in Admins,
               \/ CheckRequest(w) \/ PrepareRefund(w) \/ PrepDeduct(w)
               \/ CheckRollbackAudit(w) \/ RecordSuccess(w)
               \/ WritePendingNote(w) \/ Crash(w)
        PROVE  Kept
    <2>1. UNCHANGED <<status, refundAmount, taken, refund>>
      BY <1>4 DEF CheckRequest, PrepareRefund, PrepDeduct, CheckRollbackAudit,
          RecordSuccess, WritePendingNote, Crash, ErrorReturn, Refuse, Proceed,
          rowVars, moneyVars
    <2> QED
      BY <2>1, FrameQuiet, QuietKept
  <1>5. ASSUME NEW w \in Admins,
               \/ BeginFinalize(w) \/ ReadPendingDetail(w) \/ QueryRefund(w)
               \/ FinalizePendingRefund(w) \/ FinalizeRefundFailed(w)
        PROVE  FALSE
    BY <1>0, <1>5 DEF BeginFinalize, ReadPendingDetail, QueryRefund,
        FinalizePendingRefund, FinalizeRefundFailed, QueryPcs
  <1>6. CASE Spend \/ Recharge \/ UNCHANGED vars
    <2>1. UNCHANGED <<status, refundAmount, taken, refund>>
      BY <1>6 DEF Spend, Recharge, vars, rowVars, moneyVars
    <2> QED
      BY <2>1, FrameQuiet, QuietKept
  <1> QED
    BY <1>1, <1>2, <1>3, <1>4, <1>5, <1>6, RollbackKept, DeductKept, OkKept
       DEF Next, Step

\* Every refund keeps RefundPromise: the user is charged only while nothing is
\* out, an order is marked refunded only after the provider paid that amount,
\* and from then on nothing is charged, given back, asked for or marked again.
THEOREM ImplementsRefundPromise ==
    ASSUME ~Queryable, ~SwallowsFaults
    PROVE  Spec => KeepsRefundPromise
  <1>1. Init => Promise!RefundInit
    BY DEF Init, Promise!RefundInit, Refunded, NoRefunds, Amounts
  <1>2. Careful /\ [Next]_vars => [Promise!RefundNext]_(Promise!refundVars)
    BY StepKept DEF Kept
  <1> QED
    BY <1>1, <1>2, AlwaysCareful, PTL
       DEF Spec, KeepsRefundPromise, Promise!RefundSpec
==============================================================================
