---------------------- MODULE PaymentFulfillmentProofs ----------------------
(***************************************************************************)
(* Proofs about PaymentFulfillment, for any orders, any number of workers  *)
(* and any number of faults.                                               *)
(***************************************************************************)
EXTENDS PaymentFulfillment, TLAPS

-----------------------------------------------------------------------------
(* Type correctness: what the steps are built from keeps the types, and so *)
(* do the steps.                                                           *)

\* A write of the row keeps the row's types.
LEMMA WriteRowType ==
    ASSUME RowTypeOK, NEW o \in Orders, NEW s \in Statuses, WriteRow(o, s)
    PROVE  RowTypeOK'
  BY DEF RowTypeOK, WriteRow

\* Moving on to another step keeps the workers' types.
LEMMA GotoType ==
    ASSUME WorkerTypeOK, NEW w \in Workers, NEW p \in Pcs, Goto(w, p),
           UNCHANGED <<at, job, knows>>
    PROVE  WorkerTypeOK'
  BY DEF WorkerTypeOK, Goto

\* Ending a call keeps the workers' types and those of the callbacks.
LEMMA ReturnType ==
    ASSUME WorkerTypeOK, EnvTypeOK, NEW w \in Workers, NEW ok, Return(w, ok)
    PROVE  /\ WorkerTypeOK'
           /\ hook' \in [Orders -> {"none", "due", "acked"}]
  BY DEF WorkerTypeOK, EnvTypeOK, Return, Pcs, Jobs

\* Beginning a call keeps the workers' types.
LEMMA BeginType ==
    ASSUME TypeOK, NEW w \in Workers, NEW o \in Orders, NEW j \in Jobs,
           NEW p \in Pcs, Begin(w, o, j, p)
    PROVE  WorkerTypeOK' /\ faults' \in 0 .. MaxFaults
  BY DEF TypeOK, WorkerTypeOK, MarkTypeOK, Begin, NoFault

\* Faults stay within their bound.
LEMMA FaultType ==
    ASSUME faults \in 0 .. MaxFaults, Fault \/ NoFault
    PROVE  faults' \in 0 .. MaxFaults
  BY FaultsAssumption DEF Fault, NoFault

\* Variables that do not change keep their types.
LEMMA FrameType ==
    /\ RowTypeOK /\ UNCHANGED rowVars => RowTypeOK'
    /\ MarkTypeOK /\ UNCHANGED markVars => MarkTypeOK'
    /\ GoodsTypeOK /\ UNCHANGED goodsVars => GoodsTypeOK'
    /\ EnvTypeOK /\ UNCHANGED envVars => EnvTypeOK'
    /\ WorkerTypeOK /\ UNCHANGED workerVars => WorkerTypeOK'
  BY DEF RowTypeOK, MarkTypeOK, GoodsTypeOK, EnvTypeOK, WorkerTypeOK, rowVars,
         markVars, goodsVars, envVars, workerVars

\* A step that only reads keeps all types, whether it succeeds or fails.
LEMMA ReadType ==
    ASSUME TypeOK, NEW w \in Workers, NEW p \in Pcs,
           Proceed(w, p) \/ FaultTo(w, p)
    PROVE  TypeOK'
  <1>1. Goto(w, p) /\ UNCHANGED <<at, job, knows>> /\ (Fault \/ NoFault)
    BY DEF Proceed, FaultTo
  <1>2. UNCHANGED <<rowVars, markVars, goodsVars, envVars>>
    BY DEF Proceed, FaultTo
  <1> QED
    BY <1>1, <1>2, GotoType, FaultType, FrameType DEF TypeOK

\* So does one that ends the call.
LEMMA AnswerType ==
    ASSUME TypeOK, NEW w \in Workers, NEW ok, Return(w, ok), Fault \/ NoFault,
           UNCHANGED <<rowVars, markVars, goodsVars, timedOut, upstream>>
    PROVE  TypeOK'
  <1>1. EnvTypeOK'
    BY ReturnType DEF TypeOK, EnvTypeOK
  <1> QED
    BY <1>1, ReturnType, FaultType, FrameType DEF TypeOK

\* No step of a worker that has begun leaves the types.
LEMMA StepType ==
    ASSUME TypeOK, NEW w \in Workers, Step(w)
    PROVE  TypeOK'
  <1>0. at[w] \in Orders
    BY DEF TypeOK, WorkerTypeOK
  <1> USE <1>0, ReadType DEF Pcs, Statuses
  <1>1. CASE InvokeProvider(w)
    BY <1>1, GotoType, FaultType, FrameType DEF InvokeProvider, TypeOK,
       EnvTypeOK, envVars
  <1>2. CASE RecordPayment(w)
    <2>1. CASE FaultTo(w, "reject")
      BY <2>1
    <2>2. CASE ~FaultTo(w, "reject")
      <3>1. /\ WriteRow(at[w], status[at[w]]) /\ Return(w, TRUE) /\ NoFault
            /\ UNCHANGED <<markVars, goodsVars, timedOut>>
        BY <1>2, <2>2 DEF RecordPayment
      <3>2. RowTypeOK'
        BY <3>1, WriteRowType DEF TypeOK, RowTypeOK
      <3>3. upstream' \in [Orders -> {"none", "opened", "unpaid", "paid", "closed"}]
        BY <1>2, <2>2 DEF RecordPayment, TypeOK, EnvTypeOK
      <3>4. EnvTypeOK'
        BY <3>1, <3>3, ReturnType DEF TypeOK, EnvTypeOK
      <3> QED
        BY <3>1, <3>2, <3>4, ReturnType, FaultType, FrameType DEF TypeOK
    <2> QED
      BY <2>1, <2>2
  <1>3. CASE RejectOrder(w)
    BY <1>3, WriteRowType, AnswerType, ReturnType, FaultType, FrameType DEF RejectOrder,
       TypeOK, EnvTypeOK, ErrorReturn
  <1>4. CASE QueryOrder(w)
    BY <1>4, AnswerType DEF QueryOrder, Answer, ErrorReturn
  <1>5. CASE PersistTradeNo(w)
    <2>1. CASE FaultTo(w, "confirm")
      BY <2>1
    <2>2. CASE ~FaultTo(w, "confirm")
      <3>1. /\ WriteRow(at[w], status[at[w]]) /\ Goto(w, "confirm") /\ NoFault
            /\ UNCHANGED <<goodsVars, envVars, at, job, knows>>
        BY <1>5, <2>2 DEF PersistTradeNo
      <3>2. RowTypeOK'
        BY <3>1, WriteRowType DEF TypeOK, RowTypeOK
      <3>3. MarkTypeOK'
        BY <1>5, <2>2 DEF PersistTradeNo, TypeOK, MarkTypeOK
      <3> QED
        BY <3>1, <3>2, <3>3, GotoType, FaultType, FrameType DEF TypeOK
    <2> QED
      BY <2>1, <2>2
  <1>6. CASE ClosePayment(w)
    BY <1>6, GotoType, FaultType, FrameType DEF ClosePayment, TypeOK,
       EnvTypeOK
  <1>7. CASE SetCancelled(w)
    BY <1>7, WriteRowType, AnswerType, ReturnType, FaultType, FrameType DEF SetCancelled,
       TypeOK, EnvTypeOK, ErrorReturn
  <1>8. CASE ConfirmPayment(w)
    BY <1>8, AnswerType DEF ConfirmPayment, ErrorReturn
  <1>9. CASE ToPaid(w)
    BY <1>9, WriteRowType, GotoType, AnswerType, FaultType, FrameType DEF ToPaid,
       TypeOK, MarkTypeOK, ErrorReturn
  <1>10. CASE AlreadyProcessed(w)
    BY <1>10, ReturnType, AnswerType, FaultType, FrameType DEF AlreadyProcessed,
       TypeOK, MarkTypeOK, EnvTypeOK, Answer
  <1>11. CASE ExecuteFulfillment(w)
    BY <1>11, AnswerType DEF ExecuteFulfillment, Answer, ErrorReturn
  <1>12. CASE AcquireLease(w)
    <2>1. CASE Proceed(w, "contended") \/ ErrorReturn(w)
      BY <2>1, AnswerType DEF ErrorReturn
    <2>2. CASE ~(Proceed(w, "contended") \/ ErrorReturn(w))
      <3>1. /\ WriteRow(at[w], "RECHARGING") /\ Goto(w, "reload") /\ NoFault
            /\ UNCHANGED <<goodsVars, envVars, at, job, knows>>
        BY <1>12, <2>2 DEF AcquireLease
      <3>2. RowTypeOK'
        BY <3>1, WriteRowType DEF TypeOK
      <3>3. MarkTypeOK'
        BY <1>12, <2>2 DEF AcquireLease, TypeOK, MarkTypeOK
      <3> QED
        BY <3>1, <3>2, <3>3, GotoType, FaultType, FrameType DEF TypeOK
    <2> QED
      BY <2>1, <2>2
  <1>13. CASE LeaseContended(w)
    BY <1>13, AnswerType DEF LeaseContended, Answer, ErrorReturn
  <1>14. CASE ReloadLease(w)
    <2>1. CASE Answer(w, FALSE) \/ ErrorReturn(w)
      BY <2>1, AnswerType DEF Answer, ErrorReturn
    <2>2. CASE ~(Answer(w, FALSE) \/ ErrorReturn(w))
      <3>1. /\ NoFault /\ UNCHANGED <<markVars, goodsVars, envVars>>
            /\ Goto(w, "assign") \/ Goto(w, "lookup")
            /\ UNCHANGED <<at, job, knows>>
        BY <1>14, <2>2 DEF ReloadLease
      <3>2. /\ holders' = [holders EXCEPT ![at[w]] = @ \cup {w}]
            /\ UNCHANGED <<status, fresh>>
        BY <1>14, <2>2 DEF ReloadLease
      <3>3. holders[at[w]] \cup {w} \in SUBSET Workers
        BY DEF TypeOK, RowTypeOK
      <3>4. RowTypeOK'
        BY <3>2, <3>3 DEF TypeOK, RowTypeOK
      <3> QED
        BY <3>1, <3>4, GotoType, FaultType, FrameType DEF TypeOK
    <2> QED
      BY <2>1, <2>2
  <1>15. CASE LookupCode(w)
    BY <1>15 DEF LookupCode
  <1>16. CASE CreateCode(w)
    BY <1>16, GotoType, FaultType, FrameType DEF CreateCode, TypeOK,
       GoodsTypeOK
  <1>17. CASE CheckCode(w)
    BY <1>17 DEF CheckCode
  <1>18. CASE UseCode(w)
    BY <1>18, GotoType, FaultType, FrameType DEF UseCode, TypeOK, GoodsTypeOK
  <1>19. CASE AssignSubscription(w)
    <2>1. CASE FaultTo(w, "fail")
      BY <2>1
    <2>2. CASE ~FaultTo(w, "fail")
      <3>1. /\ UNCHANGED <<rowVars, markVars, envVars, at, job, knows>>
            /\ Goto(w, "rebate") \/ Goto(w, "fail")
            /\ Fault \/ NoFault
        BY <1>19, <2>2 DEF AssignSubscription
      <3>2. /\ assigned' = [assigned EXCEPT ![at[w]] = TRUE]
            /\ granted' \in {granted, [granted EXCEPT ![at[w]] = @ + 1]}
            /\ UNCHANGED <<code, claimed, rebates>>
        BY <1>19, <2>2 DEF AssignSubscription
      <3>3. [granted EXCEPT ![at[w]] = @ + 1] \in [Orders -> Nat]
        BY DEF TypeOK, GoodsTypeOK
      <3>4. GoodsTypeOK'
        BY <3>2, <3>3 DEF TypeOK, GoodsTypeOK
      <3> QED
        BY <3>1, <3>4, GotoType, FaultType, FrameType DEF TypeOK
    <2> QED
      BY <2>1, <2>2
  <1>20. CASE ApplyRebate(w)
    <2>1. CASE Proceed(w, "complete") \/ FaultTo(w, "fail")
      BY <2>1
    <2>2. CASE ~(Proceed(w, "complete") \/ FaultTo(w, "fail"))
      <3>1. /\ UNCHANGED <<rowVars, markVars, envVars, at, job, knows>>
            /\ Goto(w, "complete") /\ NoFault
        BY <1>20, <2>2 DEF ApplyRebate
      <3>2. /\ claimed' = [claimed EXCEPT ![at[w]] = TRUE]
            /\ rebates' \in {rebates, [rebates EXCEPT ![at[w]] = @ + 1]}
            /\ UNCHANGED <<code, assigned, granted>>
        BY <1>20, <2>2 DEF ApplyRebate
      <3>3. [rebates EXCEPT ![at[w]] = @ + 1] \in [Orders -> Nat]
        BY DEF TypeOK, GoodsTypeOK
      <3>4. GoodsTypeOK'
        BY <3>2, <3>3 DEF TypeOK, GoodsTypeOK
      <3> QED
        BY <3>1, <3>4, GotoType, FaultType, FrameType DEF TypeOK
    <2> QED
      BY <2>1, <2>2
  <1>21. CASE MarkCompleted(w)
    BY <1>21, WriteRowType, ReturnType, FaultType, FrameType DEF MarkCompleted,
       TypeOK, EnvTypeOK
  <1>22. CASE LeaseLost(w)
    BY <1>22, AnswerType DEF LeaseLost, Answer
  <1>23. CASE MarkFailed(w)
    BY <1>23, WriteRowType, AnswerType, ReturnType, FaultType, FrameType DEF MarkFailed,
       TypeOK, EnvTypeOK, Answer, ErrorReturn
  <1> QED
    BY <1>1, <1>2, <1>3, <1>4, <1>5, <1>6, <1>7, <1>8, <1>9, <1>10, <1>11,
       <1>12, <1>13, <1>14, <1>15, <1>16, <1>17, <1>18, <1>19, <1>20, <1>21,
       <1>22, <1>23 DEF Step

\* No arrival of a request, callback or sweep leaves the types.
LEMMA ArriveType ==
    ASSUME TypeOK, NEW w \in Workers, NEW o \in Orders, Arrive(w, o)
    PROVE  TypeOK'
  <1>1. \E j \in Jobs, p \in Pcs : Begin(w, o, j, p)
    BY DEF Arrive, CreateOrder, Webhook, VerifyOrder, ReconcileOrder,
           CancelOrder, ExpireOrder, RetryFulfillment, Jobs, Pcs
  <1>2. WorkerTypeOK' /\ faults' \in 0 .. MaxFaults
    BY <1>1, BeginType
  <1>3. CASE CreateOrder(w, o)
    BY <1>2, <1>3, WriteRowType, FrameType DEF CreateOrder, TypeOK, Statuses
  <1>4. CASE ~CreateOrder(w, o)
    <2>1. UNCHANGED <<rowVars, markVars, goodsVars, envVars>>
      BY <1>4 DEF Arrive, Webhook, VerifyOrder, ReconcileOrder, CancelOrder,
                  ExpireOrder, RetryFulfillment
    <2> QED
      BY <1>2, <2>1, FrameType DEF TypeOK
  <1> QED
    BY <1>3, <1>4

\* Neither do payments, the passing of time and refunds.
LEMMA SurroundingsType ==
    ASSUME TypeOK, NEW o \in Orders, Surroundings(o)
    PROVE  TypeOK'
  <1>1. CASE Pay(o)
    <2>1. EnvTypeOK'
      BY <1>1 DEF Pay, TypeOK, EnvTypeOK
    <2> QED
      BY <1>1, <2>1, FrameType, FaultType DEF Pay, TypeOK
  <1>2. CASE TimeOut(o)
    <2>1. EnvTypeOK'
      BY <1>2 DEF TimeOut, TypeOK, EnvTypeOK
    <2> QED
      BY <1>2, <2>1, FrameType, FaultType DEF TimeOut, TypeOK
  <1>3. CASE Age(o)
    <2>1. RowTypeOK'
      BY <1>3 DEF Age, TypeOK, RowTypeOK
    <2>2. Fault \/ NoFault
      BY <1>3 DEF Age
    <2> QED
      BY <1>3, <2>1, <2>2, FrameType, FaultType DEF Age, TypeOK
  <1>4. CASE MoveRefund(o)
    BY <1>4, WriteRowType, FrameType, FaultType
       DEF MoveRefund, TypeOK, Settled, Statuses
  <1> QED
    BY <1>1, <1>2, <1>3, <1>4 DEF Surroundings

\* Type correctness is inductive: no step of the machine leaves the types.
LEMMA NextType ==
    ASSUME TypeOK, [Next]_vars
    PROVE  TypeOK'
  <1>1. CASE UNCHANGED vars
    BY <1>1, FrameType DEF vars, TypeOK
  <1>2. ASSUME NEW w \in Workers, Crash(w) PROVE TypeOK'
    BY <1>2, AnswerType DEF Crash, ErrorReturn
  <1> QED
    BY <1>1, <1>2, StepType, ArriveType, SurroundingsType DEF Next

LEMMA InitType == Init => TypeOK
  BY FaultsAssumption
     DEF Init, TypeOK, RowTypeOK, MarkTypeOK, GoodsTypeOK, EnvTypeOK,
         WorkerTypeOK, Statuses, Pcs, Jobs

\* Type correctness of the payment machine: whatever workers, callbacks, sweeps
\* and faults do, every variable keeps its type.
THEOREM TypeCorrect == Spec => []TypeOK
  BY InitType, NextType, PTL DEF Spec

-----------------------------------------------------------------------------
(* The inductive invariant.  A step concerns one worker and one order: the *)
(* facts about other orders are unchanged, and those that other workers    *)
(* rely on are never withdrawn.                                            *)

\* What a write of the row does to each order's status.
LEMMA WriteRowAt ==
    ASSUME RowTypeOK, NEW o \in Orders, NEW s, WriteRow(o, s), NEW x \in Orders
    PROVE  status'[x] = IF x = o THEN s ELSE status[x]
  BY DEF RowTypeOK, WriteRow

\* What moving on does to each worker.
LEMMA GotoAt ==
    ASSUME WorkerTypeOK, NEW w \in Workers, NEW p, Goto(w, p),
           UNCHANGED <<at, job>>, NEW v \in Workers
    PROVE  /\ pc'[v] = IF v = w THEN p ELSE pc[v]
           /\ at'[v] = at[v] /\ job'[v] = job[v]
  BY DEF WorkerTypeOK, Goto

\* What ending a call does to each worker.
LEMMA ReturnAt ==
    ASSUME WorkerTypeOK, NEW w \in Workers, NEW ok, Return(w, ok),
           NEW v \in Workers
    PROVE  /\ pc'[v] = IF v = w THEN "idle" ELSE pc[v]
           /\ job'[v] = IF v = w THEN "none" ELSE job[v]
           /\ at'[v] = at[v]
  BY DEF WorkerTypeOK, Return

\* What ending a call does to each callback.
LEMMA ReturnHook ==
    ASSUME EnvTypeOK, NEW w \in Workers, NEW ok, Return(w, ok),
           NEW x \in Orders
    PROVE  hook'[x] = IF job[w] = "webhook" /\ ok /\ at[w] = x
                      THEN "acked" ELSE hook[x]
  BY DEF EnvTypeOK, Return

Unpayable == {"none", "opened", "closed"}

Early == {"NONE", "PENDING", "CANCELLED"}

Creates(w, o) == pc[w] \in CreatePcs /\ at[w] = o

\* What a step of worker w leaves to the workers that look at order o.
Keeps(w, o) ==
    /\ status[o] # "NONE" => status'[o] # "NONE"
    /\ status[o] \notin Early => status'[o] \notin Early
    /\ upstream[o] = "paid" => upstream'[o] = "paid"
    /\ Delivered(o) => Delivered(o)'
    /\ claimed[o] => claimed'[o]
    /\ Creates(w, o) \/ (upstream[o] = "none" => upstream'[o] = "none")
    /\ \/ Creates(w, o)
       \/ upstream[o] \in Unpayable => upstream'[o] \in Unpayable

\* A worker that does not move still relies on true facts afterwards.
LEMMA BystanderKept ==
    ASSUME Consistent, NEW w \in Workers, NEW v \in Workers, v # w,
           Keeps(w, at[v]),
           pc'[v] = pc[v], at'[v] = at[v], job'[v] = job[v]
    PROVE  At(at[v], pc[v], job[v])'
  <1>1. At(at[v], pc[v], job[v])
    BY DEF Consistent
  <1>2. pc[v] \in CreatePcs => ~Creates(w, at[v])
    BY DEF Consistent, SoleCreator, Creates
  <1> QED
    BY <1>1, <1>2 DEF At, Keeps, Unpayable, Early, Delivered, CreatePcs

\* The invariant after a step of worker w to step p of job j.
LEMMA StepKeepsConsistent ==
    ASSUME Consistent, TypeOK', NEW w \in Workers, NEW p, NEW j,
           \A v \in Workers : /\ pc'[v] = IF v = w THEN p ELSE pc[v]
                              /\ job'[v] = IF v = w THEN j ELSE job[v]
                              /\ at'[v] = at[v],
           p \in CreatePcs => pc[w] \in CreatePcs,
           \A o \in Orders : Keeps(w, o) /\ OrderInv(o)',
           At(at[w], p, j)'
    PROVE  Consistent'
  <1>0. \A v \in Workers : at[v] \in Orders
    BY DEF Consistent, TypeOK, WorkerTypeOK
  <1>1. \A v \in Workers : At(at[v], pc[v], job[v])'
    <2> SUFFICES ASSUME NEW v \in Workers PROVE At(at[v], pc[v], job[v])'
      OBVIOUS
    <2>1. CASE v = w
      <3>1. pc'[v] = p /\ job'[v] = j /\ at'[v] = at'[w]
        BY <2>1
      <3> QED
        BY <3>1 DEF At
    <2>2. CASE v # w
      BY <2>2, <1>0, BystanderKept
    <2> QED
      BY <2>1, <2>2
  <1>2. SoleCreator'
    BY DEF Consistent, SoleCreator
  <1> QED
    BY <1>1, <1>2 DEF Consistent

\* An order that a step does not touch stays as it is.
LEMMA OrderKept ==
    ASSUME NEW o \in Orders, OrderInv(o),
           status'[o] = status[o], upstream'[o] = upstream[o],
           hook'[o] = hook[o], paidAt'[o] = paidAt[o],
           refused'[o] = refused[o], code'[o] = code[o],
           assigned'[o] = assigned[o], granted'[o] = granted[o],
           claimed'[o] = claimed[o], rebates'[o] = rebates[o]
    PROVE  OrderInv(o)' /\ \A w \in Workers : Keeps(w, o)
  BY DEF OrderInv, Keeps, Delivered

\* A step that only reads and moves on.
LEMMA ReadConsistent ==
    ASSUME Consistent, NEW w \in Workers, NEW p \in Pcs,
           Proceed(w, p) \/ FaultTo(w, p),
           p \in CreatePcs => pc[w] \in CreatePcs,
           At(at[w], p, job[w])
    PROVE  Consistent'
  <1>0. TypeOK /\ WorkerTypeOK /\ at[w] \in Orders
    BY DEF Consistent, TypeOK, WorkerTypeOK
  <1>1. /\ Goto(w, p) /\ UNCHANGED <<at, job>>
        /\ UNCHANGED <<rowVars, markVars, goodsVars, envVars>>
    BY DEF Proceed, FaultTo
  <1>2. TypeOK'
    BY <1>0, ReadType
  <1>3. \A o \in Orders : Keeps(w, o) /\ OrderInv(o)'
    BY <1>1, OrderKept
       DEF Consistent, rowVars, markVars, goodsVars, envVars
  <1>4. At(at[w], p, job[w])'
    BY <1>0, <1>1
       DEF At, Delivered, rowVars, markVars, goodsVars, envVars
  <1>5. \A v \in Workers : /\ pc'[v] = IF v = w THEN p ELSE pc[v]
                           /\ job'[v] = IF v = w THEN job[w] ELSE job[v]
                           /\ at'[v] = at[v]
    BY <1>0, <1>1, GotoAt
  <1> QED
    BY <1>2, <1>3, <1>4, <1>5, StepKeepsConsistent

\* An idle worker relies on nothing.
LEMMA IdleAt == \A o \in Orders : At(o, "idle", "none")'
  BY DEF At, CreatePcs, PaidPcs, LeasePcs

\* A step that only reads and ends the call, which may acknowledge a callback.
LEMMA AnswerConsistent ==
    ASSUME Consistent, NEW w \in Workers, NEW ok, Return(w, ok),
           Fault \/ NoFault,
           UNCHANGED <<rowVars, markVars, goodsVars, timedOut, upstream>>,
           ok /\ job[w] = "webhook" =>
               \/ SwallowsFaults
               \/ status[at[w]] \in Settled
               \/ refused[at[w]]
    PROVE  Consistent'
  <1>0. TypeOK /\ WorkerTypeOK /\ EnvTypeOK /\ at[w] \in Orders
    BY DEF Consistent, TypeOK, WorkerTypeOK
  <1>1. TypeOK'
    BY <1>0, AnswerType
  <1>2. ASSUME NEW o \in Orders PROVE Keeps(w, o) /\ OrderInv(o)'
    <2>1. OrderInv(o)
      BY DEF Consistent
    <2>2. hook'[o] = IF job[w] = "webhook" /\ ok /\ at[w] = o
                     THEN "acked" ELSE hook[o]
      BY <1>0, ReturnHook
    <2>3. job[w] = "webhook" => upstream[at[w]] = "paid"
      BY DEF Consistent, At
    <2>4. Keeps(w, o)
      BY DEF Keeps, Delivered, rowVars, goodsVars
    <2> QED
      BY <2>1, <2>2, <2>3, <2>4, FaultsAssumption
         DEF OrderInv, Delivered, rowVars, markVars, goodsVars
  <1>3. At(at[w], "idle", "none")'
    BY <1>0, IdleAt DEF Return
  <1>4. \A v \in Workers : /\ pc'[v] = IF v = w THEN "idle" ELSE pc[v]
                           /\ job'[v] = IF v = w THEN "none" ELSE job[v]
                           /\ at'[v] = at[v]
    BY <1>0, ReturnAt
  <1> QED
    BY <1>1, <1>2, <1>3, <1>4, StepKeepsConsistent DEF CreatePcs

\* The fields of an order that the invariant speaks of are unchanged.
Same(o) ==
    /\ status'[o] = status[o] /\ upstream'[o] = upstream[o]
    /\ hook'[o] = hook[o] /\ paidAt'[o] = paidAt[o] /\ refused'[o] = refused[o]
    /\ code'[o] = code[o] /\ assigned'[o] = assigned[o]
    /\ granted'[o] = granted[o] /\ claimed'[o] = claimed[o]
    /\ rebates'[o] = rebates[o]

\* The invariant after a step of worker w that changes its own order only.
LEMMA TouchConsistent ==
    ASSUME Consistent, TypeOK', NEW w \in Workers, NEW o \in Orders, at[w] = o,
           NEW p, NEW j,
           \A v \in Workers : /\ pc'[v] = IF v = w THEN p ELSE pc[v]
                              /\ job'[v] = IF v = w THEN j ELSE job[v]
                              /\ at'[v] = at[v],
           p \in CreatePcs => pc[w] \in CreatePcs,
           \A x \in Orders : x # o => Same(x),
           OrderInv(o)', Keeps(w, o), At(o, p, j)'
    PROVE  Consistent'
  <1>1. ASSUME NEW x \in Orders PROVE Keeps(w, x) /\ OrderInv(x)'
    BY OrderKept DEF Same, Consistent
  <1>2. At(at[w], p, j)'
    BY DEF At
  <1> QED
    BY <1>1, <1>2, StepKeepsConsistent

\* The same, for a step that moves on within its call.
LEMMA GotoConsistent ==
    ASSUME Consistent, TypeOK', NEW w \in Workers, NEW o \in Orders, at[w] = o,
           NEW p, Goto(w, p), UNCHANGED <<at, job>>,
           p \in CreatePcs => pc[w] \in CreatePcs,
           \A x \in Orders : x # o => Same(x),
           OrderInv(o)', Keeps(w, o), At(o, p, job[w])'
    PROVE  Consistent'
  <1>1. WorkerTypeOK
    BY DEF Consistent, TypeOK
  <1>2. PICK j : j = job[w]
    OBVIOUS
  <1>3. At(o, p, j)'
    BY <1>2 DEF At
  <1>4. \A v \in Workers : /\ pc'[v] = IF v = w THEN p ELSE pc[v]
                           /\ job'[v] = IF v = w THEN j ELSE job[v]
                           /\ at'[v] = at[v]
    BY <1>1, <1>2, GotoAt
  <1> QED
    BY <1>3, <1>4, TouchConsistent

\* The same, for a step that ends its call.
LEMMA ReturnConsistent ==
    ASSUME Consistent, TypeOK', NEW w \in Workers, NEW o \in Orders, at[w] = o,
           NEW ok, Return(w, ok),
           \A x \in Orders : x # o => Same(x),
           OrderInv(o)', Keeps(w, o)
    PROVE  Consistent'
  <1>1. WorkerTypeOK
    BY DEF Consistent, TypeOK
  <1>2. \A v \in Workers : /\ pc'[v] = IF v = w THEN "idle" ELSE pc[v]
                           /\ job'[v] = IF v = w THEN "none" ELSE job[v]
                           /\ at'[v] = at[v]
    BY <1>1, ReturnAt
  <1> QED
    BY <1>2, IdleAt, TouchConsistent DEF CreatePcs

\* Creating a payment, asking the provider and cancelling keep the invariant.
LEMMA OrderStepsConsistent ==
    ASSUME Consistent, NEW w \in Workers, Step(w),
           \/ InvokeProvider(w) \/ RecordPayment(w) \/ RejectOrder(w)
           \/ QueryOrder(w) \/ PersistTradeNo(w) \/ ClosePayment(w)
           \/ SetCancelled(w)
    PROVE  Consistent'
  <1>1. TypeOK'
    BY StepType DEF Consistent
  <1>2. PICK o \in Orders : at[w] = o
    BY DEF Consistent, TypeOK, WorkerTypeOK
  <1>3. RowTypeOK /\ MarkTypeOK /\ GoodsTypeOK /\ EnvTypeOK /\ WorkerTypeOK
    BY DEF Consistent, TypeOK
  <1>4. OrderInv(o) /\ At(o, pc[w], job[w])
    BY <1>2 DEF Consistent
  <1>5. CASE InvokeProvider(w)
    <2>1. CASE FaultTo(w, "reject")
      BY <1>2, <1>4, <1>5, <2>1, ReadConsistent
         DEF InvokeProvider, At, CreatePcs, PaidPcs, LeasePcs, Pcs
    <2>2. CASE ~FaultTo(w, "reject")
      <3>1. /\ pc[w] = "invoke" /\ Goto(w, "record")
            /\ upstream' = [upstream EXCEPT ![o] = "opened"]
            /\ UNCHANGED <<rowVars, markVars, goodsVars, hook, at, job>>
        BY <1>2, <1>5, <2>2 DEF InvokeProvider
      <3>2. upstream[o] = "none" /\ status[o] # "NONE" /\ job[w] # "webhook"
        BY <1>4, <3>1 DEF At, CreatePcs, PaidPcs, LeasePcs
      <3>3. upstream'[o] = "opened" /\ \A x \in Orders : x # o => Same(x)
        BY <1>3, <3>1 DEF Same, EnvTypeOK, rowVars, markVars, goodsVars
      <3>4. OrderInv(o)' /\ Keeps(w, o)
        BY <1>2, <1>4, <3>1, <3>2, <3>3
           DEF OrderInv, Keeps, Creates, CreatePcs, Delivered, rowVars,
               markVars, goodsVars
      <3>5. At(o, "record", job[w])'
        BY <3>1, <3>2, <3>3 DEF At, CreatePcs, PaidPcs, LeasePcs, rowVars
      <3> QED
        BY <1>1, <1>2, <3>1, <3>3, <3>4, <3>5, GotoConsistent DEF CreatePcs
    <2> QED
      BY <2>1, <2>2
  <1>6. CASE RecordPayment(w)
    <2>1. CASE FaultTo(w, "reject")
      BY <1>2, <1>4, <1>6, <2>1, ReadConsistent
         DEF RecordPayment, At, CreatePcs, PaidPcs, LeasePcs, Pcs
    <2>2. CASE ~FaultTo(w, "reject")
      <3>1. /\ pc[w] = "record" /\ Return(w, TRUE) /\ WriteRow(o, status[o])
            /\ upstream' = IF upstream[o] = "opened"
                           THEN [upstream EXCEPT ![o] = "unpaid"] ELSE upstream
            /\ UNCHANGED <<markVars, goodsVars>>
        BY <1>2, <1>6, <2>2 DEF RecordPayment
      <3>2. /\ upstream[o] # "paid" /\ status[o] # "NONE"
            /\ job[w] # "webhook"
        BY <1>4, <3>1 DEF At, CreatePcs, PaidPcs, LeasePcs
      <3>3. \A x \in Orders : hook'[x] = hook[x] /\ status'[x] = status[x]
        BY <1>3, <3>1, <3>2, ReturnHook, WriteRowAt
      <3>4. \A x \in Orders : x # o => Same(x)
        BY <1>3, <3>1, <3>3 DEF Same, EnvTypeOK, markVars, goodsVars
      <3>5. OrderInv(o)' /\ Keeps(w, o)
        BY <1>2, <1>4, <3>1, <3>2, <3>3
           DEF OrderInv, Keeps, Creates, CreatePcs, Delivered, markVars,
               goodsVars
      <3> QED
        BY <1>1, <1>2, <3>1, <3>4, <3>5, ReturnConsistent
    <2> QED
      BY <2>1, <2>2
  <1>7. CASE RejectOrder(w)
    <2>1. CASE ErrorReturn(w)
      BY <2>1, AnswerConsistent DEF ErrorReturn
    <2>2. CASE ~ErrorReturn(w)
      <3>1. /\ pc[w] = "reject" /\ Return(w, FALSE) /\ WriteRow(o, "FAILED")
            /\ UNCHANGED <<markVars, goodsVars, upstream>>
        BY <1>2, <1>7, <2>2 DEF RejectOrder
      <3>2. upstream[o] # "paid"
        BY <1>4, <3>1 DEF At, CreatePcs
      <3>a. \A x \in Orders : hook'[x] = hook[x]
        BY <3>1 DEF Return
      <3>b. \A x \in Orders :
               status'[x] = IF x = o THEN "FAILED" ELSE status[x]
        BY <1>3, <3>1, WriteRowAt
      <3>3. \A x \in Orders :
               /\ hook'[x] = hook[x]
               /\ status'[x] = IF x = o THEN "FAILED" ELSE status[x]
        BY <3>a, <3>b
      <3>4. \A x \in Orders : x # o => Same(x)
        BY <3>1, <3>3 DEF Same, markVars, goodsVars
      <3>5. OrderInv(o)' /\ Keeps(w, o)
        BY <1>2, <1>4, <3>1, <3>2, <3>3
           DEF OrderInv, Keeps, Early, Delivered, Settled, Fulfillable,
               markVars, goodsVars
      <3> QED
        BY <1>1, <1>2, <3>1, <3>4, <3>5, ReturnConsistent
    <2> QED
      BY <2>1, <2>2
  <1>8. CASE QueryOrder(w)
    <2>1. job[w] # "webhook"
      BY <1>4, <1>8 DEF QueryOrder, At, PaidPcs, LeasePcs
    <2>2. CASE \E ok \in BOOLEAN : Answer(w, ok)
      BY <2>1, <2>2, AnswerConsistent DEF Answer
    <2>3. CASE ErrorReturn(w)
      BY <2>3, AnswerConsistent DEF ErrorReturn
    <2>4. CASE \E p \in {"close", "setcancel"} : Proceed(w, p) \/ FaultTo(w, p)
      <3>1. \A p \in {"close", "setcancel"} :
               At(o, p, job[w]) /\ p \notin CreatePcs /\ p \in Pcs
        BY <2>1 DEF At, CreatePcs, PaidPcs, LeasePcs, Pcs
      <3> QED
        BY <1>2, <2>4, <3>1, ReadConsistent
    <2>5. CASE \E p \in {"persist", "confirm"} :
                  upstream[o] = "paid" /\ Proceed(w, p)
      <3>1. upstream[o] = "paid" => \A p \in {"persist", "confirm"} :
               At(o, p, job[w]) /\ p \notin CreatePcs /\ p \in Pcs
        BY <2>1 DEF At, CreatePcs, PaidPcs, LeasePcs, Pcs
      <3> QED
        BY <1>2, <2>5, <3>1, ReadConsistent
    <2> QED
      BY <1>2, <1>8, <2>2, <2>3, <2>4, <2>5 DEF QueryOrder
  <1>9. CASE PersistTradeNo(w)
    <2>0. upstream[o] = "paid"
      BY <1>4, <1>9 DEF PersistTradeNo, At, PaidPcs
    <2>1. CASE FaultTo(w, "confirm")
      BY <1>2, <2>0, <2>1, ReadConsistent
         DEF At, CreatePcs, PaidPcs, LeasePcs, Pcs
    <2>2. CASE ~FaultTo(w, "confirm")
      <3>1. /\ Goto(w, "confirm") /\ WriteRow(o, status[o])
            /\ UNCHANGED <<paidAt, refused, goodsVars, envVars, at, job>>
        BY <1>2, <1>9, <2>2 DEF PersistTradeNo
      <3>2. \A x \in Orders : status'[x] = status[x]
        BY <1>3, <3>1, WriteRowAt
      <3>3. \A x \in Orders : Same(x)
        BY <3>1, <3>2 DEF Same, goodsVars, envVars
      <3>4. OrderInv(o)' /\ Keeps(w, o)
        BY <1>4, <3>3, OrderKept DEF Same
      <3>5. At(o, "confirm", job[w])'
        BY <2>0, <3>3 DEF At, Same, CreatePcs, PaidPcs, LeasePcs
      <3> QED
        BY <1>1, <1>2, <3>1, <3>3, <3>4, <3>5, GotoConsistent DEF CreatePcs
    <2> QED
      BY <2>1, <2>2
  <1>10. CASE ClosePayment(w)
    <2>0. job[w] # "webhook"
      BY <1>4, <1>10 DEF ClosePayment, At, PaidPcs, LeasePcs
    <2>1. CASE FaultTo(w, "setcancel")
      BY <1>2, <2>0, <2>1, ReadConsistent
         DEF At, CreatePcs, PaidPcs, LeasePcs, Pcs
    <2>2. CASE ~FaultTo(w, "setcancel")
      <3>1. /\ Goto(w, "setcancel")
            /\ upstream' = IF upstream[o] \in {"opened", "unpaid"}
                           THEN [upstream EXCEPT ![o] = "closed"] ELSE upstream
            /\ UNCHANGED <<rowVars, markVars, goodsVars, hook, at, job>>
        BY <1>2, <1>10, <2>2 DEF ClosePayment
      <3>2. /\ upstream'[o] = IF upstream[o] \in {"opened", "unpaid"}
                              THEN "closed" ELSE upstream[o]
            /\ \A x \in Orders : x # o => Same(x)
        BY <1>3, <3>1 DEF Same, EnvTypeOK, rowVars, markVars, goodsVars
      <3>3. OrderInv(o)' /\ Keeps(w, o)
        BY <1>4, <3>1, <3>2
           DEF OrderInv, Keeps, Unpayable, Delivered, rowVars, markVars,
               goodsVars
      <3>4. At(o, "setcancel", job[w])'
        BY <2>0, <3>1 DEF At, CreatePcs, PaidPcs, LeasePcs
      <3> QED
        BY <1>1, <1>2, <3>1, <3>2, <3>3, <3>4, GotoConsistent DEF CreatePcs
    <2> QED
      BY <2>1, <2>2
  <1>11. CASE SetCancelled(w)
    <2>0. job[w] # "webhook"
      BY <1>4, <1>11 DEF SetCancelled, At, PaidPcs, LeasePcs
    <2>1. CASE ErrorReturn(w)
      BY <2>1, AnswerConsistent DEF ErrorReturn
    <2>2. CASE ~ErrorReturn(w) /\ status[o] # "PENDING"
      <3>1. /\ Return(w, TRUE) /\ NoFault
            /\ UNCHANGED <<rowVars, markVars, goodsVars, timedOut, upstream>>
        BY <1>2, <1>11, <2>2 DEF SetCancelled
      <3> QED
        BY <2>0, <3>1, AnswerConsistent
    <2>3. CASE ~ErrorReturn(w) /\ status[o] = "PENDING"
      <3>1. /\ Return(w, TRUE) /\ UNCHANGED <<markVars, goodsVars, upstream>>
            /\ \E s \in {"EXPIRED", "CANCELLED"} : WriteRow(o, s)
        BY <1>2, <1>11, <2>3 DEF SetCancelled
      <3>2. /\ \A x \in Orders : hook'[x] = hook[x]
            /\ \A x \in Orders : x # o => status'[x] = status[x]
            /\ status'[o] \in {"EXPIRED", "CANCELLED"}
        BY <1>3, <2>0, <3>1, ReturnHook, WriteRowAt
      <3>3. \A x \in Orders : x # o => Same(x)
        BY <3>1, <3>2 DEF Same, markVars, goodsVars
      <3>4. OrderInv(o)' /\ Keeps(w, o)
        BY <1>4, <2>3, <3>1, <3>2
           DEF OrderInv, Keeps, Early, Delivered, Settled, Fulfillable,
               markVars, goodsVars
      <3> QED
        BY <1>1, <1>2, <3>1, <3>3, <3>4, ReturnConsistent
    <2> QED
      BY <2>1, <2>2, <2>3
  <1> QED
    BY <1>5, <1>6, <1>7, <1>8, <1>9, <1>10, <1>11

\* Steps that rely on the payment alone.
PlainPcs == {"confirm", "topaid", "execute", "acquire", "contended", "reload",
             "fail"}

\* A worker at such a step needs to know only that the order is paid.
LEMMA PlainAt ==
    ASSUME NEW o, NEW j, NEW p \in PlainPcs, upstream[o] = "paid"
    PROVE  At(o, p, j) /\ p \notin CreatePcs /\ p \in Pcs
  BY DEF At, PlainPcs, CreatePcs, PaidPcs, LeasePcs, Pcs

\* Moving to such a step of a paid order, by a read or by a fault, keeps the
\* invariant.
LEMMA PlainConsistent ==
    ASSUME Consistent, NEW w \in Workers, NEW p \in PlainPcs,
           upstream[at[w]] = "paid", Proceed(w, p) \/ FaultTo(w, p)
    PROVE  Consistent'
  <1>1. At(at[w], p, job[w]) /\ p \notin CreatePcs /\ p \in Pcs
    BY PlainAt
  <1> QED
    BY <1>1, ReadConsistent

\* A call that ends with an error keeps the invariant.
LEMMA ErrorConsistent ==
    ASSUME Consistent, NEW w \in Workers, ErrorReturn(w)
    PROVE  Consistent'
  BY AnswerConsistent DEF ErrorReturn

\* What every proof about a step of worker w begins with.
LEMMA WorkerFacts ==
    ASSUME Consistent, NEW w \in Workers
    PROVE  /\ at[w] \in Orders
           /\ OrderInv(at[w])
           /\ At(at[w], pc[w], job[w])
           /\ TypeOK
           /\ RowTypeOK /\ MarkTypeOK /\ GoodsTypeOK /\ EnvTypeOK /\ WorkerTypeOK
  <1>1. TypeOK /\ RowTypeOK /\ MarkTypeOK /\ GoodsTypeOK /\ EnvTypeOK
        /\ WorkerTypeOK
    BY DEF Consistent, TypeOK
  <1>2. at[w] \in Orders
    BY <1>1 DEF WorkerTypeOK
  <1> QED
    BY <1>1, <1>2 DEF Consistent

\* Confirming a payment keeps the invariant.
LEMMA PaidStepsConsistent ==
    ASSUME Consistent, NEW w \in Workers, Step(w),
           \/ ConfirmPayment(w) \/ ToPaid(w) \/ AlreadyProcessed(w)
           \/ ExecuteFulfillment(w)
    PROVE  Consistent'
  <1>1. TypeOK'
    BY StepType DEF Consistent
  <1>2. PICK o \in Orders : at[w] = o
    BY WorkerFacts
  <1>3. RowTypeOK /\ MarkTypeOK /\ GoodsTypeOK /\ EnvTypeOK /\ WorkerTypeOK
    BY WorkerFacts
  <1>4. OrderInv(o) /\ At(o, pc[w], job[w])
    BY <1>2, WorkerFacts
  <1>5. upstream[o] = "paid"
    BY <1>4 DEF ConfirmPayment, ToPaid, AlreadyProcessed, ExecuteFulfillment,
       At, PaidPcs
  <1>6. status[o] \in Statuses \ {"NONE"}
    BY <1>3, <1>4, <1>5 DEF RowTypeOK, OrderInv
  <1>7. CASE ErrorReturn(w)
    BY <1>7, ErrorConsistent
  <1>8. CASE \E p \in PlainPcs : Proceed(w, p)
    BY <1>2, <1>5, <1>8, PlainConsistent
  <1>9. CASE ConfirmPayment(w) /\ ~ErrorReturn(w)
    <2>1. CASE Proceed(w, "topaid")
      BY <2>1, <1>8 DEF PlainPcs
    <2>2. CASE ~Proceed(w, "topaid")
      BY <1>9, <2>2, AnswerConsistent DEF ConfirmPayment
    <2> QED
      BY <2>1, <2>2
  <1>10. CASE ToPaid(w) /\ ~ErrorReturn(w)
    <2>1. CASE Payable(o)
      <3>1. /\ WriteRow(o, "PAID") /\ Goto(w, "execute")
            /\ paidAt' = [paidAt EXCEPT ![o] = TRUE]
            /\ UNCHANGED <<refused, goodsVars, envVars, at, job>>
        BY <1>2, <1>10, <2>1 DEF ToPaid
      <3>2. \A x \in Orders : status'[x] = IF x = o THEN "PAID" ELSE status[x]
        BY <1>3, <3>1, WriteRowAt
      <3>3. \A x \in Orders : x # o => Same(x)
        BY <1>3, <3>1, <3>2 DEF Same, MarkTypeOK, goodsVars, envVars
      <3>4. status[o] \notin Settled
        BY <2>1 DEF Payable, Settled
      <3>5. OrderInv(o)' /\ Keeps(w, o)
        BY <1>4, <1>5, <3>1, <3>2, <3>4
           DEF OrderInv, Keeps, Early, Delivered, Settled, Fulfillable,
               goodsVars, envVars
      <3>6. At(o, "execute", job[w])'
        BY <1>5, <3>1 DEF At, CreatePcs, PaidPcs, LeasePcs, envVars
      <3> QED
        BY <1>1, <1>2, <3>1, <3>3, <3>5, <3>6, GotoConsistent DEF CreatePcs
    <2>2. CASE ~Payable(o)
      <3>1. Proceed(w, "already")
        BY <1>2, <1>10, <2>2 DEF ToPaid
      <3>2. At(o, "already", job[w])
        BY <1>5, <1>6, <2>2 DEF At, CreatePcs, PaidPcs, Payable
      <3> QED
        BY <1>2, <3>1, <3>2, ReadConsistent DEF CreatePcs, Pcs
    <2> QED
      BY <2>1, <2>2
  <1>11. CASE AlreadyProcessed(w)
    <2>1. CASE Proceed(w, "execute")
      BY <2>1, <1>8 DEF PlainPcs
    <2>2. CASE SwallowsFaults /\ Fault /\ Return(w, TRUE)
               /\ UNCHANGED <<rowVars, markVars, goodsVars, timedOut, upstream>>
      BY <2>2, AnswerConsistent
    <2>3. CASE status[o] \notin Fulfillable \cup {"EXPIRED"} /\ Answer(w, TRUE)
      <3>1. status[o] \in Settled
        BY <1>4, <1>6, <1>11, <2>3
           DEF AlreadyProcessed, At, Fulfillable, Settled, Statuses
      <3> QED
        BY <1>2, <2>3, <3>1, AnswerConsistent DEF Answer
    <2>4. CASE /\ refused' = [refused EXCEPT ![o] = TRUE]
               /\ Return(w, TRUE)
               /\ UNCHANGED <<rowVars, owner, tradeNo, paidAt, goodsVars,
                              timedOut, upstream>>
      <3>1. \A x \in Orders : refused'[x] = IF x = o THEN TRUE ELSE refused[x]
        BY <1>3, <2>4 DEF MarkTypeOK
      <3>2. \A x \in Orders : x # o => hook'[x] = hook[x]
        BY <1>2, <1>3, <2>4, ReturnHook
      <3>3. \A x \in Orders : x # o => Same(x)
        BY <2>4, <3>1, <3>2 DEF Same, rowVars, goodsVars
      <3>4. OrderInv(o)' /\ Keeps(w, o)
        BY <1>4, <1>5, <2>4, <3>1
           DEF OrderInv, Keeps, Delivered, rowVars, goodsVars
      <3> QED
        BY <1>1, <1>2, <2>4, <3>3, <3>4, ReturnConsistent
    <2> QED
      BY <1>2, <1>11, <2>1, <2>2, <2>3, <2>4 DEF AlreadyProcessed
  <1>12. CASE ExecuteFulfillment(w) /\ ~ErrorReturn(w)
    <2>1. CASE Proceed(w, "acquire")
      BY <2>1, <1>8 DEF PlainPcs
    <2>2. CASE ~Proceed(w, "acquire")
      <3>1. Answer(w, status[o] = "COMPLETED")
        BY <1>2, <1>12, <2>2 DEF ExecuteFulfillment
      <3> QED
        BY <1>2, <3>1, AnswerConsistent DEF Answer, Settled
    <2> QED
      BY <2>1, <2>2
  <1> QED
    BY <1>7, <1>9, <1>10, <1>11, <1>12

\* Taking, renewing and giving back the lease keep the invariant.
LEMMA LeaseStepsConsistent ==
    ASSUME Consistent, NEW w \in Workers, Step(w),
           \/ AcquireLease(w) \/ LeaseContended(w) \/ ReloadLease(w)
           \/ MarkCompleted(w) \/ LeaseLost(w) \/ MarkFailed(w)
    PROVE  Consistent'
  <1>1. TypeOK'
    BY StepType DEF Consistent
  <1>2. PICK o \in Orders : at[w] = o
    BY WorkerFacts
  <1>3. RowTypeOK /\ MarkTypeOK /\ GoodsTypeOK /\ EnvTypeOK /\ WorkerTypeOK
    BY WorkerFacts
  <1>4. OrderInv(o) /\ At(o, pc[w], job[w])
    BY <1>2, WorkerFacts
  <1>5. upstream[o] = "paid"
    BY <1>4 DEF AcquireLease, LeaseContended, ReloadLease, MarkCompleted,
       LeaseLost, MarkFailed, At, PaidPcs, LeasePcs
  <1>6. CASE ErrorReturn(w)
    BY <1>6, ErrorConsistent
  <1>7. CASE \E p \in PlainPcs : Proceed(w, p) \/ FaultTo(w, p)
    BY <1>2, <1>5, <1>7, PlainConsistent
  <1>8. CASE Answer(w, status[o] = "COMPLETED")
    BY <1>2, <1>8, AnswerConsistent DEF Answer, Settled
  <1>9. CASE Answer(w, FALSE)
    BY <1>9, AnswerConsistent DEF Answer
  <1>10. CASE AcquireLease(w) /\ ~ErrorReturn(w)
    <2>1. CASE Proceed(w, "contended")
      BY <2>1, <1>7 DEF PlainPcs
    <2>2. CASE ~Proceed(w, "contended")
      <3>1. /\ Acquirable(o) /\ WriteRow(o, "RECHARGING") /\ Goto(w, "reload")
            /\ UNCHANGED <<paidAt, refused, goodsVars, envVars, at, job>>
        BY <1>2, <1>10, <2>2 DEF AcquireLease
      <3>2. \A x \in Orders :
               status'[x] = IF x = o THEN "RECHARGING" ELSE status[x]
        BY <1>3, <3>1, WriteRowAt
      <3>3. \A x \in Orders : x # o => Same(x)
        BY <3>1, <3>2 DEF Same, goodsVars, envVars
      <3>4. status[o] \notin Settled
        BY <3>1 DEF Acquirable, Settled
      <3>5. OrderInv(o)' /\ Keeps(w, o)
        BY <1>4, <1>5, <3>1, <3>2, <3>4
           DEF OrderInv, Keeps, Early, Delivered, Settled, Fulfillable,
               goodsVars, envVars
      <3>6. At(o, "reload", job[w])'
        BY <1>5, <3>1 DEF At, CreatePcs, PaidPcs, LeasePcs, envVars
      <3> QED
        BY <1>1, <1>2, <3>1, <3>3, <3>5, <3>6, GotoConsistent DEF CreatePcs
    <2> QED
      BY <2>1, <2>2
  <1>11. CASE LeaseContended(w)
    BY <1>2, <1>6, <1>8, <1>11 DEF LeaseContended
  <1>12. CASE ReloadLease(w) /\ ~ErrorReturn(w)
    <2>1. CASE Answer(w, FALSE)
      BY <2>1, <1>9
    <2>2. CASE ~Answer(w, FALSE)
      <3>1. PICK p \in {"assign", "lookup"} :
               /\ p = IF o \in SubscriptionOrders THEN "assign" ELSE "lookup"
               /\ Goto(w, p)
               /\ UNCHANGED <<status, markVars, goodsVars, envVars, at, job>>
        BY <1>2, <1>12, <2>2 DEF ReloadLease
      <3>2. \A x \in Orders : Same(x)
        BY <3>1 DEF Same, markVars, goodsVars, envVars
      <3>3. OrderInv(o)' /\ Keeps(w, o)
        BY <1>4, <3>2, OrderKept DEF Same
      <3>4. At(o, p, job[w])'
        BY <1>5, <3>1, <3>2 DEF At, Same, CreatePcs, PaidPcs, LeasePcs
      <3> QED
        BY <1>1, <1>2, <3>1, <3>2, <3>3, <3>4, GotoConsistent DEF CreatePcs
    <2> QED
      BY <2>1, <2>2
  <1>13. CASE MarkCompleted(w)
    <2>1. CASE FaultTo(w, "fail")
      BY <2>1, <1>7 DEF PlainPcs
    <2>2. CASE Proceed(w, "lost")
      <3>1. At(o, "lost", job[w])
        BY <1>4, <1>5, <1>13
           DEF MarkCompleted, At, CreatePcs, PaidPcs, LeasePcs
      <3> QED
        BY <1>2, <2>2, <3>1, ReadConsistent DEF CreatePcs, Pcs
    <2>3. CASE ~FaultTo(w, "fail") /\ ~Proceed(w, "lost")
      <3>1. /\ pc[w] = "complete" /\ Return(w, TRUE)
            /\ WriteRow(o, "COMPLETED")
            /\ UNCHANGED <<markVars, goodsVars, upstream>>
        BY <1>2, <1>13, <2>3 DEF MarkCompleted
      <3>2. claimed[o]
        BY <1>4, <3>1 DEF At
      <3>3. \A x \in Orders :
               status'[x] = IF x = o THEN "COMPLETED" ELSE status[x]
        BY <1>3, <3>1, WriteRowAt
      <3>4. \A x \in Orders : x # o => hook'[x] = hook[x]
        BY <1>2, <1>3, <3>1, ReturnHook
      <3>5. \A x \in Orders : x # o => Same(x)
        BY <3>1, <3>3, <3>4 DEF Same, markVars, goodsVars
      <3>6. OrderInv(o)' /\ Keeps(w, o)
        BY <1>4, <1>5, <3>1, <3>2, <3>3
           DEF OrderInv, Keeps, Early, Delivered, Settled, Fulfillable,
               markVars, goodsVars
      <3> QED
        BY <1>1, <1>2, <3>1, <3>5, <3>6, ReturnConsistent
    <2> QED
      BY <2>1, <2>2, <2>3
  <1>14. CASE LeaseLost(w)
    <2>1. CASE status[o] = "COMPLETED" /\ Answer(w, TRUE)
      BY <1>2, <2>1, AnswerConsistent DEF Answer, Settled
    <2>2. CASE Proceed(w, "fail") \/ FaultTo(w, "fail")
      BY <1>7, <2>2 DEF PlainPcs
    <2> QED
      BY <1>2, <1>14, <2>1, <2>2 DEF LeaseLost
  <1>15. CASE MarkFailed(w) /\ ~ErrorReturn(w) /\ ~Answer(w, FALSE)
    <2>1. /\ HoldsLease(w) /\ Return(w, FALSE) /\ WriteRow(o, "FAILED")
          /\ UNCHANGED <<markVars, goodsVars, upstream>>
      BY <1>2, <1>15 DEF MarkFailed
    <2>2. \A x \in Orders : hook'[x] = hook[x]
      BY <2>1 DEF Return
    <2>3. \A x \in Orders : status'[x] = IF x = o THEN "FAILED" ELSE status[x]
      BY <1>3, <2>1, WriteRowAt
    <2>4. \A x \in Orders : x # o => Same(x)
      BY <2>1, <2>2, <2>3 DEF Same, markVars, goodsVars
    <2>5. status[o] \notin Settled
      BY <1>2, <2>1 DEF HoldsLease, Settled
    <2>6. OrderInv(o)' /\ Keeps(w, o)
      BY <1>4, <1>5, <2>1, <2>2, <2>3, <2>5
         DEF OrderInv, Keeps, Early, Delivered, Settled, Fulfillable,
             markVars, goodsVars
    <2> QED
      BY <1>1, <1>2, <2>1, <2>4, <2>6, ReturnConsistent
  <1> QED
    BY <1>6, <1>9, <1>10, <1>11, <1>12, <1>13, <1>14, <1>15

\* Delivering the goods and deciding the rebate keep the invariant.
LEMMA GoodsStepsConsistent ==
    ASSUME Consistent, NEW w \in Workers, Step(w),
           \/ LookupCode(w) \/ CreateCode(w) \/ CheckCode(w) \/ UseCode(w)
           \/ AssignSubscription(w) \/ ApplyRebate(w)
    PROVE  Consistent'
  <1>1. TypeOK'
    BY StepType DEF Consistent
  <1>2. PICK o \in Orders : at[w] = o
    BY WorkerFacts
  <1>3. RowTypeOK /\ MarkTypeOK /\ GoodsTypeOK /\ EnvTypeOK /\ WorkerTypeOK
    BY WorkerFacts
  <1>4. OrderInv(o) /\ At(o, pc[w], job[w])
    BY <1>2, WorkerFacts
  <1>5. upstream[o] = "paid"
    BY <1>4 DEF LookupCode, CreateCode, CheckCode, UseCode, AssignSubscription,
       ApplyRebate, At, PaidPcs, LeasePcs
  <1>6. CASE Proceed(w, "fail") \/ FaultTo(w, "fail")
    BY <1>2, <1>5, <1>6, PlainConsistent DEF PlainPcs
  <1>7. CASE LookupCode(w)
    <2>1. o \notin SubscriptionOrders
      BY <1>4, <1>7 DEF LookupCode, At
    <2>2. CASE code[o] = "used" /\ Proceed(w, "rebate")
      <3>1. At(o, "rebate", job[w])
        BY <1>5, <2>1, <2>2 DEF At, Delivered, CreatePcs, PaidPcs, LeasePcs
      <3> QED
        BY <1>2, <2>2, <3>1, ReadConsistent DEF CreatePcs, Pcs
    <2>3. CASE \E p \in {"check", "mint"} : Proceed(w, p) \/ FaultTo(w, p)
      <3>1. \A p \in {"check", "mint"} :
               At(o, p, job[w]) /\ p \notin CreatePcs /\ p \in Pcs
        BY <1>5, <2>1 DEF At, CreatePcs, PaidPcs, LeasePcs, Pcs
      <3> QED
        BY <1>2, <2>3, <3>1, ReadConsistent
    <2> QED
      BY <1>2, <1>7, <2>2, <2>3 DEF LookupCode
  <1>8. CASE CreateCode(w) /\ ~Proceed(w, "fail") /\ ~FaultTo(w, "fail")
    <2>1. /\ pc[w] = "mint" /\ code[o] = "absent" /\ Goto(w, "check")
          /\ code' = [code EXCEPT ![o] = "unused"]
          /\ UNCHANGED <<rowVars, markVars, assigned, granted, claimed, rebates,
                         envVars, at, job>>
      BY <1>2, <1>8 DEF CreateCode
    <2>2. \A x \in Orders : code'[x] = IF x = o THEN "unused" ELSE code[x]
      BY <1>3, <2>1 DEF GoodsTypeOK
    <2>3. \A x \in Orders : x # o => Same(x)
      BY <2>1, <2>2 DEF Same, rowVars, markVars, envVars
    <2>4. o \notin SubscriptionOrders
      BY <1>4, <2>1 DEF At
    <2>5. OrderInv(o)' /\ Keeps(w, o)
      BY <1>4, <2>1, <2>2, <2>4
         DEF OrderInv, Keeps, Delivered, rowVars, markVars, envVars
    <2>6. At(o, "check", job[w])'
      BY <1>5, <2>1, <2>4 DEF At, CreatePcs, PaidPcs, LeasePcs, envVars
    <2> QED
      BY <1>1, <1>2, <2>1, <2>3, <2>5, <2>6, GotoConsistent DEF CreatePcs
  <1>9. CASE CheckCode(w) /\ ~Proceed(w, "fail") /\ ~FaultTo(w, "fail")
    <2>1. Proceed(w, "use") /\ o \notin SubscriptionOrders
      BY <1>2, <1>4, <1>9 DEF CheckCode, At
    <2>2. At(o, "use", job[w])
      BY <1>5, <2>1 DEF At, CreatePcs, PaidPcs, LeasePcs
    <2> QED
      BY <1>2, <2>1, <2>2, ReadConsistent DEF CreatePcs, Pcs
  <1>10. CASE UseCode(w) /\ ~Proceed(w, "fail") /\ ~FaultTo(w, "fail")
    <2>1. PICK p \in {"rebate", "fail"} :
             /\ pc[w] = "use" /\ code[o] = "unused" /\ Goto(w, p)
             /\ code' = [code EXCEPT ![o] = "used"]
             /\ granted' = [granted EXCEPT ![o] = @ + 1]
             /\ UNCHANGED <<rowVars, markVars, assigned, claimed, rebates,
                            envVars, at, job>>
      BY <1>2, <1>10 DEF UseCode
    <2>2. \A x \in Orders :
             /\ code'[x] = IF x = o THEN "used" ELSE code[x]
             /\ granted'[x] = IF x = o THEN granted[o] + 1 ELSE granted[x]
      BY <1>3, <2>1 DEF GoodsTypeOK
    <2>3. \A x \in Orders : x # o => Same(x)
      BY <2>1, <2>2 DEF Same, rowVars, markVars, envVars
    <2>4. o \notin SubscriptionOrders
      BY <1>4, <2>1 DEF At
    <2>5. OrderInv(o)' /\ Keeps(w, o)
      BY <1>4, <1>5, <2>1, <2>2, <2>4
         DEF OrderInv, Keeps, Delivered, rowVars, markVars, envVars
    <2>6. At(o, p, job[w])'
      BY <1>5, <2>1, <2>2, <2>4
         DEF At, Delivered, CreatePcs, PaidPcs, LeasePcs, envVars
    <2> QED
      BY <1>1, <1>2, <2>1, <2>3, <2>5, <2>6, GotoConsistent DEF CreatePcs
  <1>11. CASE AssignSubscription(w) /\ ~FaultTo(w, "fail")
    <2>1. PICK p \in {"rebate", "fail"} :
             /\ pc[w] = "assign" /\ Goto(w, p)
             /\ assigned' = [assigned EXCEPT ![o] = TRUE]
             /\ granted' = IF assigned[o] THEN granted
                           ELSE [granted EXCEPT ![o] = @ + 1]
             /\ UNCHANGED <<rowVars, markVars, code, claimed, rebates,
                            envVars, at, job>>
      BY <1>2, <1>11 DEF AssignSubscription
    <2>2. /\ assigned'[o]
          /\ granted'[o] = IF assigned[o] THEN granted[o] ELSE granted[o] + 1
          /\ \A x \in Orders : x # o => assigned'[x] = assigned[x]
                                        /\ granted'[x] = granted[x]
      BY <1>3, <2>1 DEF GoodsTypeOK
    <2>3. \A x \in Orders : x # o => Same(x)
      BY <2>1, <2>2 DEF Same, rowVars, markVars, envVars
    <2>4. o \in SubscriptionOrders
      BY <1>4, <2>1 DEF At
    <2>5. OrderInv(o)' /\ Keeps(w, o)
      BY <1>4, <1>5, <2>1, <2>2, <2>4
         DEF OrderInv, Keeps, Delivered, rowVars, markVars, envVars
    <2>6. At(o, p, job[w])'
      BY <1>5, <2>1, <2>2, <2>4
         DEF At, Delivered, CreatePcs, PaidPcs, LeasePcs, envVars
    <2> QED
      BY <1>1, <1>2, <2>1, <2>3, <2>5, <2>6, GotoConsistent DEF CreatePcs
  <1>12. CASE ApplyRebate(w) /\ ~FaultTo(w, "fail")
    <2>0. Delivered(o)
      BY <1>4, <1>12 DEF ApplyRebate, At
    <2>1. CASE claimed[o] /\ Proceed(w, "complete")
      <3>1. At(o, "complete", job[w])
        BY <1>5, <2>0, <2>1 DEF At, CreatePcs, PaidPcs, LeasePcs
      <3> QED
        BY <1>2, <2>1, <3>1, ReadConsistent DEF CreatePcs, Pcs
    <2>2. CASE ~(claimed[o] /\ Proceed(w, "complete"))
      <3>1. /\ ~claimed[o] /\ Goto(w, "complete")
            /\ claimed' = [claimed EXCEPT ![o] = TRUE]
            /\ rebates' \in {rebates, [rebates EXCEPT ![o] = @ + 1]}
            /\ UNCHANGED <<rowVars, markVars, code, assigned, granted,
                           envVars, at, job>>
        BY <1>2, <1>12, <2>2 DEF ApplyRebate
      <3>2. /\ claimed'[o]
            /\ rebates'[o] \in {rebates[o], rebates[o] + 1}
            /\ \A x \in Orders : x # o => claimed'[x] = claimed[x]
                                          /\ rebates'[x] = rebates[x]
        BY <1>3, <3>1 DEF GoodsTypeOK
      <3>3. \A x \in Orders : x # o => Same(x)
        BY <3>1, <3>2 DEF Same, rowVars, markVars, envVars
      <3>4. rebates[o] \in Nat
        BY <1>3 DEF GoodsTypeOK
      <3>5. OrderInv(o)' /\ Keeps(w, o)
        BY <1>4, <1>5, <2>0, <3>1, <3>2, <3>4
           DEF OrderInv, Keeps, Delivered, rowVars, markVars, envVars
      <3>6. At(o, "complete", job[w])'
        BY <1>5, <2>0, <3>1, <3>2
           DEF At, Delivered, CreatePcs, PaidPcs, LeasePcs, envVars
      <3> QED
        BY <1>1, <1>2, <3>1, <3>3, <3>5, <3>6, GotoConsistent DEF CreatePcs
    <2> QED
      BY <2>1, <2>2
  <1> QED
    BY <1>6, <1>7, <1>8, <1>9, <1>10, <1>11, <1>12

\* The invariant after worker w, so far idle, begins job j on order o at step p.
LEMMA BeginConsistent ==
    ASSUME Consistent, TypeOK', NEW w \in Workers, NEW o \in Orders, NEW j,
           NEW p, Begin(w, o, j, p),
           \A x \in Orders : Keeps(w, x) /\ OrderInv(x)',
           At(o, p, j)',
           p \in CreatePcs => \A v \in Workers : ~Creates(v, o)
    PROVE  Consistent'
  <1>0. \A v \in Workers : at[v] \in Orders
    BY WorkerFacts
  <1>1. \A v \in Workers : /\ pc'[v] = IF v = w THEN p ELSE pc[v]
                           /\ job'[v] = IF v = w THEN j ELSE job[v]
                           /\ at'[v] = IF v = w THEN o ELSE at[v]
    BY DEF Begin, Consistent, TypeOK, WorkerTypeOK
  <1>2. \A v \in Workers : At(at[v], pc[v], job[v])'
    <2> SUFFICES ASSUME NEW v \in Workers PROVE At(at[v], pc[v], job[v])'
      OBVIOUS
    <2>1. CASE v = w
      <3>1. pc'[v] = p /\ job'[v] = j /\ at'[v] = o
        BY <1>1, <2>1
      <3> QED
        BY <3>1 DEF At
    <2>2. CASE v # w
      BY <1>0, <1>1, <2>2, BystanderKept
    <2> QED
      BY <2>1, <2>2
  <1>3. SoleCreator'
    BY <1>1 DEF Consistent, SoleCreator, Creates
  <1> QED
    BY <1>2, <1>3 DEF Consistent

\* A call that arrives keeps the invariant.
LEMMA ArriveConsistent ==
    ASSUME Consistent, NEW w \in Workers, NEW o \in Orders, Arrive(w, o)
    PROVE  Consistent'
  <1>1. TypeOK'
    BY ArriveType DEF Consistent
  <1>2. RowTypeOK /\ OrderInv(o)
    BY DEF Consistent, TypeOK
  <1>3. CASE CreateOrder(w, o)
    <2>1. /\ status[o] = "NONE" /\ Begin(w, o, "create", "invoke")
          /\ WriteRow(o, "PENDING") /\ UNCHANGED <<markVars, goodsVars, envVars>>
      BY <1>3 DEF CreateOrder
    <2>2. \A x \in Orders : status'[x] = IF x = o THEN "PENDING" ELSE status[x]
      BY <1>2, <2>1, WriteRowAt
    <2>3. \A x \in Orders : x # o => Same(x)
      BY <2>1, <2>2 DEF Same, markVars, goodsVars, envVars
    <2>4. upstream[o] = "none"
      BY <1>2, <2>1 DEF OrderInv
    <2>5. OrderInv(o)' /\ Keeps(w, o)
      BY <1>2, <2>1, <2>2, <2>4
         DEF OrderInv, Keeps, Early, Delivered, Settled, Fulfillable,
             markVars, goodsVars, envVars
    <2>6. ASSUME NEW x \in Orders PROVE Keeps(w, x) /\ OrderInv(x)'
      BY <2>3, <2>5, OrderKept DEF Same, Consistent
    <2>7. At(o, "invoke", "create")'
      BY <2>1, <2>2, <2>4 DEF At, CreatePcs, PaidPcs, LeasePcs, envVars
    <2>8. \A v \in Workers : ~Creates(v, o)
      BY <2>1 DEF Consistent, Creates, At
    <2> QED
      BY <1>1, <2>1, <2>6, <2>7, <2>8, BeginConsistent
  <1>4. CASE ~CreateOrder(w, o)
    <2>1. /\ UNCHANGED <<rowVars, markVars, goodsVars, envVars>>
          /\ \E j \in Jobs, p \in {"confirm", "query", "execute"} :
                /\ Begin(w, o, j, p)
                /\ p # "query" => hook[o] # "none" \/ paidAt[o]
                /\ p = "query" => j # "webhook"
      BY <1>4 DEF Arrive, Webhook, VerifyOrder, ReconcileOrder, CancelOrder,
         ExpireOrder, RetryFulfillment, Jobs
    <2>2. PICK j \in Jobs, p \in {"confirm", "query", "execute"} :
             /\ Begin(w, o, j, p)
             /\ p # "query" => hook[o] # "none" \/ paidAt[o]
             /\ p = "query" => j # "webhook"
      BY <2>1
    <2>3. \A x \in Orders : Same(x)
      BY <2>1 DEF Same, rowVars, markVars, goodsVars, envVars
    <2>4. ASSUME NEW x \in Orders PROVE Keeps(w, x) /\ OrderInv(x)'
      BY <2>3, OrderKept DEF Same, Consistent
    <2>5. p # "query" => upstream[o] = "paid"
      BY <1>2, <2>2 DEF OrderInv
    <2>6. At(o, p, j)'
      BY <2>2, <2>3, <2>5 DEF At, Same, CreatePcs, PaidPcs, LeasePcs
    <2> QED
      BY <1>1, <2>2, <2>4, <2>6, BeginConsistent DEF CreatePcs
  <1> QED
    BY <1>3, <1>4

\* What a step of the surroundings leaves to every worker.
Retains(o) ==
    /\ status[o] # "NONE" => status'[o] # "NONE"
    /\ status[o] \notin Early => status'[o] \notin Early
    /\ upstream[o] = "paid" => upstream'[o] = "paid"
    /\ Delivered(o) => Delivered(o)'
    /\ claimed[o] => claimed'[o]
    /\ upstream[o] = "none" => upstream'[o] = "none"
    /\ upstream[o] \in Unpayable => upstream'[o] \in Unpayable

\* Payments, time and refunds keep the invariant.
LEMMA SurroundingsConsistent ==
    ASSUME Consistent, NEW o \in Orders, Surroundings(o)
    PROVE  Consistent'
  <1>1. TypeOK'
    BY SurroundingsType DEF Consistent
  <1>2. RowTypeOK /\ EnvTypeOK /\ OrderInv(o) /\ UNCHANGED workerVars
    BY DEF Consistent, TypeOK, Surroundings, Pay, TimeOut, Age, MoveRefund
  <1>3. (\A x \in Orders : x # o => Same(x)) /\ Retains(o) /\ OrderInv(o)'
    <2>1. CASE Pay(o)
      <3>1. /\ upstream[o] = "unpaid"
            /\ \A x \in Orders :
                  /\ upstream'[x] = IF x = o THEN "paid" ELSE upstream[x]
                  /\ hook'[x] = IF x = o THEN "due" ELSE hook[x]
            /\ UNCHANGED <<rowVars, markVars, goodsVars>>
        BY <1>2, <2>1 DEF Pay, EnvTypeOK
      <3>2. \A x \in Orders : x # o => Same(x)
        BY <3>1 DEF Same, rowVars, markVars, goodsVars
      <3> QED
        BY <1>2, <3>1, <3>2
           DEF OrderInv, Retains, Unpayable, Delivered, rowVars, markVars,
               goodsVars
    <2>2. CASE TimeOut(o) \/ Age(o)
      <3>1. \A x \in Orders : Same(x)
        BY <2>2 DEF TimeOut, Age, Same, rowVars, markVars, goodsVars, envVars
      <3>2. OrderInv(o)'
        BY <1>2, <3>1, OrderKept DEF Same
      <3> QED
        BY <3>1, <3>2 DEF Same, Retains, Delivered
    <2>3. CASE MoveRefund(o)
      <3>1. PICK s \in Settled : WriteRow(o, s)
        BY <2>3 DEF MoveRefund
      <3>2. /\ status[o] \in Settled
            /\ UNCHANGED <<markVars, goodsVars, envVars>>
        BY <2>3 DEF MoveRefund
      <3>3. \A x \in Orders : status'[x] = IF x = o THEN s ELSE status[x]
        BY <1>2, <3>1, WriteRowAt
      <3>4. \A x \in Orders : x # o => Same(x)
        BY <3>2, <3>3 DEF Same, markVars, goodsVars, envVars
      <3>5. status'[o] \in Settled
        BY <3>1, <3>3
      <3> QED
        BY <1>2, <3>2, <3>4, <3>5
           DEF OrderInv, Retains, Early, Delivered, Settled, markVars,
               goodsVars, envVars
    <2> QED
      BY <2>1, <2>2, <2>3 DEF Surroundings
  <1>4. ASSUME NEW x \in Orders PROVE Retains(x) /\ OrderInv(x)'
    <2>1. CASE x = o
      BY <1>3, <2>1
    <2>2. CASE x # o
      <3>1. OrderInv(x) /\ Same(x)
        BY <1>3, <2>2 DEF Consistent
      <3> QED
        BY <3>1, OrderKept DEF Same, Retains, Delivered
    <2> QED
      BY <2>1, <2>2
  <1>5. ASSUME NEW v \in Workers PROVE At(at[v], pc[v], job[v])'
    <2>1. /\ at[v] \in Orders /\ At(at[v], pc[v], job[v])
          /\ at'[v] = at[v] /\ pc'[v] = pc[v] /\ job'[v] = job[v]
      BY <1>2, WorkerFacts DEF workerVars
    <2>2. Retains(at[v])
      BY <1>4, <2>1
    <2> QED
      BY <2>1, <2>2 DEF At, Retains, Unpayable, Early, Delivered, CreatePcs
  <1>6. SoleCreator'
    BY <1>2 DEF Consistent, SoleCreator, workerVars
  <1> QED
    BY <1>1, <1>4, <1>5, <1>6 DEF Consistent

\* No step of the machine breaks the invariant.
LEMMA NextConsistent ==
    ASSUME Consistent, [Next]_vars
    PROVE  Consistent'
  <1>1. CASE UNCHANGED vars
    BY <1>1, NextType
       DEF Consistent, OrderInv, At, Delivered, SoleCreator, vars, rowVars,
           markVars, goodsVars, envVars, workerVars
  <1>2. ASSUME NEW w \in Workers, Step(w) PROVE Consistent'
    BY <1>2, OrderStepsConsistent, PaidStepsConsistent, LeaseStepsConsistent,
       GoodsStepsConsistent DEF Step
  <1>3. ASSUME NEW w \in Workers, Crash(w) PROVE Consistent'
    BY <1>3, ErrorConsistent DEF Crash
  <1> QED
    BY <1>1, <1>2, <1>3, ArriveConsistent, SurroundingsConsistent DEF Next

LEMMA InitConsistent == Init => Consistent
  <1> SUFFICES ASSUME Init PROVE Consistent
    OBVIOUS
  <1>1. TypeOK
    BY InitType
  <1>2. ASSUME NEW o \in Orders PROVE OrderInv(o)
    BY DEF Init, OrderInv, Delivered, Settled
  <1>3. ASSUME NEW w \in Workers PROVE At(at[w], pc[w], job[w])
    BY DEF Init, At, CreatePcs, PaidPcs, LeasePcs
  <1>4. SoleCreator
    BY DEF Init, SoleCreator, CreatePcs
  <1> QED
    BY <1>1, <1>2, <1>3, <1>4 DEF Consistent

\* The inductive invariant holds throughout: an order's markers, statuses and
\* callbacks agree whatever workers, callbacks, sweeps and faults do.
THEOREM AlwaysConsistent == Spec => []Consistent
  BY InitConsistent, NextConsistent, PTL DEF Spec

\* A buyer and an inviter are credited at most once per order, although leases
\* are stolen, callbacks repeat and calls fail after their commit.
THEOREM NeverDeliveredTwice == Spec => []DeliveredOnce
  <1>1. Consistent => DeliveredOnce
    BY DEF Consistent, OrderInv, DeliveredOnce, TypeOK, GoodsTypeOK
  <1> QED
    BY <1>1, AlwaysConsistent, PTL

\* Nothing is delivered for an order the provider was not paid for.
THEOREM NeverDeliveredUnpaid == Spec => []DeliveredOnlyIfPaid
  <1>1. Consistent => DeliveredOnlyIfPaid
    BY DEF Consistent, OrderInv, DeliveredOnlyIfPaid
  <1> QED
    BY <1>1, AlwaysConsistent, PTL

\* A completed order has been delivered and its rebate has been decided.
THEOREM CompletedWasDelivered == Spec => []CompletedMeansDelivered
  <1>1. Consistent => CompletedMeansDelivered
    BY DEF Consistent, OrderInv, CompletedMeansDelivered
  <1> QED
    BY <1>1, AlwaysConsistent, PTL

\* No cancellation or sweep overwrites a payment that was accepted.
THEOREM AcceptedIsRemembered == Spec => []PaidIsRemembered
  <1>1. Consistent => PaidIsRemembered
    BY DEF Consistent, OrderInv, PaidIsRemembered
  <1> QED
    BY <1>1, AlwaysConsistent, PTL

\* If no read whose error the code drops fails, the provider's callback is
\* acknowledged only for orders that were delivered or refused on record.
THEOREM AcknowledgedWasHandled ==
    ASSUME ~SwallowsFaults
    PROVE  Spec => []AckedIsHandled
  <1>1. Consistent => AckedIsHandled
    BY DEF Consistent, OrderInv, AckedIsHandled
  <1> QED
    BY <1>1, AlwaysConsistent, PTL

-----------------------------------------------------------------------------
(* PaymentFulfillment implements PaymentPromise.  Only four steps change   *)
(* what the promise speaks of: the buyer pays, the goods are credited, the *)
(* rebate is decided, the order is completed.                              *)

\* Nothing the promise speaks of changes for order o.
Quiet(o) ==
    /\ granted'[o] = granted[o]
    /\ upstream'[o] = "paid" <=> upstream[o] = "paid"
    /\ status'[o] \in Settled <=> status[o] \in Settled

\* Nor for any order.
AllQuiet == (\A o \in Orders : Quiet(o)) /\ claimed' = claimed

\* A step that changes no row, no goods and no payment.
LEMMA FrameQuiet ==
    ASSUME UNCHANGED <<status, granted, claimed, upstream>>
    PROVE  AllQuiet
  BY DEF AllQuiet, Quiet

\* A step that writes the row of order o only.
LEMMA WriteQuiet ==
    ASSUME RowTypeOK, NEW o \in Orders, NEW s, WriteRow(o, s),
           s \in Settled <=> status[o] \in Settled,
           UNCHANGED <<granted, claimed, upstream>>
    PROVE  AllQuiet
  <1>1. \A x \in Orders : status'[x] = IF x = o THEN s ELSE status[x]
    BY WriteRowAt
  <1> QED
    BY <1>1 DEF AllQuiet, Quiet

\* Steps before the payment is confirmed are quiet.
LEMMA OrderStepsQuiet ==
    ASSUME Consistent, NEW w \in Workers,
           \/ InvokeProvider(w) \/ RecordPayment(w) \/ RejectOrder(w)
           \/ QueryOrder(w) \/ PersistTradeNo(w) \/ ClosePayment(w)
           \/ SetCancelled(w)
    PROVE  AllQuiet
  <1>1. PICK o \in Orders : at[w] = o
    BY WorkerFacts
  <1>2. RowTypeOK /\ EnvTypeOK /\ OrderInv(o) /\ At(o, pc[w], job[w])
    BY <1>1, WorkerFacts
  <1>3. CASE UNCHANGED <<rowVars, goodsVars, upstream>>
    BY <1>3, FrameQuiet DEF rowVars, goodsVars
  <1> DEFINE Still == UNCHANGED <<rowVars, goodsVars, upstream>>
  <1> HIDE DEF Still
  <1>4. ASSUME NEW p, Proceed(w, p) \/ FaultTo(w, p) PROVE Still
    BY <1>4 DEF Proceed, FaultTo, envVars, Still
  <1>5. ASSUME NEW ok, Answer(w, ok) \/ ErrorReturn(w) PROVE Still
    BY <1>5 DEF Answer, ErrorReturn, Still
  <1>6. CASE Still
    BY <1>3, <1>6 DEF Still
  <1>7. CASE InvokeProvider(w) /\ ~Still
    <2>1. /\ pc[w] = "invoke" /\ UNCHANGED <<rowVars, goodsVars>>
          /\ upstream' = [upstream EXCEPT ![o] = "opened"]
      BY <1>1, <1>4, <1>7 DEF InvokeProvider
    <2>2. upstream[o] = "none"
      BY <1>2, <2>1 DEF At
    <2> QED
      BY <1>2, <2>1, <2>2 DEF AllQuiet, Quiet, EnvTypeOK, rowVars, goodsVars
  <1>8. CASE RecordPayment(w) /\ ~Still
    <2>1. /\ WriteRow(o, status[o]) /\ UNCHANGED goodsVars
          /\ upstream' = IF upstream[o] = "opened"
                         THEN [upstream EXCEPT ![o] = "unpaid"] ELSE upstream
      BY <1>1, <1>4, <1>8 DEF RecordPayment
    <2>2. \A x \in Orders : status'[x] = status[x]
      BY <1>2, <2>1, WriteRowAt
    <2>3. \A x \in Orders : upstream'[x] = "paid" <=> upstream[x] = "paid"
      BY <1>2, <2>1 DEF EnvTypeOK
    <2> QED
      BY <2>1, <2>2, <2>3 DEF AllQuiet, Quiet, goodsVars
  <1>9. CASE RejectOrder(w) /\ ~Still
    <2>1. /\ pc[w] = "reject" /\ WriteRow(o, "FAILED")
          /\ UNCHANGED <<goodsVars, upstream>>
      BY <1>1, <1>5, <1>9 DEF RejectOrder
    <2>2. status[o] \notin Settled
      BY <1>2, <2>1 DEF At, OrderInv, CreatePcs
    <2> QED
      BY <1>2, <2>1, <2>2, WriteQuiet DEF goodsVars, Settled
  <1>10. CASE QueryOrder(w)
    BY <1>4, <1>5, <1>6, <1>10 DEF QueryOrder
  <1>11. CASE PersistTradeNo(w) /\ ~Still
    <2>1. WriteRow(o, status[o]) /\ UNCHANGED <<goodsVars, envVars>>
      BY <1>1, <1>4, <1>11 DEF PersistTradeNo
    <2> QED
      BY <1>2, <2>1, WriteQuiet DEF goodsVars, envVars
  <1>12. CASE ClosePayment(w) /\ ~Still
    <2>1. /\ UNCHANGED <<rowVars, goodsVars>>
          /\ upstream' = IF upstream[o] \in {"opened", "unpaid"}
                         THEN [upstream EXCEPT ![o] = "closed"] ELSE upstream
      BY <1>1, <1>4, <1>12 DEF ClosePayment
    <2>2. \A x \in Orders : upstream'[x] = "paid" <=> upstream[x] = "paid"
      BY <1>2, <2>1 DEF EnvTypeOK
    <2> QED
      BY <2>1, <2>2 DEF AllQuiet, Quiet, rowVars, goodsVars
  <1>13. CASE SetCancelled(w) /\ ~Still
    <2>1. /\ \E s \in {"EXPIRED", "CANCELLED"} : WriteRow(o, s)
          /\ status[o] = "PENDING" /\ UNCHANGED <<goodsVars, upstream>>
      BY <1>1, <1>5, <1>13 DEF SetCancelled, Still
    <2> QED
      BY <1>2, <2>1, WriteQuiet DEF goodsVars, Settled
  <1> QED
    BY <1>6, <1>7, <1>8, <1>9, <1>10, <1>11, <1>12, <1>13

\* Confirming a payment and taking or failing the lease are quiet; completing
\* is quiet or closes the order.
LEMMA LeaseStepsQuiet ==
    ASSUME Consistent, NEW w \in Workers,
           \/ ConfirmPayment(w) \/ ToPaid(w) \/ AlreadyProcessed(w)
           \/ ExecuteFulfillment(w) \/ AcquireLease(w) \/ LeaseContended(w)
           \/ ReloadLease(w) \/ LookupCode(w) \/ CreateCode(w) \/ CheckCode(w)
           \/ LeaseLost(w) \/ MarkFailed(w)
    PROVE  AllQuiet
  <1>1. PICK o \in Orders : at[w] = o
    BY WorkerFacts
  <1>2. RowTypeOK
    BY WorkerFacts
  <1> DEFINE Still == UNCHANGED <<status, granted, claimed, upstream>>
  <1>3. CASE Still
    BY <1>3, FrameQuiet
  <1> HIDE DEF Still
  <1>4. ASSUME NEW p, Proceed(w, p) \/ FaultTo(w, p) PROVE Still
    BY <1>4 DEF Proceed, FaultTo, rowVars, goodsVars, envVars, Still
  <1>5. ASSUME NEW ok, Answer(w, ok) \/ ErrorReturn(w) PROVE Still
    BY <1>5 DEF Answer, ErrorReturn, rowVars, goodsVars, Still
  <1>6. ASSUME ConfirmPayment(w) PROVE Still
    BY <1>4, <1>5, <1>6 DEF ConfirmPayment, rowVars, goodsVars, Still
  <1>7. CASE ToPaid(w) /\ ~Still
    <2>1. /\ WriteRow(o, "PAID") /\ status[o] \notin Settled
          /\ UNCHANGED <<goodsVars, envVars>>
      BY <1>1, <1>4, <1>5, <1>7 DEF ToPaid, Payable, Settled
    <2> QED
      BY <1>2, <2>1, WriteQuiet DEF goodsVars, envVars, Settled
  <1>8. ASSUME AlreadyProcessed(w) PROVE Still
    BY <1>4, <1>5, <1>8 DEF AlreadyProcessed, rowVars, goodsVars, Still
  <1>9. ASSUME ExecuteFulfillment(w) \/ LeaseContended(w) PROVE Still
    BY <1>4, <1>5, <1>9 DEF ExecuteFulfillment, LeaseContended
  <1>10. CASE AcquireLease(w) /\ ~Still
    <2>1. /\ WriteRow(o, "RECHARGING") /\ status[o] \notin Settled
          /\ UNCHANGED <<goodsVars, envVars>>
      BY <1>1, <1>4, <1>5, <1>10 DEF AcquireLease, Acquirable, Settled
    <2> QED
      BY <1>2, <2>1, WriteQuiet DEF goodsVars, envVars, Settled
  <1>11. ASSUME ReloadLease(w) PROVE Still
    BY <1>4, <1>5, <1>11 DEF ReloadLease, goodsVars, envVars, Still
  <1>12. ASSUME LookupCode(w) \/ CheckCode(w) \/ LeaseLost(w) PROVE Still
    BY <1>4, <1>5, <1>12 DEF LookupCode, CheckCode, LeaseLost
  <1>13. ASSUME CreateCode(w) PROVE Still
    BY <1>4, <1>13 DEF CreateCode, rowVars, envVars, Still
  <1>14. CASE MarkFailed(w) /\ ~Still
    <2>1. /\ WriteRow(o, "FAILED") /\ status[o] \notin Settled
          /\ UNCHANGED <<goodsVars, upstream>>
      BY <1>1, <1>5, <1>14 DEF MarkFailed, HoldsLease, Settled
    <2> QED
      BY <1>2, <2>1, WriteQuiet DEF goodsVars, Settled
  <1> QED
    BY <1>3, <1>6, <1>7, <1>8, <1>9, <1>10, <1>11, <1>12, <1>13, <1>14

\* What the promise calls the stage of an order, and a closed one.
StageOf(o) == IF granted[o] > 0 THEN "delivered"
              ELSE IF upstream[o] = "paid" THEN "paid" ELSE "open"

PromiseStage == [o \in Orders |-> StageOf(o)]

PromiseClosed == [o \in Orders |-> status[o] \in Settled]

\* A quiet step is a stutter of the promise.
LEMMA QuietPromise ==
    ASSUME AllQuiet
    PROVE  UNCHANGED Promise!promiseVars
  <1>1. \A o \in Orders : StageOf(o)' = StageOf(o)
    BY DEF AllQuiet, Quiet, StageOf
  <1>2. \A o \in Orders : (status'[o] \in Settled) = (status[o] \in Settled)
    BY DEF AllQuiet, Quiet
  <1>3. PromiseStage' = PromiseStage
    BY <1>1 DEF PromiseStage
  <1>4. PromiseClosed' = PromiseClosed
    BY <1>2 DEF PromiseClosed
  <1> QED
    BY <1>3, <1>4
       DEF Promise!promiseVars, AllQuiet, PromiseStage, StageOf, PromiseClosed

\* A step that credits the goods of order o delivers it.
LEMMA DeliverPromise ==
    ASSUME NEW o \in Orders, upstream[o] = "paid",
           granted[o] = 0, granted'[o] = 1,
           \A x \in Orders : x # o => granted'[x] = granted[x],
           UNCHANGED <<status, claimed, upstream>>
    PROVE  Promise!Deliver(o)
  <1>1. StageOf(o) = "paid" /\ StageOf(o)' = "delivered"
    BY DEF StageOf
  <1>2. \A x \in Orders : x # o => StageOf(x)' = StageOf(x)
    BY DEF StageOf
  <1>3. PromiseStage' = [PromiseStage EXCEPT ![o] = "delivered"]
    BY <1>1, <1>2 DEF PromiseStage
  <1>4. PromiseStage[o] = "paid"
    BY <1>1 DEF PromiseStage
  <1> QED
    BY <1>3, <1>4 DEF Promise!Deliver, PromiseStage, StageOf

\* A step of a worker keeps the promise.
LEMMA StepPromise ==
    ASSUME Consistent, Consistent', NEW w \in Workers, Step(w)
    PROVE  [Promise!PromiseNext]_(Promise!promiseVars)
  <1>1. PICK o \in Orders : at[w] = o
    BY WorkerFacts
  <1>2. /\ RowTypeOK /\ GoodsTypeOK /\ OrderInv(o) /\ OrderInv(o)'
        /\ At(o, pc[w], job[w])
    BY <1>1, WorkerFacts DEF Consistent
  <1>3. CASE AllQuiet
    BY <1>3, QuietPromise
  <1>4. ASSUME NEW p, Proceed(w, p) \/ FaultTo(w, p) PROVE AllQuiet
    BY <1>4, FrameQuiet DEF Proceed, FaultTo, rowVars, goodsVars, envVars
  <1>5. CASE UseCode(w) /\ ~AllQuiet
    <2>1. /\ pc[w] = "use" /\ code[o] = "unused"
          /\ granted' = [granted EXCEPT ![o] = @ + 1]
          /\ UNCHANGED <<rowVars, claimed, envVars>>
      BY <1>1, <1>4, <1>5 DEF UseCode
    <2>2. upstream[o] = "paid" /\ o \notin SubscriptionOrders
      BY <1>2, <2>1 DEF At, PaidPcs, LeasePcs
    <2>3. granted[o] = 0
      BY <1>2, <2>1, <2>2 DEF OrderInv, Delivered
    <2>4. /\ granted'[o] = 1
          /\ \A x \in Orders : x # o => granted'[x] = granted[x]
      BY <1>2, <2>1, <2>3 DEF GoodsTypeOK
    <2>5. Promise!Deliver(o)
      BY <2>1, <2>2, <2>3, <2>4, DeliverPromise DEF rowVars, envVars
    <2> QED
      BY <2>5 DEF Promise!PromiseNext
  <1>6. CASE AssignSubscription(w) /\ ~AllQuiet
    <2>1. /\ pc[w] = "assign"
          /\ granted' = IF assigned[o] THEN granted
                        ELSE [granted EXCEPT ![o] = @ + 1]
          /\ UNCHANGED <<rowVars, claimed, envVars>>
      BY <1>1, <1>4, <1>6 DEF AssignSubscription
    <2>2. upstream[o] = "paid" /\ o \in SubscriptionOrders
      BY <1>2, <2>1 DEF At, PaidPcs, LeasePcs
    <2>3. ~assigned[o]
      BY <1>6, <2>1, FrameQuiet DEF rowVars, envVars
    <2>4. granted[o] = 0
      BY <1>2, <2>2, <2>3 DEF OrderInv, Delivered
    <2>5. /\ granted'[o] = 1
          /\ \A x \in Orders : x # o => granted'[x] = granted[x]
      BY <1>2, <2>1, <2>3, <2>4 DEF GoodsTypeOK
    <2>6. Promise!Deliver(o)
      BY <2>1, <2>2, <2>4, <2>5, DeliverPromise DEF rowVars, envVars
    <2> QED
      BY <2>6 DEF Promise!PromiseNext
  <1>7. CASE ApplyRebate(w) /\ ~AllQuiet
    <2>1. /\ pc[w] = "rebate" /\ ~claimed[o]
          /\ claimed' = [claimed EXCEPT ![o] = TRUE]
          /\ UNCHANGED <<status, granted, upstream>>
      BY <1>1, <1>4, <1>7 DEF ApplyRebate, rowVars, envVars
    <2>2. granted[o] > 0
      BY <1>2, <2>1 DEF At, OrderInv
    <2>3. PromiseStage[o] = "delivered"
      BY <2>2 DEF PromiseStage, StageOf
    <2>4. Promise!DecideRebate(o)
      BY <2>1, <2>3 DEF Promise!DecideRebate, PromiseStage, StageOf
    <2> QED
      BY <2>4 DEF Promise!PromiseNext
  <1>8. CASE MarkCompleted(w) /\ ~AllQuiet
    <2>1. /\ pc[w] = "complete" /\ status[o] = "RECHARGING"
          /\ WriteRow(o, "COMPLETED") /\ UNCHANGED <<granted, claimed, upstream>>
      BY <1>1, <1>4, <1>8 DEF MarkCompleted, HoldsLease, goodsVars
    <2>2. \A x \in Orders :
             status'[x] = IF x = o THEN "COMPLETED" ELSE status[x]
      BY <1>2, <2>1, WriteRowAt
    <2>3. /\ ~PromiseClosed[o]
          /\ PromiseClosed' = [PromiseClosed EXCEPT ![o] = TRUE]
      BY <2>1, <2>2 DEF PromiseClosed, Settled
    <2>4. claimed[o]
      BY <1>2, <2>1 DEF At
    <2>5. Promise!Close(o)
      BY <2>1, <2>3, <2>4 DEF Promise!Close, PromiseClosed
    <2> QED
      BY <2>5 DEF Promise!PromiseNext
  <1> QED
    BY <1>3, <1>5, <1>6, <1>7, <1>8, OrderStepsQuiet, LeaseStepsQuiet DEF Step

\* Every step of the machine is a step of the promise or a stutter.
LEMMA NextPromise ==
    ASSUME Consistent, Consistent', [Next]_vars
    PROVE  [Promise!PromiseNext]_(Promise!promiseVars)
  <1>1. CASE AllQuiet
    BY <1>1, QuietPromise
  <1>2. CASE UNCHANGED vars
    BY <1>1, <1>2, FrameQuiet DEF vars, rowVars, goodsVars, envVars
  <1>3. ASSUME NEW w \in Workers, Crash(w) PROVE AllQuiet
    BY <1>3, FrameQuiet DEF Crash, ErrorReturn, rowVars, goodsVars
  <1>4. ASSUME NEW w \in Workers, NEW o \in Orders, Arrive(w, o)
        PROVE  AllQuiet
    <2>1. CASE CreateOrder(w, o)
      <3>1. /\ WriteRow(o, "PENDING") /\ status[o] = "NONE"
            /\ UNCHANGED <<goodsVars, envVars>>
        BY <2>1 DEF CreateOrder
      <3>2. RowTypeOK
        BY DEF Consistent, TypeOK
      <3> QED
        BY <3>1, <3>2, WriteQuiet DEF goodsVars, envVars, Settled
    <2>2. CASE ~CreateOrder(w, o)
      BY <1>4, <2>2, FrameQuiet
         DEF Arrive, Webhook, VerifyOrder, ReconcileOrder, CancelOrder,
             ExpireOrder, RetryFulfillment, rowVars, goodsVars, envVars
    <2> QED
      BY <2>1, <2>2
  <1>5. ASSUME NEW o \in Orders, Surroundings(o)
        PROVE  [Promise!PromiseNext]_(Promise!promiseVars)
    <2>1. RowTypeOK /\ EnvTypeOK /\ OrderInv(o)
      BY DEF Consistent, TypeOK
    <2>2. CASE Pay(o)
      <3>1. /\ upstream[o] = "unpaid"
            /\ upstream' = [upstream EXCEPT ![o] = "paid"]
            /\ UNCHANGED <<status, granted, claimed>>
        BY <2>2 DEF Pay, rowVars, goodsVars
      <3>2. granted[o] = 0
        BY <2>1, <3>1 DEF OrderInv
      <3>3. StageOf(o) = "open" /\ StageOf(o)' = "paid"
        BY <2>1, <3>1, <3>2 DEF StageOf, EnvTypeOK
      <3>4. \A x \in Orders : x # o => StageOf(x)' = StageOf(x)
        BY <2>1, <3>1 DEF StageOf, EnvTypeOK
      <3>5. /\ PromiseStage[o] = "open"
            /\ PromiseStage' = [PromiseStage EXCEPT ![o] = "paid"]
        BY <3>3, <3>4 DEF PromiseStage
      <3>6. Promise!Charge(o)
        BY <3>1, <3>5 DEF Promise!Charge, PromiseStage, StageOf
      <3> QED
        BY <3>6 DEF Promise!PromiseNext
    <2>3. CASE TimeOut(o) \/ Age(o)
      BY <1>1, <2>3, FrameQuiet DEF TimeOut, Age, rowVars, goodsVars, envVars
    <2>4. CASE MoveRefund(o)
      <3>1. /\ status[o] \in Settled /\ UNCHANGED <<goodsVars, envVars>>
            /\ \E s \in Settled : WriteRow(o, s)
        BY <2>4 DEF MoveRefund
      <3> QED
        BY <1>1, <2>1, <3>1, WriteQuiet DEF goodsVars, envVars
    <2> QED
      BY <1>5, <2>2, <2>3, <2>4 DEF Surroundings
  <1> QED
    BY <1>1, <1>2, <1>3, <1>4, <1>5, StepPromise DEF Next

\* The machine begins where the promise does.
LEMMA InitPromise == Init => Promise!PromiseInit
  <1> SUFFICES ASSUME Init PROVE Promise!PromiseInit
    OBVIOUS
  <1>1. \A o \in Orders : StageOf(o) = "open"
    BY DEF Init, StageOf
  <1>2. PromiseStage = [o \in Orders |-> "open"]
    BY <1>1 DEF PromiseStage
  <1>3. \A o \in Orders : (status[o] \in Settled) = FALSE
    BY DEF Init, Settled
  <1>4. PromiseClosed = [o \in Orders |-> FALSE]
    BY <1>3 DEF PromiseClosed
  <1>5. claimed = [o \in Orders |-> FALSE]
    BY DEF Init
  <1> QED
    BY <1>2, <1>4, <1>5
       DEF Promise!PromiseInit, PromiseStage, StageOf, PromiseClosed

\* The whole machine, with its leases, retries, crashes and repeated callbacks,
\* implements the promise: charged, delivered once, rebate decided once, closed.
THEOREM ImplementsPromise == Spec => KeepsPromise
  <1>1. Consistent /\ Consistent' /\ [Next]_vars =>
           [Promise!PromiseNext]_(Promise!promiseVars)
    BY NextPromise
  <1> QED
    BY <1>1, InitPromise, AlwaysConsistent, PTL
       DEF Spec, KeepsPromise, Promise!PromiseSpec

\* A step of the promise never reopens a closed order.
LEMMA ClosedStaysClosed ==
    ASSUME [Promise!PromiseNext]_(Promise!promiseVars), NEW o \in Orders,
           status[o] \in Settled
    PROVE  status'[o] \in Settled
  <1>1. PromiseClosed[o]
    BY DEF PromiseClosed
  <1>2. CASE PromiseClosed' = PromiseClosed
    BY <1>1, <1>2 DEF PromiseClosed
  <1>3. CASE \E x \in Orders :
                PromiseClosed' = [PromiseClosed EXCEPT ![x] = TRUE]
    <2>1. PromiseClosed'[o]
      BY <1>1, <1>3 DEF PromiseClosed
    <2> QED
      BY <2>1 DEF PromiseClosed
  <1> QED
    BY <1>2, <1>3
       DEF Promise!PromiseNext, Promise!promiseVars, Promise!Charge,
           Promise!Deliver, Promise!DecideRebate, Promise!Close, PromiseClosed

\* No late write of a worker takes an order out of COMPLETED or the refund
\* statuses.
THEOREM SettledStaysSettled == Spec => SettledIsFinal
  <1>1. Consistent /\ Consistent' /\ [Next]_vars =>
           [\A o \in Orders : status[o] \in Settled => status'[o] \in Settled]_vars
    BY NextPromise, ClosedStaysClosed
  <1> QED
    BY <1>1, AlwaysConsistent, PTL DEF Spec, SettledIsFinal
=============================================================================
