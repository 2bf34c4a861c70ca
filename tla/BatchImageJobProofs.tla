------------------------- MODULE BatchImageJobProofs -------------------------
(***************************************************************************)
(* Proofs about BatchImageJob.                                             *)
(***************************************************************************)
EXTENDS BatchImageJob, TLAPS

-----------------------------------------------------------------------------
(* The inductive invariant.                                                *)

Paid == {"completed", "output_deleted"}

BeforeRecord == {"create", "reserve", "items", "upload", "provider", "record",
                 "release", "withdraw", "fail", "refail"}

\* A worker between the decision to settle and its outcome.
SettlePcs == {"capture", "refuse", "exhaust", "settled"}

\* A job has left uploading exactly by being recorded with its provider job,
\* which only Submit does.
Recorded ==
    /\ ~named => status \in {"none", "created", "uploading"} \cup Ended
    /\ spc \in BeforeRecord => ~named
    /\ spc = "create" => status = "none"

\* Who is about to release the hold knows that the job has ended.
ReleaserKnows ==
    /\ upc = "release" => status \in Ended
    /\ rpc = "release" => status \in Ended
    /\ \A w \in Workers : wpc[w] = "release" => status \in Ended

\* Every claim but a void release moved money, and the steps after a claim
\* have it.
ClaimsKept ==
    /\ claims \ moves \subseteq {"release"}
    /\ status \in Paid => "capture" \in moves
    /\ \A w \in Workers :
        /\ wpc[w] = "settled" => "capture" \in moves
        /\ wpc[w] = "giveup" => "release" \in claims
    /\ spc \in {"fail", "hide"} => "release" \in claims \/ "hold" \notin claims
    /\ spc \in {"create", "reserve"} => "hold" \notin claims

\* The result was indexed: the price is that of what the provider delivered,
\* and neither changes any more.
Indexed == named /\ upstream = "succeeded" /\ price = output

PricedFirst ==
    /\ status \in Paid \cup {"settling"} => Indexed
    /\ \A w \in Workers : wpc[w] \in SettlePcs \cup {"settling"} => Indexed
    /\ \A w \in Workers : wpc[w] = "index" => named
    /\ "capture" \in moves => Indexed /\ charge = output

\* A worker that settles found the job settling, which it leaves for an outcome
\* only.
Settling ==
    \A w \in Workers :
        /\ wpc[w] \in SettlePcs => status \in Paid \cup {"settling", "failed"}
        /\ wpc[w] = "exhaust" => Spent

\* Where the job can be once its hold was released.
Refunded ==
    "release" \in moves =>
        \/ status \in Ended
        \/ ~named /\ spc \in {"fail", "hide", "refail", "retry", "done"}
        \/ Spent /\ status \in Paid \cup {"settling"}

\* Only the holder of the job lock works on the job.
Exclusive == \A w \in Workers : wpc[w] \in LockedPcs => lock = w

\* What a worker that works alone may rely on.
Alone ==
    /\ \A w \in Workers :
        /\ wpc[w] \in {"capture", "refuse", "exhaust"} => status \notin Paid
        /\ wpc[w] \in {"capture", "settled"} /\ status = "settling" =>
               "release" \notin moves \/ code # "SETTLEMENT"
        /\ wpc[w] = "process" => status # "settling"
    /\ status \in Paid => "release" \notin moves \/ code # "SETTLEMENT"

\* The money of the job is still to be charged or given back.
Unpaid == "release" \notin claims /\ "capture" \notin claims

\* A job whose money is owed is in one of the lists of Redis as long as anybody
\* works on it,
KeptInQueue ==
    /\ inflight => Queued
    /\ Unpaid => \A w \in Workers : wpc[w] # "idle" => Queued
    /\ \A w \in Workers :
        /\ wpc[w] = "ack" => ~Unpaid
        /\ wpc[w] \in SettlePcs \cup {"reread"} /\ Unpaid => status = "settling"

\* and once it has ended somebody has the task to give it back.
Charged ==
    Unpaid /\ status \in Ended /\ ("hold" \in claims \/ spc = "reserve") =>
        \/ Queued
        \/ spc \in {"release", "withdraw", "refail", "retry"}
        \/ upc \in {"release", "retry"}
        \/ rpc \in {"release", "retry"}

IInv ==
    /\ TypeOK
    /\ Recorded
    /\ ReleaserKnows
    /\ ClaimsKept
    /\ PricedFirst
    /\ Settling
    /\ Refunded
    /\ ~overlap => Exclusive /\ Alone /\ KeptInQueue
    /\ ~overlap /\ ~lost => Charged

-----------------------------------------------------------------------------
(* The operations on the money and on the queue keep their types.          *)

\* ReserveBalance keeps the types of what it writes.
LEMMA ReserveBalanceType ==
    ASSUME BillingTypeOK, ReserveBalance
    PROVE  BillingTypeOK'
<1>1. CASE Repeated("hold")
  BY <1>1 DEF BillingTypeOK, Repeated, billingVars
<1>2. CASE ~Repeated("hold")
  <2>1. balance' \in Nat /\ frozen' \in Nat /\ charge' \in Nat
    BY <1>2, HoldAssumption DEF BillingTypeOK, ReserveBalance, Move
  <2>2. claims' \subseteq Requests /\ moves' \subseteq claims'
    BY <1>2 DEF BillingTypeOK, ReserveBalance, Move, Requests
  <2> QED  BY <2>1, <2>2 DEF BillingTypeOK
<1> QED  BY <1>1, <1>2

\* CaptureBalance keeps the types of what it writes.
LEMMA CaptureBalanceType ==
    ASSUME BillingTypeOK, NEW cost \in Nat, CaptureBalance(cost)
    PROVE  BillingTypeOK'
<1>1. CASE Repeated("capture")
  BY <1>1 DEF BillingTypeOK, Repeated, billingVars
<1>2. CASE ~Repeated("capture")
  <2>1. balance' \in Nat /\ frozen' \in Nat /\ charge' \in Nat
    BY <1>2, HoldAssumption DEF BillingTypeOK, CaptureBalance, Move
  <2>2. claims' \subseteq Requests /\ moves' \subseteq claims'
    BY <1>2 DEF BillingTypeOK, CaptureBalance, Move, Requests
  <2> QED  BY <2>1, <2>2 DEF BillingTypeOK
<1> QED  BY <1>1, <1>2

\* ReleaseBalance keeps the types of what it writes.
LEMMA ReleaseBalanceType ==
    ASSUME BillingTypeOK, ReleaseBalance
    PROVE  BillingTypeOK'
<1>1. CASE Repeated("release")
  BY <1>1 DEF BillingTypeOK, Repeated, billingVars
<1>2. CASE SkipRelease
  BY <1>2 DEF BillingTypeOK, SkipRelease, Requests
<1>3. CASE ~Repeated("release") /\ ~SkipRelease
  <2>1. balance' \in Nat /\ frozen' \in Nat /\ charge' \in Nat
    BY <1>3, HoldAssumption DEF BillingTypeOK, ReleaseBalance, Move
  <2>2. claims' \subseteq Requests /\ moves' \subseteq claims'
    BY <1>3 DEF BillingTypeOK, ReleaseBalance, Move, Requests
  <2> QED  BY <2>1, <2>2 DEF BillingTypeOK
<1> QED  BY <1>1, <1>2, <1>3

\* Enqueue keeps the types of what it writes.
LEMMA EnqueueType ==
    ASSUME QueueTypeOK, Enqueue
    PROVE  QueueTypeOK'
<1>1. CASE inflight
  BY <1>1 DEF QueueTypeOK, Enqueue
<1>2. CASE ~inflight
  <2>1. ready' \in Nat
    BY <1>2 DEF QueueTypeOK, Enqueue
  <2> QED  BY <2>1 DEF QueueTypeOK, Enqueue
<1> QED  BY <1>1, <1>2

\* Reserve keeps the types of what it writes.
LEMMA ReserveType ==
    ASSUME QueueTypeOK, Reserve
    PROVE  QueueTypeOK'
<1>1. ready' \in Nat
  BY DEF QueueTypeOK, Reserve
<1> QED  BY <1>1 DEF QueueTypeOK, Reserve

\* RequeueAfter keeps the types of what it writes.
LEMMA RequeueAfterType ==
    ASSUME QueueTypeOK, RequeueAfter
    PROVE  QueueTypeOK'
  BY DEF QueueTypeOK, RequeueAfter

\* Ack keeps the types of what it writes.
LEMMA AckType ==
    ASSUME QueueTypeOK, Ack
    PROVE  QueueTypeOK'
  BY DEF QueueTypeOK, Ack

\* MoveDueDelayedToReady keeps the types of what it writes.
LEMMA MoveDueDelayedToReadyType ==
    ASSUME QueueTypeOK, MoveDueDelayedToReady
    PROVE  QueueTypeOK'
<1>1. ready' \in Nat
  BY DEF QueueTypeOK, MoveDueDelayedToReady
<1> QED  BY <1>1 DEF QueueTypeOK, MoveDueDelayedToReady

\* RecoverStaleActive keeps the types of what it writes.
LEMMA RecoverStaleActiveType ==
    ASSUME QueueTypeOK, RecoverStaleActive
    PROVE  QueueTypeOK'
<1>1. ready' \in Nat
  BY DEF QueueTypeOK, RecoverStaleActive
<1> QED  BY <1>1 DEF QueueTypeOK, RecoverStaleActive

\* A fault that is counted as a loss keeps the types of the history.
LEMMA LossType ==
    ASSUME MishapTypeOK, Loss
    PROVE  MishapTypeOK'
<1>1. faults' \in 0 .. MaxFaults
  BY JobAssumption DEF MishapTypeOK, Loss
<1> QED  BY <1>1 DEF MishapTypeOK, Loss

-----------------------------------------------------------------------------
(* Every action keeps the invariant.                                       *)

\* CreateJob keeps the invariant.
LEMMA CreateJobInv ==
    ASSUME IInv, CreateJob
    PROVE  IInv'
<1> USE DEF CreateJob, NoFault, SubmitTo, SetStatus, billingVars, queueVars,
        upVars, mishapVars
<1>1. TypeOK'
  <2>1. JobTypeOK'
    BY JobAssumption DEF IInv, TypeOK, JobTypeOK, Statuses, Terminal
  <2>2. PcTypeOK'
    BY DEF IInv, TypeOK, PcTypeOK, SubmitPcs, OwnerPcs, RecoveryPcs, WorkerPcs
  <2>3. BillingTypeOK' /\ QueueTypeOK' /\ UpTypeOK' /\ MishapTypeOK'
    BY DEF IInv, TypeOK, BillingTypeOK, QueueTypeOK, UpTypeOK, MishapTypeOK
  <2> QED  BY <2>1, <2>2, <2>3 DEF TypeOK
<1>2. Recorded'
  BY DEF IInv, Recorded, BeforeRecord, Ended
<1>3. ReleaserKnows'
  BY DEF IInv, TypeOK, PcTypeOK, ReleaserKnows, Ended, Recorded, BeforeRecord
<1>4. ClaimsKept'
  BY DEF IInv, TypeOK, PcTypeOK, ClaimsKept, Paid
<1>5. PricedFirst'
  BY DEF IInv, TypeOK, PcTypeOK, PricedFirst, Indexed, Paid, SettlePcs
<1>6. Settling'
  BY DEF IInv, TypeOK, PcTypeOK, Settling, Paid, SettlePcs, Spent,
     Recorded, BeforeRecord, Ended
<1>7. Refunded'
  BY DEF IInv, Refunded, Ended, Paid, Spent, Recorded, BeforeRecord
<1>8. ~overlap' => Alone'
  BY DEF IInv, TypeOK, PcTypeOK, Alone, Paid
<1>9. ~overlap' => KeptInQueue'
  BY DEF IInv, TypeOK, PcTypeOK, KeptInQueue, Queued, Unpaid, SettlePcs,
     Recorded, BeforeRecord, Ended, QueueTypeOK
<1>10. ~overlap' /\ ~lost' => Charged'
  BY DEF IInv, Charged, Unpaid, Ended, Queued
<1>11. ~overlap' => Exclusive'
  BY DEF IInv, Exclusive, LockedPcs
<1> QED  BY <1>1, <1>2, <1>3, <1>4, <1>5, <1>6, <1>7, <1>8, <1>9, <1>10, <1>11
         DEF IInv

\* SubmitReserve keeps the invariant.
LEMMA SubmitReserveInv ==
    ASSUME IInv, SubmitReserve
    PROVE  IInv'
<1> USE DEF SubmitReserve, SubmitTo, Fault, NoFault, billingVars, queueVars,
        jobVars, upVars, mishapVars
<1>1. TypeOK'
  <2>1. BillingTypeOK'
    BY ReserveBalanceType DEF IInv, TypeOK, BillingTypeOK
  <2>2. PcTypeOK'
    BY DEF IInv, TypeOK, PcTypeOK, SubmitPcs, OwnerPcs, RecoveryPcs, WorkerPcs
  <2>3. MishapTypeOK'
    BY JobAssumption DEF IInv, TypeOK, MishapTypeOK
  <2>4. QueueTypeOK' /\ JobTypeOK' /\ UpTypeOK'
    BY DEF IInv, TypeOK, QueueTypeOK, JobTypeOK, UpTypeOK
  <2> QED  BY <2>1, <2>2, <2>3, <2>4 DEF TypeOK
<1>2. Recorded'
  BY DEF IInv, Recorded, BeforeRecord, Ended
<1>3. ClaimsKept'
  BY DEF IInv, TypeOK, PcTypeOK, ClaimsKept, Paid, Repeated, Move,
     ReserveBalance, ReserveRefused
<1>4. PricedFirst'
  BY DEF IInv, TypeOK, PcTypeOK, PricedFirst, Indexed, Paid, SettlePcs,
     Repeated, Move, ReserveBalance, ReserveRefused
<1>5. Refunded'
  BY DEF IInv, Refunded, Ended, Paid, Spent, Repeated, Move,
     ReserveBalance, ReserveRefused
<1>6. ~overlap' => Alone'
  BY DEF IInv, TypeOK, PcTypeOK, Alone, Paid, Repeated, Move, ReserveBalance,
     ReserveRefused
<1>7. ~overlap' => KeptInQueue'
  BY DEF IInv, TypeOK, PcTypeOK, KeptInQueue, Queued, Unpaid, SettlePcs,
     Repeated, Move, ReserveBalance, ReserveRefused
<1>8. ~overlap' /\ ~lost' => Charged'
  BY DEF IInv, Charged, Unpaid, Ended, Queued, Repeated, Move, ReserveBalance,
     ReserveRefused
<1>9. ReleaserKnows' /\ Settling' /\ (~overlap' => Exclusive')
  BY DEF IInv, ReleaserKnows, Settling, Paid, SettlePcs, Spent, Exclusive,
     LockedPcs
<1> QED  BY <1>1, <1>2, <1>3, <1>4, <1>5, <1>6, <1>7, <1>8, <1>9 DEF IInv

\* SubmitItems keeps the invariant.
LEMMA SubmitItemsInv ==
    ASSUME IInv, SubmitItems
    PROVE  IInv'
<1> USE DEF SubmitItems, SubmitTo, Fault, NoFault, billingVars, queueVars,
        jobVars, upVars, mishapVars
<1>1. TypeOK'
  <2>1. PcTypeOK'
    BY DEF IInv, TypeOK, PcTypeOK, SubmitPcs, OwnerPcs, RecoveryPcs, WorkerPcs
  <2>2. MishapTypeOK'
    BY JobAssumption DEF IInv, TypeOK, MishapTypeOK
  <2>3. BillingTypeOK' /\ QueueTypeOK' /\ JobTypeOK' /\ UpTypeOK'
    BY DEF IInv, TypeOK, BillingTypeOK, QueueTypeOK, JobTypeOK, UpTypeOK
  <2> QED  BY <2>1, <2>2, <2>3 DEF TypeOK
<1>2. Recorded'
  BY DEF IInv, Recorded, BeforeRecord, Ended
<1>3. ClaimsKept'
  BY DEF IInv, TypeOK, PcTypeOK, ClaimsKept, Paid
<1>4. Refunded'
  BY DEF IInv, Refunded, Ended, Paid, Spent
<1>5. ~overlap' /\ ~lost' => Charged'
  BY DEF IInv, Charged, Unpaid, Ended, Queued
<1>6. ReleaserKnows' /\ PricedFirst' /\ Settling' /\ (~overlap' => Exclusive')
      /\ (~overlap' => Alone') /\ (~overlap' => KeptInQueue')
  BY DEF IInv, ReleaserKnows, PricedFirst, Indexed, Paid, SettlePcs, Settling,
     Spent, Exclusive, LockedPcs, Alone, KeptInQueue, Queued, Unpaid
<1> QED  BY <1>1, <1>2, <1>3, <1>4, <1>5, <1>6 DEF IInv

\* SubmitUpload keeps the invariant.
LEMMA SubmitUploadInv ==
    ASSUME IInv, SubmitUpload
    PROVE  IInv'
<1> USE DEF SubmitUpload, SubmitTo, Fault, NoFault, Transition, SetStatus,
        billingVars, queueVars, jobVars, upVars, mishapVars
<1>1. TypeOK'
  <2>1. JobTypeOK'
    BY JobAssumption DEF IInv, TypeOK, JobTypeOK, Statuses, Terminal,
       CanTransition
  <2>2. PcTypeOK'
    BY DEF IInv, TypeOK, PcTypeOK, SubmitPcs, OwnerPcs, RecoveryPcs,
       WorkerPcs, Terminal, CanTransition
  <2>3. MishapTypeOK'
    BY JobAssumption DEF IInv, TypeOK, MishapTypeOK
  <2>4. BillingTypeOK' /\ QueueTypeOK' /\ UpTypeOK'
    BY DEF IInv, TypeOK, BillingTypeOK, QueueTypeOK, UpTypeOK
  <2> QED  BY <2>1, <2>2, <2>3, <2>4 DEF TypeOK
<1>2. Recorded'
  BY DEF IInv, Recorded, BeforeRecord, Ended, Terminal, CanTransition
<1>3. ReleaserKnows'
  BY DEF IInv, TypeOK, PcTypeOK, ReleaserKnows, Ended, Terminal, CanTransition
<1>4. ClaimsKept'
  BY DEF IInv, TypeOK, PcTypeOK, ClaimsKept, Paid, Terminal, CanTransition
<1>5. PricedFirst'
  BY DEF IInv, TypeOK, PcTypeOK, PricedFirst, Indexed, Paid, SettlePcs,
     Terminal, CanTransition
<1>6. Settling'
  BY DEF IInv, TypeOK, PcTypeOK, Settling, Paid, SettlePcs, Spent,
     Terminal, CanTransition
<1>7. Refunded'
  BY DEF IInv, Refunded, Ended, Paid, Spent, Terminal, CanTransition
<1>8. ~overlap' => Alone'
  BY DEF IInv, TypeOK, PcTypeOK, Alone, Paid, Terminal, CanTransition
<1>9. ~overlap' => KeptInQueue'
  BY DEF IInv, TypeOK, PcTypeOK, KeptInQueue, Queued, Unpaid, SettlePcs,
     Terminal, CanTransition
<1>10. ~overlap' /\ ~lost' => Charged'
  BY DEF IInv, Charged, Unpaid, Ended, Queued, Terminal, CanTransition
<1>11. ~overlap' => Exclusive'
  BY DEF IInv, Exclusive, LockedPcs
<1> QED  BY <1>1, <1>2, <1>3, <1>4, <1>5, <1>6, <1>7, <1>8, <1>9, <1>10, <1>11
         DEF IInv

\* SubmitProvider keeps the invariant.
LEMMA SubmitProviderInv ==
    ASSUME IInv, SubmitProvider
    PROVE  IInv'
<1> USE DEF SubmitProvider, SubmitTo, Fault, NoFault, billingVars, queueVars,
        jobVars, upVars, mishapVars
<1>1. TypeOK'
  <2>1. UpTypeOK'
    BY DEF IInv, TypeOK, UpTypeOK
  <2>2. PcTypeOK'
    BY DEF IInv, TypeOK, PcTypeOK, SubmitPcs, OwnerPcs, RecoveryPcs, WorkerPcs
  <2>3. MishapTypeOK'
    BY JobAssumption DEF IInv, TypeOK, MishapTypeOK
  <2>4. BillingTypeOK' /\ QueueTypeOK' /\ JobTypeOK'
    BY DEF IInv, TypeOK, BillingTypeOK, QueueTypeOK, JobTypeOK
  <2> QED  BY <2>1, <2>2, <2>3, <2>4 DEF TypeOK
<1>2. Recorded'
  BY DEF IInv, Recorded, BeforeRecord, Ended
<1>3. ClaimsKept'
  BY DEF IInv, TypeOK, PcTypeOK, ClaimsKept, Paid
<1>4. PricedFirst'
  BY DEF IInv, TypeOK, PcTypeOK, PricedFirst, Indexed, Paid, SettlePcs,
     Recorded, BeforeRecord, Ended
<1>5. Refunded'
  BY DEF IInv, Refunded, Ended, Paid, Spent
<1>6. ~overlap' /\ ~lost' => Charged'
  BY DEF IInv, Charged, Unpaid, Ended, Queued
<1>7. ReleaserKnows' /\ Settling' /\ (~overlap' => Exclusive') /\ (~overlap'
      => Alone') /\ (~overlap' => KeptInQueue')
  BY DEF IInv, ReleaserKnows, Settling, Paid, SettlePcs, Spent, Exclusive,
     LockedPcs, Alone, KeptInQueue, Queued, Unpaid
<1> QED  BY <1>1, <1>2, <1>3, <1>4, <1>5, <1>6, <1>7 DEF IInv

\* RecordProviderJob keeps the invariant.
LEMMA RecordProviderJobInv ==
    ASSUME IInv, RecordProviderJob
    PROVE  IInv'
<1> USE DEF RecordProviderJob, SubmitTo, Fault, NoFault, billingVars,
        queueVars, jobVars, upVars, mishapVars
<1>1. TypeOK'
  <2>1. JobTypeOK'
    BY JobAssumption DEF IInv, TypeOK, JobTypeOK, Statuses, Terminal,
       CanTransition
  <2>2. PcTypeOK'
    BY DEF IInv, TypeOK, PcTypeOK, SubmitPcs, OwnerPcs, RecoveryPcs,
       WorkerPcs, Terminal, CanTransition
  <2>3. MishapTypeOK'
    BY JobAssumption DEF IInv, TypeOK, MishapTypeOK
  <2>4. BillingTypeOK' /\ QueueTypeOK' /\ UpTypeOK'
    BY DEF IInv, TypeOK, BillingTypeOK, QueueTypeOK, UpTypeOK
  <2> QED  BY <2>1, <2>2, <2>3, <2>4 DEF TypeOK
<1>2. Recorded'
  BY DEF IInv, Recorded, BeforeRecord, Ended, Terminal, CanTransition
<1>3. ReleaserKnows'
  BY DEF IInv, TypeOK, PcTypeOK, ReleaserKnows, Ended, Terminal, CanTransition
<1>4. ClaimsKept'
  BY DEF IInv, TypeOK, PcTypeOK, ClaimsKept, Paid, Terminal, CanTransition
<1>5. PricedFirst'
  BY DEF IInv, TypeOK, PcTypeOK, PricedFirst, Indexed, Paid, SettlePcs,
     Terminal, CanTransition
<1>6. Settling'
  BY DEF IInv, TypeOK, PcTypeOK, Settling, Paid, SettlePcs, Spent,
     Terminal, CanTransition
<1>7. Refunded'
  BY DEF IInv, Refunded, Ended, Paid, Spent, Terminal, CanTransition
<1>8. ~overlap' => Alone'
  BY DEF IInv, TypeOK, PcTypeOK, Alone, Paid, Terminal, CanTransition
<1>9. ~overlap' => KeptInQueue'
  BY DEF IInv, TypeOK, PcTypeOK, KeptInQueue, Queued, Unpaid, SettlePcs,
     Terminal, CanTransition
<1>10. ~overlap' /\ ~lost' => Charged'
  BY DEF IInv, Charged, Unpaid, Ended, Queued, Terminal, CanTransition
<1>11. ~overlap' => Exclusive'
  BY DEF IInv, Exclusive, LockedPcs
<1> QED  BY <1>1, <1>2, <1>3, <1>4, <1>5, <1>6, <1>7, <1>8, <1>9, <1>10, <1>11
         DEF IInv

\* AbortOrphan keeps the invariant.
LEMMA AbortOrphanInv ==
    ASSUME IInv, AbortOrphan
    PROVE  IInv'
<1> USE DEF AbortOrphan, SubmitTo, Fault, NoFault, CancelUpstream,
        billingVars, queueVars, jobVars, upVars, mishapVars
<1>1. TypeOK'
  <2>1. UpTypeOK'
    BY DEF IInv, TypeOK, UpTypeOK
  <2>2. PcTypeOK'
    BY DEF IInv, TypeOK, PcTypeOK, SubmitPcs, OwnerPcs, RecoveryPcs, WorkerPcs
  <2>3. MishapTypeOK'
    BY JobAssumption DEF IInv, TypeOK, MishapTypeOK
  <2>4. BillingTypeOK' /\ QueueTypeOK' /\ JobTypeOK'
    BY DEF IInv, TypeOK, BillingTypeOK, QueueTypeOK, JobTypeOK
  <2> QED  BY <2>1, <2>2, <2>3, <2>4 DEF TypeOK
<1>2. Recorded'
  BY DEF IInv, Recorded, BeforeRecord, Ended
<1>3. ClaimsKept'
  BY DEF IInv, TypeOK, PcTypeOK, ClaimsKept, Paid
<1>4. PricedFirst'
  BY DEF IInv, TypeOK, PcTypeOK, PricedFirst, Indexed, Paid, SettlePcs
<1>5. Refunded'
  BY DEF IInv, Refunded, Ended, Paid, Spent
<1>6. ~overlap' /\ ~lost' => Charged'
  BY DEF IInv, Charged, Unpaid, Ended, Queued
<1>7. ReleaserKnows' /\ Settling' /\ (~overlap' => Exclusive') /\ (~overlap'
      => Alone') /\ (~overlap' => KeptInQueue')
  BY DEF IInv, ReleaserKnows, Settling, Paid, SettlePcs, Spent, Exclusive,
     LockedPcs, Alone, KeptInQueue, Queued, Unpaid
<1> QED  BY <1>1, <1>2, <1>3, <1>4, <1>5, <1>6, <1>7 DEF IInv

\* SubmitEnqueue keeps the invariant.
LEMMA SubmitEnqueueInv ==
    ASSUME IInv, SubmitEnqueue
    PROVE  IInv'
<1> USE DEF SubmitEnqueue, RecordQueueFailure, SubmitTo, NoFault, billingVars,
        queueVars, jobVars, upVars, mishapVars
<1>1. TypeOK'
  <2>1. QueueTypeOK'
    BY EnqueueType DEF IInv, TypeOK, QueueTypeOK
  <2>2. PcTypeOK'
    BY DEF IInv, TypeOK, PcTypeOK, SubmitPcs, OwnerPcs, RecoveryPcs, WorkerPcs
  <2>3. MishapTypeOK'
    BY LossType DEF IInv, TypeOK, MishapTypeOK
  <2>4. BillingTypeOK' /\ JobTypeOK' /\ UpTypeOK'
    BY DEF IInv, TypeOK, BillingTypeOK, JobTypeOK, UpTypeOK
  <2> QED  BY <2>1, <2>2, <2>3, <2>4 DEF TypeOK
<1>2. Recorded'
  BY DEF IInv, Recorded, BeforeRecord, Ended
<1>3. ClaimsKept'
  BY DEF IInv, TypeOK, PcTypeOK, ClaimsKept, Paid
<1>4. Refunded'
  BY DEF IInv, Refunded, Ended, Paid, Spent
<1>5. ~overlap' => KeptInQueue'
  BY DEF IInv, TypeOK, PcTypeOK, KeptInQueue, Queued, Unpaid, SettlePcs,
     Recorded, BeforeRecord, Ended, QueueTypeOK, Enqueue, Loss
<1>6. ~overlap' /\ ~lost' => Charged'
  BY DEF IInv, TypeOK, Charged, Unpaid, Ended, Queued, Recorded, BeforeRecord,
     QueueTypeOK, Enqueue, Loss
<1>7. ReleaserKnows' /\ PricedFirst' /\ Settling' /\ (~overlap' => Exclusive')
      /\ (~overlap' => Alone')
  BY DEF IInv, ReleaserKnows, PricedFirst, Indexed, Paid, SettlePcs, Settling,
     Spent, Exclusive, LockedPcs, Alone, Enqueue, Loss
<1> QED  BY <1>1, <1>2, <1>3, <1>4, <1>5, <1>6, <1>7 DEF IInv

\* SubmitRelease keeps the invariant.
LEMMA SubmitReleaseInv ==
    ASSUME IInv, SubmitRelease
    PROVE  IInv'
<1> USE DEF SubmitRelease, SubmitTo, ReleaseFails, Fault, NoFault,
        billingVars, queueVars, jobVars, upVars, mishapVars
<1>1. TypeOK'
  <2>1. BillingTypeOK'
    BY ReleaseBalanceType DEF IInv, TypeOK, BillingTypeOK
  <2>2. PcTypeOK'
    BY DEF IInv, TypeOK, PcTypeOK, SubmitPcs, OwnerPcs, RecoveryPcs, WorkerPcs
  <2>3. MishapTypeOK'
    BY JobAssumption DEF IInv, TypeOK, MishapTypeOK
  <2>4. QueueTypeOK' /\ JobTypeOK' /\ UpTypeOK'
    BY DEF IInv, TypeOK, QueueTypeOK, JobTypeOK, UpTypeOK
  <2> QED  BY <2>1, <2>2, <2>3, <2>4 DEF TypeOK
<1>2. Recorded'
  BY DEF IInv, Recorded, BeforeRecord, Ended
<1>3. ClaimsKept'
  BY DEF IInv, TypeOK, PcTypeOK, ClaimsKept, Paid, Repeated, Move,
     SkipRelease, ReleaseBalance, ReleaseRefused
<1>4. PricedFirst'
  BY DEF IInv, TypeOK, PcTypeOK, PricedFirst, Indexed, Paid, SettlePcs,
     Repeated, Move, SkipRelease, ReleaseBalance, ReleaseRefused
<1>5. Refunded'
  BY DEF IInv, Refunded, Ended, Paid, Spent, Recorded, BeforeRecord,
     Repeated, Move, SkipRelease, ReleaseBalance, ReleaseRefused
<1>6. ~overlap' => Alone'
  BY DEF IInv, TypeOK, PcTypeOK, Alone, Paid, Recorded, BeforeRecord, Ended,
     Repeated, Move, SkipRelease, ReleaseBalance, ReleaseRefused
<1>7. ~overlap' => KeptInQueue'
  BY DEF IInv, TypeOK, PcTypeOK, KeptInQueue, Queued, Unpaid, SettlePcs,
     Repeated, Move, SkipRelease, ReleaseBalance, ReleaseRefused
<1>8. ~overlap' /\ ~lost' => Charged'
  BY DEF IInv, Charged, Unpaid, Ended, Queued, Repeated, Move, SkipRelease,
     ReleaseBalance, ReleaseRefused
<1>9. ReleaserKnows' /\ Settling' /\ (~overlap' => Exclusive')
  BY DEF IInv, ReleaserKnows, Settling, Paid, SettlePcs, Spent, Exclusive,
     LockedPcs
<1> QED  BY <1>1, <1>2, <1>3, <1>4, <1>5, <1>6, <1>7, <1>8, <1>9 DEF IInv

\* RecordSubmitFailure keeps the invariant.
LEMMA RecordSubmitFailureInv ==
    ASSUME IInv, RecordSubmitFailure
    PROVE  IInv'
<1> USE DEF RecordSubmitFailure, SubmitTo, Fault, NoFault, SetStatus,
        billingVars, queueVars, jobVars, upVars, mishapVars
<1>1. TypeOK'
  <2>1. JobTypeOK'
    BY JobAssumption DEF IInv, TypeOK, JobTypeOK, Statuses, Terminal
  <2>2. PcTypeOK'
    BY DEF IInv, TypeOK, PcTypeOK, SubmitPcs, OwnerPcs, RecoveryPcs, WorkerPcs
  <2>3. MishapTypeOK'
    BY JobAssumption DEF IInv, TypeOK, MishapTypeOK
  <2>4. BillingTypeOK' /\ QueueTypeOK' /\ UpTypeOK'
    BY DEF IInv, TypeOK, BillingTypeOK, QueueTypeOK, UpTypeOK
  <2> QED  BY <2>1, <2>2, <2>3, <2>4 DEF TypeOK
<1>2. Recorded'
  BY DEF IInv, Recorded, BeforeRecord, Ended
<1>3. ReleaserKnows'
  BY DEF IInv, TypeOK, PcTypeOK, ReleaserKnows, Ended
<1>4. ClaimsKept'
  BY DEF IInv, TypeOK, PcTypeOK, ClaimsKept, Paid
<1>5. PricedFirst'
  BY DEF IInv, TypeOK, PcTypeOK, PricedFirst, Indexed, Paid, SettlePcs
<1>6. Settling'
  BY DEF IInv, TypeOK, PcTypeOK, Settling, Paid, SettlePcs, Spent
<1>7. Refunded'
  BY DEF IInv, Refunded, Ended, Paid, Spent
<1>8. ~overlap' => Alone'
  BY DEF IInv, TypeOK, PcTypeOK, Alone, Paid
<1>9. ~overlap' => KeptInQueue'
  BY DEF IInv, TypeOK, PcTypeOK, KeptInQueue, Queued, Unpaid, SettlePcs,
     Recorded, BeforeRecord, Ended, QueueTypeOK
<1>10. ~overlap' /\ ~lost' => Charged'
  BY DEF IInv, TypeOK, Charged, Unpaid, Ended, Queued, Recorded, BeforeRecord,
     QueueTypeOK, KeptInQueue, SettlePcs, ClaimsKept, Paid
<1>11. ~overlap' => Exclusive'
  BY DEF IInv, Exclusive, LockedPcs
<1> QED  BY <1>1, <1>2, <1>3, <1>4, <1>5, <1>6, <1>7, <1>8, <1>9, <1>10, <1>11
         DEF IInv

\* HideFailure keeps the invariant.
LEMMA HideFailureInv ==
    ASSUME IInv, HideFailure
    PROVE  IInv'
<1> USE DEF HideFailure, SubmitTo, Fault, NoFault, billingVars, queueVars,
        upVars, mishapVars
<1>1. TypeOK'
  <2>1. JobTypeOK'
    <3>1. (status \in Terminal) \in BOOLEAN
      OBVIOUS
    <3>2. hidden' \in BOOLEAN
      BY <3>1 DEF IInv, TypeOK, JobTypeOK
    <3> QED  BY <3>2 DEF IInv, TypeOK, JobTypeOK
  <2>2. PcTypeOK'
    BY DEF IInv, TypeOK, PcTypeOK, SubmitPcs, OwnerPcs, RecoveryPcs,
       WorkerPcs, Terminal
  <2>3. MishapTypeOK'
    BY JobAssumption DEF IInv, TypeOK, MishapTypeOK
  <2>4. BillingTypeOK' /\ QueueTypeOK' /\ UpTypeOK'
    BY DEF IInv, TypeOK, BillingTypeOK, QueueTypeOK, UpTypeOK
  <2> QED  BY <2>1, <2>2, <2>3, <2>4 DEF TypeOK
<1>2. Recorded'
  BY DEF IInv, Recorded, BeforeRecord, Ended, Terminal
<1>3. ClaimsKept'
  BY DEF IInv, TypeOK, PcTypeOK, ClaimsKept, Paid, Terminal
<1>4. Refunded'
  BY DEF IInv, Refunded, Ended, Paid, Spent, Terminal
<1>5. ~overlap' /\ ~lost' => Charged'
  BY DEF IInv, Charged, Unpaid, Ended, Queued, Terminal
<1>6. ReleaserKnows' /\ PricedFirst' /\ Settling' /\ (~overlap' => Exclusive')
      /\ (~overlap' => Alone') /\ (~overlap' => KeptInQueue')
  BY DEF IInv, ReleaserKnows, PricedFirst, Indexed, Paid, SettlePcs, Settling,
     Spent, Exclusive, LockedPcs, Alone, KeptInQueue, Queued, Unpaid
<1> QED  BY <1>1, <1>2, <1>3, <1>4, <1>5, <1>6 DEF IInv

\* SubmitRetry keeps the invariant.
LEMMA SubmitRetryInv ==
    ASSUME IInv, SubmitRetry
    PROVE  IInv'
<1> USE DEF SubmitRetry, SubmitTo, NoFault, billingVars, queueVars, jobVars,
        upVars, mishapVars
<1>1. TypeOK'
  <2>1. QueueTypeOK'
    BY EnqueueType DEF IInv, TypeOK, QueueTypeOK
  <2>2. PcTypeOK'
    BY DEF IInv, TypeOK, PcTypeOK, SubmitPcs, OwnerPcs, RecoveryPcs, WorkerPcs
  <2>3. MishapTypeOK'
    BY LossType DEF IInv, TypeOK, MishapTypeOK
  <2>4. BillingTypeOK' /\ JobTypeOK' /\ UpTypeOK'
    BY DEF IInv, TypeOK, BillingTypeOK, JobTypeOK, UpTypeOK
  <2> QED  BY <2>1, <2>2, <2>3, <2>4 DEF TypeOK
<1>2. Recorded'
  BY DEF IInv, Recorded, BeforeRecord, Ended
<1>3. ClaimsKept'
  BY DEF IInv, TypeOK, PcTypeOK, ClaimsKept, Paid
<1>4. Refunded'
  BY DEF IInv, Refunded, Ended, Paid, Spent
<1>5. ~overlap' => KeptInQueue'
  BY DEF IInv, TypeOK, PcTypeOK, KeptInQueue, Queued, Unpaid, SettlePcs,
     Recorded, BeforeRecord, Ended, QueueTypeOK, Enqueue, Loss
<1>6. ~overlap' /\ ~lost' => Charged'
  BY DEF IInv, TypeOK, Charged, Unpaid, Ended, Queued, Recorded, BeforeRecord,
     QueueTypeOK, KeptInQueue, SettlePcs, ClaimsKept, Paid, Enqueue, Loss
<1>7. ReleaserKnows' /\ PricedFirst' /\ Settling' /\ (~overlap' => Exclusive')
      /\ (~overlap' => Alone')
  BY DEF IInv, ReleaserKnows, PricedFirst, Indexed, Paid, SettlePcs, Settling,
     Spent, Exclusive, LockedPcs, Alone, Enqueue, Loss
<1> QED  BY <1>1, <1>2, <1>3, <1>4, <1>5, <1>6, <1>7 DEF IInv

\* SubmitAgain keeps the invariant.
LEMMA SubmitAgainInv ==
    ASSUME IInv, SubmitAgain
    PROVE  IInv'
<1> USE DEF SubmitAgain, NoFault, OwnerTo, billingVars, queueVars, jobVars,
        upVars, mishapVars
<1>1. TypeOK'
  <2>1. PcTypeOK'
    BY DEF IInv, TypeOK, PcTypeOK, SubmitPcs, OwnerPcs, RecoveryPcs, WorkerPcs
  <2>2. BillingTypeOK' /\ QueueTypeOK' /\ JobTypeOK' /\ UpTypeOK' /\
        MishapTypeOK'
    BY DEF IInv, TypeOK, BillingTypeOK, QueueTypeOK, JobTypeOK, UpTypeOK,
       MishapTypeOK
  <2> QED  BY <2>1, <2>2 DEF TypeOK
<1>2. ReleaserKnows'
  BY DEF IInv, TypeOK, PcTypeOK, ReleaserKnows, Ended
<1>3. ~overlap' /\ ~lost' => Charged'
  BY DEF IInv, Charged, Unpaid, Ended, Queued
<1>4. Recorded' /\ ClaimsKept' /\ PricedFirst' /\ Settling' /\ Refunded' /\
      (~overlap' => Exclusive') /\ (~overlap' => Alone') /\ (~overlap' =>
      KeptInQueue')
  BY DEF IInv, Recorded, BeforeRecord, ClaimsKept, Paid, PricedFirst, Indexed,
     SettlePcs, Settling, Spent, Refunded, Exclusive, LockedPcs, Alone,
     KeptInQueue, Queued, Unpaid
<1> QED  BY <1>1, <1>2, <1>3, <1>4 DEF IInv

\* Cancel keeps the invariant.
LEMMA CancelInv ==
    ASSUME IInv, Cancel
    PROVE  IInv'
<1> USE DEF Cancel, NoFault, OwnerTo, billingVars, queueVars, jobVars, upVars,
        mishapVars
<1>1. TypeOK'
  <2>1. PcTypeOK'
    BY DEF IInv, TypeOK, PcTypeOK, SubmitPcs, OwnerPcs, RecoveryPcs,
       WorkerPcs, Terminal, Done, Ended
  <2>2. BillingTypeOK' /\ QueueTypeOK' /\ JobTypeOK' /\ UpTypeOK' /\
        MishapTypeOK'
    BY DEF IInv, TypeOK, BillingTypeOK, QueueTypeOK, JobTypeOK, UpTypeOK,
       MishapTypeOK
  <2> QED  BY <2>1, <2>2 DEF TypeOK
<1>2. ReleaserKnows'
  BY DEF IInv, TypeOK, PcTypeOK, ReleaserKnows, Ended, Terminal, Done
<1>3. ~overlap' /\ ~lost' => Charged'
  BY DEF IInv, Charged, Unpaid, Ended, Queued, Terminal, Done
<1>4. Recorded' /\ ClaimsKept' /\ PricedFirst' /\ Settling' /\ Refunded' /\
      (~overlap' => Exclusive') /\ (~overlap' => Alone') /\ (~overlap' =>
      KeptInQueue')
  BY DEF IInv, Recorded, BeforeRecord, ClaimsKept, Paid, PricedFirst, Indexed,
     SettlePcs, Settling, Spent, Refunded, Exclusive, LockedPcs, Alone,
     KeptInQueue, Queued, Unpaid
<1> QED  BY <1>1, <1>2, <1>3, <1>4 DEF IInv

\* CancelProviderJob keeps the invariant.
LEMMA CancelProviderJobInv ==
    ASSUME IInv, CancelProviderJob
    PROVE  IInv'
<1> USE DEF CancelProviderJob, OwnerTo, Fault, NoFault, CancelUpstream,
        billingVars, queueVars, jobVars, upVars, mishapVars
<1>1. TypeOK'
  <2>1. UpTypeOK'
    BY DEF IInv, TypeOK, UpTypeOK
  <2>2. PcTypeOK'
    BY DEF IInv, TypeOK, PcTypeOK, SubmitPcs, OwnerPcs, RecoveryPcs, WorkerPcs
  <2>3. MishapTypeOK'
    BY JobAssumption DEF IInv, TypeOK, MishapTypeOK
  <2>4. BillingTypeOK' /\ QueueTypeOK' /\ JobTypeOK'
    BY DEF IInv, TypeOK, BillingTypeOK, QueueTypeOK, JobTypeOK
  <2> QED  BY <2>1, <2>2, <2>3, <2>4 DEF TypeOK
<1>2. ReleaserKnows'
  BY DEF IInv, TypeOK, PcTypeOK, ReleaserKnows, Ended
<1>3. PricedFirst'
  BY DEF IInv, TypeOK, PcTypeOK, PricedFirst, Indexed, Paid, SettlePcs
<1>4. ~overlap' /\ ~lost' => Charged'
  BY DEF IInv, Charged, Unpaid, Ended, Queued
<1>5. Recorded' /\ ClaimsKept' /\ Settling' /\ Refunded' /\ (~overlap' =>
      Exclusive') /\ (~overlap' => Alone') /\ (~overlap' => KeptInQueue')
  BY DEF IInv, Recorded, BeforeRecord, ClaimsKept, Paid, Settling, SettlePcs,
     Spent, Refunded, Exclusive, LockedPcs, Alone, KeptInQueue, Queued,
     Unpaid
<1> QED  BY <1>1, <1>2, <1>3, <1>4, <1>5 DEF IInv

\* OwnerEnqueue keeps the invariant.
LEMMA OwnerEnqueueInv ==
    ASSUME IInv, OwnerEnqueue
    PROVE  IInv'
<1> USE DEF OwnerEnqueue, RecordQueueFailure, OwnerTo, Fault, NoFault,
        billingVars, queueVars, jobVars, upVars, mishapVars
<1>1. TypeOK'
  <2>1. QueueTypeOK'
    BY EnqueueType DEF IInv, TypeOK, QueueTypeOK
  <2>2. PcTypeOK'
    BY DEF IInv, TypeOK, PcTypeOK, SubmitPcs, OwnerPcs, RecoveryPcs, WorkerPcs
  <2>3. MishapTypeOK'
    BY JobAssumption DEF IInv, TypeOK, MishapTypeOK
  <2>4. BillingTypeOK' /\ JobTypeOK' /\ UpTypeOK'
    BY DEF IInv, TypeOK, BillingTypeOK, JobTypeOK, UpTypeOK
  <2> QED  BY <2>1, <2>2, <2>3, <2>4 DEF TypeOK
<1>2. ReleaserKnows'
  BY DEF IInv, TypeOK, PcTypeOK, ReleaserKnows, Ended
<1>3. ~overlap' => KeptInQueue'
  BY DEF IInv, TypeOK, PcTypeOK, KeptInQueue, Queued, Unpaid, SettlePcs,
     Recorded, BeforeRecord, Ended, QueueTypeOK, Enqueue
<1>4. ~overlap' /\ ~lost' => Charged'
  BY DEF IInv, TypeOK, Charged, Unpaid, Ended, Queued, Recorded, BeforeRecord,
     QueueTypeOK, Enqueue
<1>5. Recorded' /\ ClaimsKept' /\ PricedFirst' /\ Settling' /\ Refunded' /\
      (~overlap' => Exclusive') /\ (~overlap' => Alone')
  BY DEF IInv, Recorded, BeforeRecord, ClaimsKept, Paid, PricedFirst, Indexed,
     SettlePcs, Settling, Spent, Refunded, Exclusive, LockedPcs, Alone,
     Enqueue
<1> QED  BY <1>1, <1>2, <1>3, <1>4, <1>5 DEF IInv

\* CancelUnsubmitted keeps the invariant.
LEMMA CancelUnsubmittedInv ==
    ASSUME IInv, CancelUnsubmitted
    PROVE  IInv'
<1> USE DEF CancelUnsubmitted, OwnerTo, Fault, NoFault, Transition, SetStatus,
        billingVars, queueVars, jobVars, upVars, mishapVars
<1>1. TypeOK'
  <2>1. JobTypeOK'
    BY JobAssumption DEF IInv, TypeOK, JobTypeOK, Statuses, Terminal,
       CanTransition
  <2>2. PcTypeOK'
    BY DEF IInv, TypeOK, PcTypeOK, SubmitPcs, OwnerPcs, RecoveryPcs,
       WorkerPcs, Terminal, CanTransition
  <2>3. MishapTypeOK'
    BY JobAssumption DEF IInv, TypeOK, MishapTypeOK
  <2>4. BillingTypeOK' /\ QueueTypeOK' /\ UpTypeOK'
    BY DEF IInv, TypeOK, BillingTypeOK, QueueTypeOK, UpTypeOK
  <2> QED  BY <2>1, <2>2, <2>3, <2>4 DEF TypeOK
<1>2. Recorded'
  BY DEF IInv, Recorded, BeforeRecord, Ended, Terminal, CanTransition
<1>3. ReleaserKnows'
  BY DEF IInv, TypeOK, PcTypeOK, ReleaserKnows, Ended, Terminal, CanTransition
<1>4. ClaimsKept'
  BY DEF IInv, TypeOK, PcTypeOK, ClaimsKept, Paid, Terminal, CanTransition
<1>5. PricedFirst'
  BY DEF IInv, TypeOK, PcTypeOK, PricedFirst, Indexed, Paid, SettlePcs,
     Terminal, CanTransition
<1>6. Settling'
  BY DEF IInv, TypeOK, PcTypeOK, Settling, Paid, SettlePcs, Spent,
     Terminal, CanTransition
<1>7. Refunded'
  BY DEF IInv, Refunded, Ended, Paid, Spent, Terminal, CanTransition
<1>8. ~overlap' => Alone'
  BY DEF IInv, TypeOK, PcTypeOK, Alone, Paid, Terminal, CanTransition
<1>9. ~overlap' => KeptInQueue'
  BY DEF IInv, TypeOK, PcTypeOK, KeptInQueue, Queued, Unpaid, SettlePcs,
     Terminal, CanTransition
<1>10. ~overlap' /\ ~lost' => Charged'
  BY DEF IInv, Charged, Unpaid, Ended, Queued, Terminal, CanTransition
<1>11. ~overlap' => Exclusive'
  BY DEF IInv, Exclusive, LockedPcs
<1> QED  BY <1>1, <1>2, <1>3, <1>4, <1>5, <1>6, <1>7, <1>8, <1>9, <1>10, <1>11
         DEF IInv

\* OwnerRelease keeps the invariant.
LEMMA OwnerReleaseInv ==
    ASSUME IInv, OwnerRelease
    PROVE  IInv'
<1> USE DEF OwnerRelease, OwnerTo, ReleaseFails, Fault, NoFault, billingVars,
        queueVars, jobVars, upVars, mishapVars
<1>1. TypeOK'
  <2>1. BillingTypeOK'
    BY ReleaseBalanceType DEF IInv, TypeOK, BillingTypeOK
  <2>2. PcTypeOK'
    BY DEF IInv, TypeOK, PcTypeOK, SubmitPcs, OwnerPcs, RecoveryPcs, WorkerPcs
  <2>3. MishapTypeOK'
    BY JobAssumption DEF IInv, TypeOK, MishapTypeOK
  <2>4. QueueTypeOK' /\ JobTypeOK' /\ UpTypeOK'
    BY DEF IInv, TypeOK, QueueTypeOK, JobTypeOK, UpTypeOK
  <2> QED  BY <2>1, <2>2, <2>3, <2>4 DEF TypeOK
<1>2. ReleaserKnows'
  BY DEF IInv, TypeOK, PcTypeOK, ReleaserKnows, Ended
<1>3. ClaimsKept'
  BY DEF IInv, TypeOK, PcTypeOK, ClaimsKept, Paid, Repeated, Move,
     SkipRelease, ReleaseBalance, ReleaseRefused
<1>4. PricedFirst'
  BY DEF IInv, TypeOK, PcTypeOK, PricedFirst, Indexed, Paid, SettlePcs,
     Repeated, Move, SkipRelease, ReleaseBalance, ReleaseRefused
<1>5. Refunded'
  BY DEF IInv, TypeOK, Refunded, Ended, Paid, Spent, Recorded,
     BeforeRecord, ReleaserKnows, Settling, SettlePcs, JobTypeOK, Repeated,
     Move, SkipRelease, ReleaseBalance, ReleaseRefused
<1>6. ~overlap' => Alone'
  BY DEF IInv, TypeOK, PcTypeOK, Alone, Paid, Exclusive, LockedPcs, WorkerPcs,
     Settling, SettlePcs, Spent, ClaimsKept, ReleaserKnows, Ended,
     Repeated, Move, SkipRelease, ReleaseBalance, ReleaseRefused
<1>7. ~overlap' => KeptInQueue'
  BY DEF IInv, TypeOK, PcTypeOK, KeptInQueue, Queued, Unpaid, SettlePcs,
     Repeated, Move, SkipRelease, ReleaseBalance, ReleaseRefused
<1>8. ~overlap' /\ ~lost' => Charged'
  BY DEF IInv, Charged, Unpaid, Ended, Queued, Repeated, Move, SkipRelease,
     ReleaseBalance, ReleaseRefused
<1>9. Recorded' /\ Settling' /\ (~overlap' => Exclusive')
  BY DEF IInv, Recorded, BeforeRecord, Settling, Paid, SettlePcs, Spent,
     Exclusive, LockedPcs
<1> QED  BY <1>1, <1>2, <1>3, <1>4, <1>5, <1>6, <1>7, <1>8, <1>9 DEF IInv

\* OwnerRetry keeps the invariant.
LEMMA OwnerRetryInv ==
    ASSUME IInv, OwnerRetry
    PROVE  IInv'
<1> USE DEF OwnerRetry, OwnerTo, NoFault, billingVars, queueVars, jobVars,
        upVars, mishapVars
<1>1. TypeOK'
  <2>1. QueueTypeOK'
    BY EnqueueType DEF IInv, TypeOK, QueueTypeOK
  <2>2. PcTypeOK'
    BY DEF IInv, TypeOK, PcTypeOK, SubmitPcs, OwnerPcs, RecoveryPcs, WorkerPcs
  <2>3. MishapTypeOK'
    BY LossType DEF IInv, TypeOK, MishapTypeOK
  <2>4. BillingTypeOK' /\ JobTypeOK' /\ UpTypeOK'
    BY DEF IInv, TypeOK, BillingTypeOK, JobTypeOK, UpTypeOK
  <2> QED  BY <2>1, <2>2, <2>3, <2>4 DEF TypeOK
<1>2. ReleaserKnows'
  BY DEF IInv, TypeOK, PcTypeOK, ReleaserKnows, Ended
<1>3. ~overlap' => KeptInQueue'
  BY DEF IInv, TypeOK, PcTypeOK, KeptInQueue, Queued, Unpaid, SettlePcs,
     Recorded, BeforeRecord, Ended, QueueTypeOK, Enqueue, Loss
<1>4. ~overlap' /\ ~lost' => Charged'
  BY DEF IInv, TypeOK, Charged, Unpaid, Ended, Queued, Recorded, BeforeRecord,
     QueueTypeOK, KeptInQueue, SettlePcs, ClaimsKept, Paid, Enqueue, Loss
<1>5. Recorded' /\ ClaimsKept' /\ PricedFirst' /\ Settling' /\ Refunded' /\
      (~overlap' => Exclusive') /\ (~overlap' => Alone')
  BY DEF IInv, Recorded, BeforeRecord, ClaimsKept, Paid, PricedFirst, Indexed,
     SettlePcs, Settling, Spent, Refunded, Exclusive, LockedPcs, Alone,
     Enqueue, Loss
<1> QED  BY <1>1, <1>2, <1>3, <1>4, <1>5 DEF IInv

\* DeleteRecord keeps the invariant.
LEMMA DeleteRecordInv ==
    ASSUME IInv, DeleteRecord
    PROVE  IInv'
<1> USE DEF DeleteRecord, NoFault, billingVars, queueVars, upVars, pcVars,
        mishapVars
<1>1. TypeOK'
  <2>1. JobTypeOK'
    BY JobAssumption DEF IInv, TypeOK, JobTypeOK, Statuses, Terminal
  <2>2. BillingTypeOK' /\ QueueTypeOK' /\ UpTypeOK' /\ PcTypeOK' /\
        MishapTypeOK'
    BY DEF IInv, TypeOK, BillingTypeOK, QueueTypeOK, UpTypeOK, PcTypeOK,
       MishapTypeOK
  <2> QED  BY <2>1, <2>2 DEF TypeOK
<1>2. Recorded' /\ ReleaserKnows' /\ ClaimsKept' /\ PricedFirst' /\ Settling'
      /\ Refunded' /\ (~overlap' => Exclusive') /\ (~overlap' => Alone') /\
      (~overlap' => KeptInQueue') /\ (~overlap' /\ ~lost' => Charged')
  BY DEF IInv, Recorded, BeforeRecord, ReleaserKnows, ClaimsKept, Paid,
     PricedFirst, Indexed, SettlePcs, Settling, Spent, Refunded,
     Exclusive, LockedPcs, Alone, KeptInQueue, Queued, Unpaid, Charged
<1> QED  BY <1>1, <1>2 DEF IInv

\* DeleteOutput keeps the invariant.
LEMMA DeleteOutputInv ==
    ASSUME IInv, DeleteOutput
    PROVE  IInv'
<1> USE DEF DeleteOutput, NoFault, SetStatus, billingVars, queueVars, upVars,
        pcVars, mishapVars
<1>1. TypeOK'
  <2>1. JobTypeOK'
    BY JobAssumption DEF IInv, TypeOK, JobTypeOK, Statuses, Terminal
  <2>2. BillingTypeOK' /\ QueueTypeOK' /\ UpTypeOK' /\ PcTypeOK' /\
        MishapTypeOK'
    BY DEF IInv, TypeOK, BillingTypeOK, QueueTypeOK, UpTypeOK, PcTypeOK,
       MishapTypeOK
  <2> QED  BY <2>1, <2>2 DEF TypeOK
<1>2. Recorded'
  BY DEF IInv, Recorded, BeforeRecord, Ended
<1>3. ReleaserKnows'
  BY DEF IInv, TypeOK, PcTypeOK, ReleaserKnows, Ended
<1>4. ClaimsKept'
  BY DEF IInv, TypeOK, PcTypeOK, ClaimsKept, Paid
<1>5. PricedFirst'
  BY DEF IInv, TypeOK, PcTypeOK, PricedFirst, Indexed, Paid, SettlePcs
<1>6. Settling'
  BY DEF IInv, TypeOK, PcTypeOK, Settling, Paid, SettlePcs, Spent
<1>7. Refunded'
  BY DEF IInv, Refunded, Ended, Paid, Spent
<1>8. ~overlap' => Alone'
  BY DEF IInv, TypeOK, PcTypeOK, Alone, Paid
<1>9. ~overlap' => KeptInQueue'
  BY DEF IInv, TypeOK, PcTypeOK, KeptInQueue, Queued, Unpaid, SettlePcs
<1>10. ~overlap' /\ ~lost' => Charged'
  BY DEF IInv, Charged, Unpaid, Ended, Queued
<1>11. ~overlap' => Exclusive'
  BY DEF IInv, Exclusive, LockedPcs
<1> QED  BY <1>1, <1>2, <1>3, <1>4, <1>5, <1>6, <1>7, <1>8, <1>9, <1>10, <1>11
         DEF IInv

\* FailStaleUnsubmitted keeps the invariant.
LEMMA FailStaleUnsubmittedInv ==
    ASSUME IInv, FailStaleUnsubmitted
    PROVE  IInv'
<1> USE DEF FailStaleUnsubmitted, NoFault, RecoveryTo, SetStatus, billingVars,
        queueVars, upVars, mishapVars
<1>1. TypeOK'
  <2>1. JobTypeOK'
    BY JobAssumption DEF IInv, TypeOK, JobTypeOK, Statuses, Terminal
  <2>2. PcTypeOK'
    BY DEF IInv, TypeOK, PcTypeOK, SubmitPcs, OwnerPcs, RecoveryPcs, WorkerPcs
  <2>3. BillingTypeOK' /\ QueueTypeOK' /\ UpTypeOK' /\ MishapTypeOK'
    BY DEF IInv, TypeOK, BillingTypeOK, QueueTypeOK, UpTypeOK, MishapTypeOK
  <2> QED  BY <2>1, <2>2, <2>3 DEF TypeOK
<1>2. Recorded'
  BY DEF IInv, Recorded, BeforeRecord, Ended
<1>3. ReleaserKnows'
  BY DEF IInv, TypeOK, PcTypeOK, ReleaserKnows, Ended
<1>4. ClaimsKept'
  BY DEF IInv, TypeOK, PcTypeOK, ClaimsKept, Paid
<1>5. PricedFirst'
  BY DEF IInv, TypeOK, PcTypeOK, PricedFirst, Indexed, Paid, SettlePcs
<1>6. Settling'
  BY DEF IInv, TypeOK, PcTypeOK, Settling, Paid, SettlePcs, Spent
<1>7. Refunded'
  BY DEF IInv, Refunded, Ended, Paid, Spent
<1>8. ~overlap' => Alone'
  BY DEF IInv, TypeOK, PcTypeOK, Alone, Paid
<1>9. ~overlap' => KeptInQueue'
  BY DEF IInv, TypeOK, PcTypeOK, KeptInQueue, Queued, Unpaid, SettlePcs
<1>10. ~overlap' /\ ~lost' => Charged'
  BY DEF IInv, Charged, Unpaid, Ended, Queued
<1>11. ~overlap' => Exclusive'
  BY DEF IInv, Exclusive, LockedPcs
<1> QED  BY <1>1, <1>2, <1>3, <1>4, <1>5, <1>6, <1>7, <1>8, <1>9, <1>10, <1>11
         DEF IInv

\* RecoveryRelease keeps the invariant.
LEMMA RecoveryReleaseInv ==
    ASSUME IInv, RecoveryRelease
    PROVE  IInv'
<1> USE DEF RecoveryRelease, RecoveryTo, ReleaseFails, Fault, NoFault,
        billingVars, queueVars, jobVars, upVars, mishapVars
<1>1. TypeOK'
  <2>1. BillingTypeOK'
    BY ReleaseBalanceType DEF IInv, TypeOK, BillingTypeOK
  <2>2. PcTypeOK'
    BY DEF IInv, TypeOK, PcTypeOK, SubmitPcs, OwnerPcs, RecoveryPcs, WorkerPcs
  <2>3. MishapTypeOK'
    BY JobAssumption DEF IInv, TypeOK, MishapTypeOK
  <2>4. QueueTypeOK' /\ JobTypeOK' /\ UpTypeOK'
    BY DEF IInv, TypeOK, QueueTypeOK, JobTypeOK, UpTypeOK
  <2> QED  BY <2>1, <2>2, <2>3, <2>4 DEF TypeOK
<1>2. ReleaserKnows'
  BY DEF IInv, TypeOK, PcTypeOK, ReleaserKnows, Ended
<1>3. ClaimsKept'
  BY DEF IInv, TypeOK, PcTypeOK, ClaimsKept, Paid, Repeated, Move,
     SkipRelease, ReleaseBalance, ReleaseRefused
<1>4. PricedFirst'
  BY DEF IInv, TypeOK, PcTypeOK, PricedFirst, Indexed, Paid, SettlePcs,
     Repeated, Move, SkipRelease, ReleaseBalance, ReleaseRefused
<1>5. Refunded'
  BY DEF IInv, TypeOK, Refunded, Ended, Paid, Spent, Recorded,
     BeforeRecord, ReleaserKnows, Settling, SettlePcs, JobTypeOK, Repeated,
     Move, SkipRelease, ReleaseBalance, ReleaseRefused
<1>6. ~overlap' => Alone'
  BY DEF IInv, TypeOK, PcTypeOK, Alone, Paid, Exclusive, LockedPcs, WorkerPcs,
     Settling, SettlePcs, Spent, ClaimsKept, ReleaserKnows, Ended,
     Repeated, Move, SkipRelease, ReleaseBalance, ReleaseRefused
<1>7. ~overlap' => KeptInQueue'
  BY DEF IInv, TypeOK, PcTypeOK, KeptInQueue, Queued, Unpaid, SettlePcs,
     Repeated, Move, SkipRelease, ReleaseBalance, ReleaseRefused
<1>8. ~overlap' /\ ~lost' => Charged'
  BY DEF IInv, Charged, Unpaid, Ended, Queued, Repeated, Move, SkipRelease,
     ReleaseBalance, ReleaseRefused
<1>9. Recorded' /\ Settling' /\ (~overlap' => Exclusive')
  BY DEF IInv, Recorded, BeforeRecord, Settling, Paid, SettlePcs, Spent,
     Exclusive, LockedPcs
<1> QED  BY <1>1, <1>2, <1>3, <1>4, <1>5, <1>6, <1>7, <1>8, <1>9 DEF IInv

\* RecoveryRetry keeps the invariant.
LEMMA RecoveryRetryInv ==
    ASSUME IInv, RecoveryRetry
    PROVE  IInv'
<1> USE DEF RecoveryRetry, RecoveryTo, NoFault, billingVars, queueVars,
        jobVars, upVars, mishapVars
<1>1. TypeOK'
  <2>1. QueueTypeOK'
    BY EnqueueType DEF IInv, TypeOK, QueueTypeOK
  <2>2. PcTypeOK'
    BY DEF IInv, TypeOK, PcTypeOK, SubmitPcs, OwnerPcs, RecoveryPcs, WorkerPcs
  <2>3. MishapTypeOK'
    BY LossType DEF IInv, TypeOK, MishapTypeOK
  <2>4. BillingTypeOK' /\ JobTypeOK' /\ UpTypeOK'
    BY DEF IInv, TypeOK, BillingTypeOK, JobTypeOK, UpTypeOK
  <2> QED  BY <2>1, <2>2, <2>3, <2>4 DEF TypeOK
<1>2. ReleaserKnows'
  BY DEF IInv, TypeOK, PcTypeOK, ReleaserKnows, Ended
<1>3. ~overlap' => KeptInQueue'
  BY DEF IInv, TypeOK, PcTypeOK, KeptInQueue, Queued, Unpaid, SettlePcs,
     Recorded, BeforeRecord, Ended, QueueTypeOK, Enqueue, Loss
<1>4. ~overlap' /\ ~lost' => Charged'
  BY DEF IInv, TypeOK, Charged, Unpaid, Ended, Queued, Recorded, BeforeRecord,
     QueueTypeOK, KeptInQueue, SettlePcs, ClaimsKept, Paid, Enqueue, Loss
<1>5. Recorded' /\ ClaimsKept' /\ PricedFirst' /\ Settling' /\ Refunded' /\
      (~overlap' => Exclusive') /\ (~overlap' => Alone')
  BY DEF IInv, Recorded, BeforeRecord, ClaimsKept, Paid, PricedFirst, Indexed,
     SettlePcs, Settling, Spent, Refunded, Exclusive, LockedPcs, Alone,
     Enqueue, Loss
<1> QED  BY <1>1, <1>2, <1>3, <1>4, <1>5 DEF IInv

\* MoveDelayed keeps the invariant.
LEMMA MoveDelayedInv ==
    ASSUME IInv, MoveDelayed
    PROVE  IInv'
<1> USE DEF MoveDelayed, NoFault, billingVars, jobVars, upVars, pcVars,
        mishapVars
<1>1. TypeOK'
  <2>1. QueueTypeOK'
    BY MoveDueDelayedToReadyType DEF IInv, TypeOK, QueueTypeOK
  <2>2. BillingTypeOK' /\ JobTypeOK' /\ UpTypeOK' /\ PcTypeOK' /\
        MishapTypeOK'
    BY DEF IInv, TypeOK, BillingTypeOK, JobTypeOK, UpTypeOK, PcTypeOK,
       MishapTypeOK
  <2> QED  BY <2>1, <2>2 DEF TypeOK
<1>2. ~overlap' => KeptInQueue'
  BY DEF IInv, TypeOK, PcTypeOK, KeptInQueue, Queued, Unpaid, SettlePcs,
     Recorded, BeforeRecord, Ended, QueueTypeOK, MoveDueDelayedToReady
<1>3. ~overlap' /\ ~lost' => Charged'
  BY DEF IInv, TypeOK, Charged, Unpaid, Ended, Queued, Recorded, BeforeRecord,
     QueueTypeOK, MoveDueDelayedToReady
<1>4. Recorded' /\ ReleaserKnows' /\ ClaimsKept' /\ PricedFirst' /\ Settling'
      /\ Refunded' /\ (~overlap' => Exclusive') /\ (~overlap' => Alone')
  BY DEF IInv, Recorded, BeforeRecord, ReleaserKnows, ClaimsKept, Paid,
     PricedFirst, Indexed, SettlePcs, Settling, Spent, Refunded,
     Exclusive, LockedPcs, Alone, MoveDueDelayedToReady
<1> QED  BY <1>1, <1>2, <1>3, <1>4 DEF IInv

\* RecoverActive keeps the invariant.
LEMMA RecoverActiveInv ==
    ASSUME IInv, RecoverActive
    PROVE  IInv'
<1> USE DEF RecoverActive, NoFault, Fault, billingVars, jobVars, upVars,
        pcVars, mishapVars
<1>1. TypeOK'
  <2>1. QueueTypeOK'
    BY RecoverStaleActiveType DEF IInv, TypeOK, QueueTypeOK
  <2>2. MishapTypeOK'
    BY JobAssumption DEF IInv, TypeOK, MishapTypeOK
  <2>3. BillingTypeOK' /\ JobTypeOK' /\ UpTypeOK' /\ PcTypeOK'
    BY DEF IInv, TypeOK, BillingTypeOK, JobTypeOK, UpTypeOK, PcTypeOK
  <2> QED  BY <2>1, <2>2, <2>3 DEF TypeOK
<1>2. ~overlap' => KeptInQueue'
  BY DEF IInv, TypeOK, PcTypeOK, KeptInQueue, Queued, Unpaid, SettlePcs,
     Recorded, BeforeRecord, Ended, QueueTypeOK, RecoverStaleActive
<1>3. ~overlap' /\ ~lost' => Charged'
  BY DEF IInv, TypeOK, Charged, Unpaid, Ended, Queued, Recorded, BeforeRecord,
     QueueTypeOK, RecoverStaleActive
<1>4. Recorded' /\ ReleaserKnows' /\ ClaimsKept' /\ PricedFirst' /\ Settling'
      /\ Refunded' /\ (~overlap' => Exclusive') /\ (~overlap' => Alone')
  BY DEF IInv, Recorded, BeforeRecord, ReleaserKnows, ClaimsKept, Paid,
     PricedFirst, Indexed, SettlePcs, Settling, Spent, Refunded,
     Exclusive, LockedPcs, Alone, RecoverStaleActive
<1> QED  BY <1>1, <1>2, <1>3, <1>4 DEF IInv

\* LoseLock keeps the invariant.
LEMMA LoseLockInv ==
    ASSUME IInv, LoseLock
    PROVE  IInv'
<1> USE DEF LoseLock, NoFault, billingVars, jobVars, upVars, pcVars,
        mishapVars
<1>1. TypeOK'
  <2>1. QueueTypeOK'
    BY QueueAssumption DEF IInv, TypeOK, QueueTypeOK, ExpireLock
  <2>2. MishapTypeOK'
    <3>1. faults' \in 0 .. MaxFaults
      BY JobAssumption DEF IInv, TypeOK, MishapTypeOK
    <3> QED  BY <3>1 DEF IInv, TypeOK, MishapTypeOK
  <2>3. BillingTypeOK' /\ JobTypeOK' /\ UpTypeOK' /\ PcTypeOK'
    BY DEF IInv, TypeOK, BillingTypeOK, JobTypeOK, UpTypeOK, PcTypeOK
  <2> QED  BY <2>1, <2>2, <2>3 DEF TypeOK
<1>2. ~overlap' => Exclusive'
  BY QueueAssumption DEF IInv, TypeOK, PcTypeOK, Exclusive, LockedPcs,
     WorkerPcs, ExpireLock
<1>3. ~overlap' => Alone'
  BY DEF IInv, TypeOK, PcTypeOK, Alone, Paid, ExpireLock
<1>4. ~overlap' => KeptInQueue'
  BY DEF IInv, TypeOK, PcTypeOK, KeptInQueue, Queued, Unpaid, SettlePcs,
     ExpireLock
<1>5. ~overlap' /\ ~lost' => Charged'
  BY DEF IInv, Charged, Unpaid, Ended, Queued, ExpireLock
<1>6. Recorded' /\ ReleaserKnows' /\ ClaimsKept' /\ PricedFirst' /\ Settling'
      /\ Refunded'
  BY DEF IInv, Recorded, BeforeRecord, ReleaserKnows, ClaimsKept, Paid,
     PricedFirst, Indexed, SettlePcs, Settling, Spent, Refunded
<1> QED  BY <1>1, <1>2, <1>3, <1>4, <1>5, <1>6 DEF IInv

\* LoseInflight keeps the invariant.
LEMMA LoseInflightInv ==
    ASSUME IInv, LoseInflight
    PROVE  IInv'
<1> USE DEF LoseInflight, Fault, billingVars, jobVars, upVars, pcVars
<1>1. TypeOK'
  <2>1. QueueTypeOK'
    BY QueueAssumption DEF IInv, TypeOK, QueueTypeOK, ExpireInflight
  <2>2. MishapTypeOK'
    BY JobAssumption DEF IInv, TypeOK, MishapTypeOK
  <2>3. BillingTypeOK' /\ JobTypeOK' /\ UpTypeOK' /\ PcTypeOK'
    BY DEF IInv, TypeOK, BillingTypeOK, JobTypeOK, UpTypeOK, PcTypeOK
  <2> QED  BY <2>1, <2>2, <2>3 DEF TypeOK
<1>2. ~overlap' => KeptInQueue'
  BY DEF IInv, TypeOK, PcTypeOK, KeptInQueue, Queued, Unpaid, SettlePcs,
     ExpireInflight
<1>3. Recorded' /\ ReleaserKnows' /\ ClaimsKept' /\ PricedFirst' /\ Settling'
      /\ Refunded' /\ (~overlap' => Exclusive') /\ (~overlap' => Alone') /\
      (~overlap' /\ ~lost' => Charged')
  BY DEF IInv, Recorded, BeforeRecord, ReleaserKnows, ClaimsKept, Paid,
     PricedFirst, Indexed, SettlePcs, Settling, Spent, Refunded,
     Exclusive, LockedPcs, Alone, Charged, Unpaid, Queued, ExpireInflight
<1> QED  BY <1>1, <1>2, <1>3 DEF IInv

\* Age keeps the invariant.
LEMMA AgeInv ==
    ASSUME IInv, Age
    PROVE  IInv'
<1> USE DEF Age, NoFault, billingVars, queueVars, upVars, pcVars, mishapVars
<1>1. TypeOK'
  <2>1. JobTypeOK'
    BY JobAssumption DEF IInv, TypeOK, JobTypeOK, Statuses, Terminal
  <2>2. MishapTypeOK'
    <3>1. CASE spc = "done"
      BY <3>1 DEF IInv, TypeOK, MishapTypeOK
    <3>2. CASE spc # "done"
      BY <3>2, LossType DEF IInv, TypeOK
    <3> QED  BY <3>1, <3>2
  <2>3. BillingTypeOK' /\ QueueTypeOK' /\ UpTypeOK' /\ PcTypeOK'
    BY DEF IInv, TypeOK, BillingTypeOK, QueueTypeOK, UpTypeOK, PcTypeOK
  <2> QED  BY <2>1, <2>2, <2>3 DEF TypeOK
<1>2. ~overlap' /\ ~lost' => Charged'
  BY DEF IInv, Charged, Unpaid, Ended, Queued, Loss
<1>3. Recorded' /\ ReleaserKnows' /\ ClaimsKept' /\ PricedFirst' /\ Settling'
      /\ Refunded' /\ (~overlap' => Exclusive') /\ (~overlap' => Alone') /\
      (~overlap' => KeptInQueue')
  BY DEF IInv, Recorded, BeforeRecord, ReleaserKnows, ClaimsKept, Paid,
     PricedFirst, Indexed, SettlePcs, Settling, Spent, Refunded,
     Exclusive, LockedPcs, Alone, KeptInQueue, Queued, Unpaid, Loss
<1> QED  BY <1>1, <1>2, <1>3 DEF IInv

\* RemoveAccount keeps the invariant.
LEMMA RemoveAccountInv ==
    ASSUME IInv, RemoveAccount
    PROVE  IInv'
<1> USE DEF RemoveAccount, billingVars, queueVars, jobVars, upVars, pcVars
<1>1. TypeOK'
  <2>1. MishapTypeOK'
    BY JobAssumption DEF IInv, TypeOK, MishapTypeOK
  <2>2. BillingTypeOK' /\ QueueTypeOK' /\ JobTypeOK' /\ UpTypeOK' /\ PcTypeOK'
    BY DEF IInv, TypeOK, BillingTypeOK, QueueTypeOK, JobTypeOK, UpTypeOK,
       PcTypeOK
  <2> QED  BY <2>1, <2>2 DEF TypeOK
<1>2. Recorded' /\ ReleaserKnows' /\ ClaimsKept'
  BY DEF IInv, Recorded, ReleaserKnows, ClaimsKept
<1>3. PricedFirst' /\ Settling' /\ Refunded'
  BY DEF IInv, PricedFirst, Indexed, Settling, Refunded, Spent
<1>4. (~overlap' => Exclusive' /\ Alone' /\ KeptInQueue')
      /\ (~overlap' /\ ~lost' => Charged')
  BY DEF IInv, Exclusive, Alone, KeptInQueue, Charged, Queued, Unpaid
<1> QED  BY <1>1, <1>2, <1>3, <1>4 DEF IInv

\* StartUpstream keeps the invariant.
LEMMA StartUpstreamInv ==
    ASSUME IInv, StartUpstream
    PROVE  IInv'
<1> USE DEF StartUpstream, NoFault, billingVars, queueVars, jobVars, pcVars,
        mishapVars
<1>1. TypeOK'
  <2>1. UpTypeOK'
    BY DEF IInv, TypeOK, UpTypeOK
  <2>2. BillingTypeOK' /\ QueueTypeOK' /\ JobTypeOK' /\ PcTypeOK' /\
        MishapTypeOK'
    BY DEF IInv, TypeOK, BillingTypeOK, QueueTypeOK, JobTypeOK, PcTypeOK,
       MishapTypeOK
  <2> QED  BY <2>1, <2>2 DEF TypeOK
<1>2. PricedFirst'
  BY DEF IInv, TypeOK, PcTypeOK, PricedFirst, Indexed, Paid, SettlePcs
<1>3. Recorded' /\ ReleaserKnows' /\ ClaimsKept' /\ Settling' /\ Refunded' /\
      (~overlap' => Exclusive') /\ (~overlap' => Alone') /\ (~overlap' =>
      KeptInQueue') /\ (~overlap' /\ ~lost' => Charged')
  BY DEF IInv, Recorded, BeforeRecord, ReleaserKnows, ClaimsKept, Paid,
     Settling, SettlePcs, Spent, Refunded, Exclusive, LockedPcs, Alone,
     KeptInQueue, Queued, Unpaid, Charged
<1> QED  BY <1>1, <1>2, <1>3 DEF IInv

\* FinishUpstream keeps the invariant.
LEMMA FinishUpstreamInv ==
    ASSUME IInv, FinishUpstream
    PROVE  IInv'
<1> USE DEF FinishUpstream, NoFault, billingVars, queueVars, jobVars, pcVars,
        mishapVars
<1>1. TypeOK'
  <2>1. UpTypeOK'
    BY DEF IInv, TypeOK, UpTypeOK
  <2>2. BillingTypeOK' /\ QueueTypeOK' /\ JobTypeOK' /\ PcTypeOK' /\
        MishapTypeOK'
    BY DEF IInv, TypeOK, BillingTypeOK, QueueTypeOK, JobTypeOK, PcTypeOK,
       MishapTypeOK
  <2> QED  BY <2>1, <2>2 DEF TypeOK
<1>2. PricedFirst'
  BY DEF IInv, TypeOK, PcTypeOK, PricedFirst, Indexed, Paid, SettlePcs
<1>3. Recorded' /\ ReleaserKnows' /\ ClaimsKept' /\ Settling' /\ Refunded' /\
      (~overlap' => Exclusive') /\ (~overlap' => Alone') /\ (~overlap' =>
      KeptInQueue') /\ (~overlap' /\ ~lost' => Charged')
  BY DEF IInv, Recorded, BeforeRecord, ReleaserKnows, ClaimsKept, Paid,
     Settling, SettlePcs, Spent, Refunded, Exclusive, LockedPcs, Alone,
     KeptInQueue, Queued, Unpaid, Charged
<1> QED  BY <1>1, <1>2, <1>3 DEF IInv

\* CrashSubmit keeps the invariant.
LEMMA CrashSubmitInv ==
    ASSUME IInv, CrashSubmit
    PROVE  IInv'
<1> USE DEF CrashSubmit, Loss, SubmitTo, billingVars, queueVars, jobVars,
        upVars
<1>1. TypeOK'
  <2>1. PcTypeOK'
    BY DEF IInv, TypeOK, PcTypeOK, SubmitPcs, OwnerPcs, RecoveryPcs, WorkerPcs
  <2>2. MishapTypeOK'
    BY JobAssumption DEF IInv, TypeOK, MishapTypeOK
  <2>3. BillingTypeOK' /\ QueueTypeOK' /\ JobTypeOK' /\ UpTypeOK'
    BY DEF IInv, TypeOK, BillingTypeOK, QueueTypeOK, JobTypeOK, UpTypeOK
  <2> QED  BY <2>1, <2>2, <2>3 DEF TypeOK
<1>2. Recorded'
  BY DEF IInv, Recorded, BeforeRecord, Ended
<1>3. ClaimsKept'
  BY DEF IInv, TypeOK, PcTypeOK, ClaimsKept, Paid
<1>4. Refunded'
  BY DEF IInv, Refunded, Ended, Paid, Spent
<1>5. ~overlap' /\ ~lost' => Charged'
  BY DEF IInv, Charged, Unpaid, Ended, Queued
<1>6. ReleaserKnows' /\ PricedFirst' /\ Settling' /\ (~overlap' => Exclusive')
      /\ (~overlap' => Alone') /\ (~overlap' => KeptInQueue')
  BY DEF IInv, ReleaserKnows, PricedFirst, Indexed, Paid, SettlePcs, Settling,
     Spent, Exclusive, LockedPcs, Alone, KeptInQueue, Queued, Unpaid
<1> QED  BY <1>1, <1>2, <1>3, <1>4, <1>5, <1>6 DEF IInv

\* CrashOwner keeps the invariant.
LEMMA CrashOwnerInv ==
    ASSUME IInv, CrashOwner
    PROVE  IInv'
<1> USE DEF CrashOwner, Loss, OwnerTo, billingVars, queueVars, jobVars, upVars
<1>1. TypeOK'
  <2>1. PcTypeOK'
    BY DEF IInv, TypeOK, PcTypeOK, SubmitPcs, OwnerPcs, RecoveryPcs, WorkerPcs
  <2>2. MishapTypeOK'
    BY JobAssumption DEF IInv, TypeOK, MishapTypeOK
  <2>3. BillingTypeOK' /\ QueueTypeOK' /\ JobTypeOK' /\ UpTypeOK'
    BY DEF IInv, TypeOK, BillingTypeOK, QueueTypeOK, JobTypeOK, UpTypeOK
  <2> QED  BY <2>1, <2>2, <2>3 DEF TypeOK
<1>2. ReleaserKnows'
  BY DEF IInv, TypeOK, PcTypeOK, ReleaserKnows, Ended
<1>3. ~overlap' /\ ~lost' => Charged'
  BY DEF IInv, Charged, Unpaid, Ended, Queued
<1>4. Recorded' /\ ClaimsKept' /\ PricedFirst' /\ Settling' /\ Refunded' /\
      (~overlap' => Exclusive') /\ (~overlap' => Alone') /\ (~overlap' =>
      KeptInQueue')
  BY DEF IInv, Recorded, BeforeRecord, ClaimsKept, Paid, PricedFirst, Indexed,
     SettlePcs, Settling, Spent, Refunded, Exclusive, LockedPcs, Alone,
     KeptInQueue, Queued, Unpaid
<1> QED  BY <1>1, <1>2, <1>3, <1>4 DEF IInv

\* CrashRecovery keeps the invariant.
LEMMA CrashRecoveryInv ==
    ASSUME IInv, CrashRecovery
    PROVE  IInv'
<1> USE DEF CrashRecovery, Loss, RecoveryTo, billingVars, queueVars, jobVars,
        upVars
<1>1. TypeOK'
  <2>1. PcTypeOK'
    BY DEF IInv, TypeOK, PcTypeOK, SubmitPcs, OwnerPcs, RecoveryPcs, WorkerPcs
  <2>2. MishapTypeOK'
    BY JobAssumption DEF IInv, TypeOK, MishapTypeOK
  <2>3. BillingTypeOK' /\ QueueTypeOK' /\ JobTypeOK' /\ UpTypeOK'
    BY DEF IInv, TypeOK, BillingTypeOK, QueueTypeOK, JobTypeOK, UpTypeOK
  <2> QED  BY <2>1, <2>2, <2>3 DEF TypeOK
<1>2. ReleaserKnows'
  BY DEF IInv, TypeOK, PcTypeOK, ReleaserKnows, Ended
<1>3. ~overlap' /\ ~lost' => Charged'
  BY DEF IInv, Charged, Unpaid, Ended, Queued
<1>4. Recorded' /\ ClaimsKept' /\ PricedFirst' /\ Settling' /\ Refunded' /\
      (~overlap' => Exclusive') /\ (~overlap' => Alone') /\ (~overlap' =>
      KeptInQueue')
  BY DEF IInv, Recorded, BeforeRecord, ClaimsKept, Paid, PricedFirst, Indexed,
     SettlePcs, Settling, Spent, Refunded, Exclusive, LockedPcs, Alone,
     KeptInQueue, Queued, Unpaid
<1> QED  BY <1>1, <1>2, <1>3, <1>4 DEF IInv

\* ReserveJob keeps the invariant.
LEMMA ReserveJobInv ==
    ASSUME IInv, NEW w \in Workers, ReserveJob(w)
    PROVE  IInv'
<1> USE DEF ReserveJob, WorkerTo, NoFault, billingVars, jobVars, upVars,
        mishapVars
<1>1. TypeOK'
  <2>1. QueueTypeOK'
    BY ReserveType DEF IInv, TypeOK, QueueTypeOK
  <2>2. PcTypeOK'
    BY DEF IInv, TypeOK, PcTypeOK, SubmitPcs, OwnerPcs, RecoveryPcs, WorkerPcs
  <2>3. BillingTypeOK' /\ JobTypeOK' /\ UpTypeOK' /\ MishapTypeOK'
    BY DEF IInv, TypeOK, BillingTypeOK, JobTypeOK, UpTypeOK, MishapTypeOK
  <2> QED  BY <2>1, <2>2, <2>3 DEF TypeOK
<1>2. ReleaserKnows'
  BY DEF IInv, TypeOK, PcTypeOK, ReleaserKnows, Ended
<1>3. ClaimsKept'
  BY DEF IInv, TypeOK, PcTypeOK, ClaimsKept, Paid
<1>4. PricedFirst'
  BY DEF IInv, TypeOK, PcTypeOK, PricedFirst, Indexed, Paid, SettlePcs
<1>5. Settling'
  BY DEF IInv, TypeOK, PcTypeOK, Settling, Paid, SettlePcs, Spent
<1>6. ~overlap' => Exclusive'
  BY QueueAssumption DEF IInv, TypeOK, PcTypeOK, Exclusive, LockedPcs,
     WorkerPcs, Reserve
<1>7. ~overlap' => Alone'
  BY DEF IInv, TypeOK, PcTypeOK, Alone, Paid, Reserve
<1>8. ~overlap' => KeptInQueue'
  BY DEF IInv, TypeOK, PcTypeOK, KeptInQueue, Queued, Unpaid, SettlePcs,
     Reserve
<1>9. ~overlap' /\ ~lost' => Charged'
  BY DEF IInv, Charged, Unpaid, Ended, Queued, Reserve
<1>10. Recorded' /\ Refunded'
  BY DEF IInv, Recorded, BeforeRecord, Refunded, Paid, Spent
<1> QED  BY <1>1, <1>2, <1>3, <1>4, <1>5, <1>6, <1>7, <1>8, <1>9, <1>10 DEF
         IInv

\* AcquireLock keeps the invariant.
LEMMA AcquireLockInv ==
    ASSUME IInv, NEW w \in Workers, AcquireLock(w)
    PROVE  IInv'
<1> USE DEF AcquireLock, WorkerTo, Fault, NoFault, billingVars, queueVars,
        jobVars, upVars, mishapVars
<1>1. TypeOK'
  <2>1. QueueTypeOK'
    BY QueueAssumption DEF IInv, TypeOK, QueueTypeOK, TryAcquireJobLock
  <2>2. PcTypeOK'
    BY DEF IInv, TypeOK, PcTypeOK, SubmitPcs, OwnerPcs, RecoveryPcs, WorkerPcs
  <2>3. MishapTypeOK'
    BY JobAssumption DEF IInv, TypeOK, MishapTypeOK
  <2>4. BillingTypeOK' /\ JobTypeOK' /\ UpTypeOK'
    BY DEF IInv, TypeOK, BillingTypeOK, JobTypeOK, UpTypeOK
  <2> QED  BY <2>1, <2>2, <2>3, <2>4 DEF TypeOK
<1>2. ReleaserKnows'
  BY DEF IInv, TypeOK, PcTypeOK, ReleaserKnows, Ended
<1>3. ClaimsKept'
  BY DEF IInv, TypeOK, PcTypeOK, ClaimsKept, Paid
<1>4. PricedFirst'
  BY DEF IInv, TypeOK, PcTypeOK, PricedFirst, Indexed, Paid, SettlePcs
<1>5. Settling'
  BY DEF IInv, TypeOK, PcTypeOK, Settling, Paid, SettlePcs, Spent
<1>6. ~overlap' => Exclusive'
  BY QueueAssumption DEF IInv, TypeOK, PcTypeOK, Exclusive, LockedPcs,
     WorkerPcs, TryAcquireJobLock
<1>7. ~overlap' => Alone'
  BY DEF IInv, TypeOK, PcTypeOK, Alone, Paid, TryAcquireJobLock
<1>8. ~overlap' => KeptInQueue'
  BY DEF IInv, TypeOK, PcTypeOK, KeptInQueue, Queued, Unpaid, SettlePcs,
     TryAcquireJobLock
<1>9. Recorded' /\ Refunded' /\ (~overlap' /\ ~lost' => Charged')
  BY DEF IInv, Recorded, BeforeRecord, Refunded, Paid, Spent, Charged,
     Unpaid, Queued, TryAcquireJobLock
<1> QED  BY <1>1, <1>2, <1>3, <1>4, <1>5, <1>6, <1>7, <1>8, <1>9 DEF IInv

\* ReadJob keeps the invariant.
LEMMA ReadJobInv ==
    ASSUME IInv, NEW w \in Workers, ReadJob(w)
    PROVE  IInv'
<1> USE DEF ReadJob, WorkerTo, Fault, NoFault, billingVars, queueVars,
        jobVars, upVars, mishapVars
<1>1. TypeOK'
  <2>1. PcTypeOK'
    BY DEF IInv, TypeOK, PcTypeOK, SubmitPcs, OwnerPcs, RecoveryPcs, WorkerPcs
  <2>2. MishapTypeOK'
    BY JobAssumption DEF IInv, TypeOK, MishapTypeOK
  <2>3. BillingTypeOK' /\ QueueTypeOK' /\ JobTypeOK' /\ UpTypeOK'
    BY DEF IInv, TypeOK, BillingTypeOK, QueueTypeOK, JobTypeOK, UpTypeOK
  <2> QED  BY <2>1, <2>2, <2>3 DEF TypeOK
<1>2. ReleaserKnows'
  BY DEF IInv, TypeOK, PcTypeOK, ReleaserKnows, Ended
<1>3. ClaimsKept'
  BY DEF IInv, TypeOK, PcTypeOK, ClaimsKept, Paid
<1>4. PricedFirst'
  BY DEF IInv, TypeOK, PcTypeOK, PricedFirst, Indexed, Paid, SettlePcs
<1>5. Settling'
  BY DEF IInv, TypeOK, PcTypeOK, Settling, Paid, SettlePcs, Spent
<1>6. ~overlap' => Exclusive'
  BY QueueAssumption DEF IInv, TypeOK, PcTypeOK, Exclusive, LockedPcs,
     WorkerPcs
<1>7. ~overlap' => Alone'
  BY DEF IInv, TypeOK, PcTypeOK, Alone, Paid
<1>8. ~overlap' => KeptInQueue'
  BY DEF IInv, TypeOK, PcTypeOK, KeptInQueue, Queued, Unpaid, SettlePcs
<1>9. Recorded' /\ Refunded' /\ (~overlap' /\ ~lost' => Charged')
  BY DEF IInv, Recorded, BeforeRecord, Refunded, Paid, Spent, Charged,
     Unpaid, Queued
<1> QED  BY <1>1, <1>2, <1>3, <1>4, <1>5, <1>6, <1>7, <1>8, <1>9 DEF IInv

\* ProcessJob keeps the invariant.
LEMMA ProcessJobInv ==
    ASSUME IInv, NEW w \in Workers, ProcessJob(w)
    PROVE  IInv'
<1> USE DEF ProcessJob, WorkerTo, Fault, NoFault, billingVars, queueVars,
        jobVars, upVars, mishapVars
<1>1. TypeOK'
  <2>1. PcTypeOK'
    BY DEF IInv, TypeOK, PcTypeOK, SubmitPcs, OwnerPcs, RecoveryPcs,
       WorkerPcs, Terminal, Done, Ended
  <2>2. MishapTypeOK'
    BY JobAssumption DEF IInv, TypeOK, MishapTypeOK
  <2>3. BillingTypeOK' /\ QueueTypeOK' /\ JobTypeOK' /\ UpTypeOK'
    BY DEF IInv, TypeOK, BillingTypeOK, QueueTypeOK, JobTypeOK, UpTypeOK
  <2> QED  BY <2>1, <2>2, <2>3 DEF TypeOK
<1>2. ReleaserKnows'
  BY DEF IInv, TypeOK, PcTypeOK, ReleaserKnows, Ended, Terminal, Done
<1>3. ClaimsKept'
  BY DEF IInv, TypeOK, PcTypeOK, ClaimsKept, Paid, Terminal, Done, Ended
<1>4. PricedFirst'
  BY DEF IInv, TypeOK, PcTypeOK, PricedFirst, Indexed, Paid, SettlePcs,
     Recorded, BeforeRecord, Ended, Terminal, Done
<1>5. Settling'
  BY DEF IInv, TypeOK, PcTypeOK, Settling, Paid, SettlePcs, Spent,
     Terminal, Done, Ended
<1>6. ~overlap' => Exclusive'
  BY QueueAssumption DEF IInv, TypeOK, PcTypeOK, Exclusive, LockedPcs,
     WorkerPcs, Terminal, Done, Ended
<1>7. ~overlap' => Alone'
  BY DEF IInv, TypeOK, PcTypeOK, Alone, Paid, Terminal, Done, Ended
<1>8. ~overlap' => KeptInQueue'
  BY DEF IInv, TypeOK, PcTypeOK, QueueTypeOK, Exclusive, LockedPcs, WorkerPcs,
     KeptInQueue, Queued, Unpaid, SettlePcs, Alone, Paid, ReleaserKnows,
     Ended, Recorded, BeforeRecord, ClaimsKept, PricedFirst, Indexed,
     Settling, Spent, BillingTypeOK, Terminal, Done
<1>9. Recorded' /\ Refunded' /\ (~overlap' /\ ~lost' => Charged')
  BY DEF IInv, Recorded, BeforeRecord, Refunded, Paid, Spent, Charged,
     Unpaid, Queued
<1> QED  BY <1>1, <1>2, <1>3, <1>4, <1>5, <1>6, <1>7, <1>8, <1>9 DEF IInv

\* PollProvider keeps the invariant.
LEMMA PollProviderInv ==
    ASSUME IInv, NEW w \in Workers, PollProvider(w)
    PROVE  IInv'
<1> USE DEF PollProvider, WorkerTo, Fault, NoFault, billingVars, queueVars,
        jobVars, upVars, mishapVars
<1>1. TypeOK'
  <2>1. PcTypeOK'
    BY DEF IInv, TypeOK, PcTypeOK, SubmitPcs, OwnerPcs, RecoveryPcs, WorkerPcs
  <2>2. MishapTypeOK'
    BY JobAssumption DEF IInv, TypeOK, MishapTypeOK
  <2>3. BillingTypeOK' /\ QueueTypeOK' /\ JobTypeOK' /\ UpTypeOK'
    BY DEF IInv, TypeOK, BillingTypeOK, QueueTypeOK, JobTypeOK, UpTypeOK
  <2> QED  BY <2>1, <2>2, <2>3 DEF TypeOK
<1>2. ReleaserKnows'
  BY DEF IInv, TypeOK, PcTypeOK, ReleaserKnows, Ended
<1>3. ClaimsKept'
  BY DEF IInv, TypeOK, PcTypeOK, ClaimsKept, Paid
<1>4. PricedFirst'
  BY DEF IInv, TypeOK, PcTypeOK, PricedFirst, Indexed, Paid, SettlePcs
<1>5. Settling'
  BY DEF IInv, TypeOK, PcTypeOK, Settling, Paid, SettlePcs, Spent
<1>6. ~overlap' => Exclusive'
  BY QueueAssumption DEF IInv, TypeOK, PcTypeOK, Exclusive, LockedPcs,
     WorkerPcs
<1>7. ~overlap' => Alone'
  BY DEF IInv, TypeOK, PcTypeOK, Alone, Paid
<1>8. ~overlap' => KeptInQueue'
  BY DEF IInv, TypeOK, PcTypeOK, KeptInQueue, Queued, Unpaid, SettlePcs
<1>9. Recorded' /\ Refunded' /\ (~overlap' /\ ~lost' => Charged')
  BY DEF IInv, Recorded, BeforeRecord, Refunded, Paid, Spent, Charged,
     Unpaid, Queued
<1> QED  BY <1>1, <1>2, <1>3, <1>4, <1>5, <1>6, <1>7, <1>8, <1>9 DEF IInv

\* Advance keeps the invariant.
LEMMA AdvanceInv ==
    ASSUME IInv, NEW w \in Workers,
           NEW s \in {"running", "indexing", "failed", "cancelled", "settling"},
           Advance(w, s)
    PROVE  IInv'
<1> USE DEF Advance, WorkerTo, Fault, NoFault, After, Transition, SetStatus,
        billingVars, queueVars, jobVars, upVars, mishapVars
<1>1. TypeOK'
  <2>1. JobTypeOK'
    BY JobAssumption DEF IInv, TypeOK, JobTypeOK, Statuses, Terminal, Ended,
       CanTransition
  <2>2. PcTypeOK'
    BY DEF IInv, TypeOK, PcTypeOK, SubmitPcs, OwnerPcs, RecoveryPcs,
       WorkerPcs, Terminal, Ended, CanTransition
  <2>3. MishapTypeOK'
    BY JobAssumption DEF IInv, TypeOK, MishapTypeOK
  <2>4. BillingTypeOK' /\ QueueTypeOK' /\ UpTypeOK'
    BY DEF IInv, TypeOK, BillingTypeOK, QueueTypeOK, UpTypeOK
  <2> QED  BY <2>1, <2>2, <2>3, <2>4 DEF TypeOK
<1>2. Recorded'
  BY DEF IInv, Recorded, BeforeRecord, Ended, Terminal, CanTransition
<1>3. ReleaserKnows'
  BY DEF IInv, TypeOK, PcTypeOK, ReleaserKnows, Ended, Terminal, CanTransition
<1>4. ClaimsKept'
  BY DEF IInv, TypeOK, PcTypeOK, ClaimsKept, Paid, Terminal, Ended,
     CanTransition
<1>5. PricedFirst'
  BY DEF IInv, TypeOK, PcTypeOK, PricedFirst, Indexed, Paid, SettlePcs,
     Recorded, BeforeRecord, Ended, Terminal, CanTransition
<1>6. Settling'
  BY DEF IInv, TypeOK, PcTypeOK, Settling, Paid, SettlePcs, Spent,
     Terminal, Ended, CanTransition
<1>7. Refunded'
  BY DEF IInv, Refunded, Ended, Paid, Spent, Terminal, CanTransition
<1>8. ~overlap' => Exclusive'
  BY QueueAssumption DEF IInv, TypeOK, PcTypeOK, Exclusive, LockedPcs,
     WorkerPcs, Terminal, Ended, CanTransition
<1>9. ~overlap' => Alone'
  BY DEF IInv, TypeOK, PcTypeOK, Alone, Paid, Recorded, BeforeRecord, Ended,
     Exclusive, LockedPcs, WorkerPcs, Refunded, Spent, PricedFirst,
     Indexed, SettlePcs, Terminal, CanTransition
<1>10. ~overlap' => KeptInQueue'
  BY DEF IInv, TypeOK, PcTypeOK, KeptInQueue, Queued, Unpaid, SettlePcs,
     QueueTypeOK, Exclusive, LockedPcs, WorkerPcs, ClaimsKept, Paid, Alone,
     Terminal, Ended, CanTransition
<1>11. ~overlap' /\ ~lost' => Charged'
  BY DEF IInv, TypeOK, Charged, Unpaid, Ended, Queued, Recorded, BeforeRecord,
     QueueTypeOK, KeptInQueue, SettlePcs, ClaimsKept, Paid, Terminal,
     CanTransition
<1> QED  BY <1>1, <1>2, <1>3, <1>4, <1>5, <1>6, <1>7, <1>8, <1>9, <1>10, <1>11
         DEF IInv

\* IndexResult keeps the invariant.
LEMMA IndexResultInv ==
    ASSUME IInv, NEW w \in Workers, IndexResult(w)
    PROVE  IInv'
<1> USE DEF IndexResult, WorkerTo, Fault, NoFault, billingVars, queueVars,
        jobVars, upVars, mishapVars
<1>1. TypeOK'
  <2>1. JobTypeOK'
    BY JobAssumption DEF IInv, TypeOK, JobTypeOK, Statuses, Terminal, UpTypeOK
  <2>2. PcTypeOK'
    BY DEF IInv, TypeOK, PcTypeOK, SubmitPcs, OwnerPcs, RecoveryPcs, WorkerPcs
  <2>3. MishapTypeOK'
    BY JobAssumption DEF IInv, TypeOK, MishapTypeOK
  <2>4. BillingTypeOK' /\ QueueTypeOK' /\ UpTypeOK'
    BY DEF IInv, TypeOK, BillingTypeOK, QueueTypeOK, UpTypeOK
  <2> QED  BY <2>1, <2>2, <2>3, <2>4 DEF TypeOK
<1>2. ReleaserKnows'
  BY DEF IInv, TypeOK, PcTypeOK, ReleaserKnows, Ended
<1>3. ClaimsKept'
  BY DEF IInv, TypeOK, PcTypeOK, ClaimsKept, Paid
<1>4. PricedFirst'
  BY DEF IInv, TypeOK, PcTypeOK, PricedFirst, Indexed, Paid, SettlePcs
<1>5. Settling'
  BY DEF IInv, TypeOK, PcTypeOK, Settling, Paid, SettlePcs, Spent
<1>6. ~overlap' => Exclusive'
  BY QueueAssumption DEF IInv, TypeOK, PcTypeOK, Exclusive, LockedPcs,
     WorkerPcs
<1>7. ~overlap' => Alone'
  BY DEF IInv, TypeOK, PcTypeOK, Alone, Paid
<1>8. ~overlap' => KeptInQueue'
  BY DEF IInv, TypeOK, PcTypeOK, KeptInQueue, Queued, Unpaid, SettlePcs
<1>9. Recorded' /\ Refunded' /\ (~overlap' /\ ~lost' => Charged')
  BY DEF IInv, Recorded, BeforeRecord, Refunded, Paid, Spent, Charged,
     Unpaid, Queued
<1> QED  BY <1>1, <1>2, <1>3, <1>4, <1>5, <1>6, <1>7, <1>8, <1>9 DEF IInv

\* ReleaseTerminalHold keeps the invariant.
LEMMA ReleaseTerminalHoldInv ==
    ASSUME IInv, NEW w \in Workers, ReleaseTerminalHold(w)
    PROVE  IInv'
<1> USE DEF ReleaseTerminalHold, WorkerTo, ReleaseFails, Fault, NoFault,
        billingVars, queueVars, jobVars, upVars, mishapVars
<1>1. TypeOK'
  <2>1. BillingTypeOK'
    BY ReleaseBalanceType DEF IInv, TypeOK, BillingTypeOK
  <2>2. PcTypeOK'
    BY DEF IInv, TypeOK, PcTypeOK, SubmitPcs, OwnerPcs, RecoveryPcs, WorkerPcs
  <2>3. MishapTypeOK'
    BY JobAssumption DEF IInv, TypeOK, MishapTypeOK
  <2>4. QueueTypeOK' /\ JobTypeOK' /\ UpTypeOK'
    BY DEF IInv, TypeOK, QueueTypeOK, JobTypeOK, UpTypeOK
  <2> QED  BY <2>1, <2>2, <2>3, <2>4 DEF TypeOK
<1>2. ReleaserKnows'
  BY DEF IInv, TypeOK, PcTypeOK, ReleaserKnows, Ended
<1>3. ClaimsKept'
  BY DEF IInv, TypeOK, PcTypeOK, ClaimsKept, Paid, Repeated, Move,
     SkipRelease, ReleaseBalance, ReleaseRefused
<1>4. PricedFirst'
  BY DEF IInv, TypeOK, PcTypeOK, PricedFirst, Indexed, Paid, SettlePcs,
     Repeated, Move, SkipRelease, ReleaseBalance, ReleaseRefused
<1>5. Settling'
  BY DEF IInv, TypeOK, PcTypeOK, Settling, Paid, SettlePcs, Spent
<1>6. Refunded'
  BY DEF IInv, TypeOK, Refunded, Ended, Paid, Spent, Recorded,
     BeforeRecord, ReleaserKnows, Settling, SettlePcs, JobTypeOK, Repeated,
     Move, SkipRelease, ReleaseBalance, ReleaseRefused
<1>7. ~overlap' => Exclusive'
  BY QueueAssumption DEF IInv, TypeOK, PcTypeOK, Exclusive, LockedPcs,
     WorkerPcs
<1>8. ~overlap' => Alone'
  BY DEF IInv, TypeOK, PcTypeOK, Alone, Paid, Exclusive, LockedPcs, WorkerPcs,
     Settling, SettlePcs, Spent, ClaimsKept, ReleaserKnows, Ended,
     Repeated, Move, SkipRelease, ReleaseBalance, ReleaseRefused
<1>9. ~overlap' => KeptInQueue'
  BY DEF IInv, TypeOK, PcTypeOK, KeptInQueue, Queued, Unpaid, SettlePcs,
     Repeated, Move, SkipRelease, ReleaseBalance, ReleaseRefused
<1>10. ~overlap' /\ ~lost' => Charged'
  BY DEF IInv, Charged, Unpaid, Ended, Queued, Repeated, Move, SkipRelease,
     ReleaseBalance, ReleaseRefused
<1>11. Recorded'
  BY DEF IInv, Recorded, BeforeRecord
<1> QED  BY <1>1, <1>2, <1>3, <1>4, <1>5, <1>6, <1>7, <1>8, <1>9, <1>10, <1>11
         DEF IInv

\* Settle keeps the invariant.
LEMMA SettleInv ==
    ASSUME IInv, NEW w \in Workers, Settle(w)
    PROVE  IInv'
<1> USE DEF Settle, Exhausted, WorkerTo, Fault, NoFault, billingVars, queueVars, jobVars,
        upVars, mishapVars
<1>1. TypeOK'
  <2>1. PcTypeOK'
    BY DEF IInv, TypeOK, PcTypeOK, SubmitPcs, OwnerPcs, RecoveryPcs,
       WorkerPcs, Spent
  <2>2. MishapTypeOK'
    BY JobAssumption DEF IInv, TypeOK, MishapTypeOK
  <2>3. BillingTypeOK' /\ QueueTypeOK' /\ JobTypeOK' /\ UpTypeOK'
    BY DEF IInv, TypeOK, BillingTypeOK, QueueTypeOK, JobTypeOK, UpTypeOK
  <2> QED  BY <2>1, <2>2, <2>3 DEF TypeOK
<1>2. ReleaserKnows'
  BY DEF IInv, TypeOK, PcTypeOK, ReleaserKnows, Ended, Spent
<1>3. ClaimsKept'
  BY DEF IInv, TypeOK, PcTypeOK, ClaimsKept, Paid, Spent
<1>4. PricedFirst'
  BY DEF IInv, TypeOK, PcTypeOK, PricedFirst, Indexed, Paid, SettlePcs,
     Spent
<1>5. Settling'
  BY DEF IInv, TypeOK, PcTypeOK, Settling, Paid, SettlePcs, Spent
<1>6. ~overlap' => Exclusive'
  BY QueueAssumption DEF IInv, TypeOK, PcTypeOK, Exclusive, LockedPcs,
     WorkerPcs, Spent
<1>7. ~overlap' => Alone'
  BY DEF IInv, TypeOK, PcTypeOK, Alone, Paid, Recorded, BeforeRecord, Ended,
     Exclusive, LockedPcs, WorkerPcs, Refunded, Spent, PricedFirst,
     Indexed, SettlePcs
<1>8. ~overlap' => KeptInQueue'
  BY DEF IInv, TypeOK, PcTypeOK, KeptInQueue, Queued, Unpaid, SettlePcs,
     Recorded, BeforeRecord, Ended, QueueTypeOK, ClaimsKept, Paid,
     BillingTypeOK, Spent
<1>9. Recorded' /\ Refunded' /\ (~overlap' /\ ~lost' => Charged')
  BY DEF IInv, Recorded, BeforeRecord, Refunded, Paid, Spent, Charged,
     Unpaid, Queued
<1> QED  BY <1>1, <1>2, <1>3, <1>4, <1>5, <1>6, <1>7, <1>8, <1>9 DEF IInv

\* CaptureHold keeps the invariant.
LEMMA CaptureHoldInv ==
    ASSUME IInv, NEW w \in Workers, CaptureHold(w)
    PROVE  IInv'
<1> USE DEF CaptureHold, WorkerTo, Fault, NoFault, billingVars, queueVars,
        jobVars, upVars, mishapVars
<1>1. TypeOK'
  <2>1. BillingTypeOK'
    BY CaptureBalanceType, JobAssumption DEF IInv, TypeOK, BillingTypeOK,
       JobTypeOK
  <2>2. PcTypeOK'
    BY DEF IInv, TypeOK, PcTypeOK, SubmitPcs, OwnerPcs, RecoveryPcs, WorkerPcs
  <2>3. MishapTypeOK'
    BY JobAssumption DEF IInv, TypeOK, MishapTypeOK
  <2>4. QueueTypeOK' /\ JobTypeOK' /\ UpTypeOK'
    BY DEF IInv, TypeOK, QueueTypeOK, JobTypeOK, UpTypeOK
  <2> QED  BY <2>1, <2>2, <2>3, <2>4 DEF TypeOK
<1>2. ReleaserKnows'
  BY DEF IInv, TypeOK, PcTypeOK, ReleaserKnows, Ended
<1>3. ClaimsKept'
  BY DEF IInv, TypeOK, PcTypeOK, ClaimsKept, Paid, Repeated, Move,
     CaptureBalance, CaptureRefused
<1>4. PricedFirst'
  BY DEF IInv, TypeOK, PcTypeOK, PricedFirst, Indexed, Paid, SettlePcs,
     Repeated, Move, CaptureBalance, CaptureRefused
<1>5. Settling'
  BY DEF IInv, TypeOK, PcTypeOK, Settling, Paid, SettlePcs, Spent
<1>6. Refunded'
  BY DEF IInv, Refunded, Ended, Paid, Spent, Repeated, Move,
     CaptureBalance, CaptureRefused
<1>7. ~overlap' => Exclusive'
  BY QueueAssumption DEF IInv, TypeOK, PcTypeOK, Exclusive, LockedPcs,
     WorkerPcs
<1>8. ~overlap' => Alone'
  BY DEF IInv, TypeOK, PcTypeOK, Alone, Paid, Repeated, Move, CaptureBalance,
     CaptureRefused
<1>9. ~overlap' => KeptInQueue'
  BY DEF IInv, TypeOK, PcTypeOK, KeptInQueue, Queued, Unpaid, SettlePcs,
     Repeated, Move, CaptureBalance, CaptureRefused
<1>10. ~overlap' /\ ~lost' => Charged'
  BY DEF IInv, Charged, Unpaid, Ended, Queued, Repeated, Move, CaptureBalance,
     CaptureRefused
<1>11. Recorded'
  BY DEF IInv, Recorded, BeforeRecord
<1> QED  BY <1>1, <1>2, <1>3, <1>4, <1>5, <1>6, <1>7, <1>8, <1>9, <1>10, <1>11
         DEF IInv

\* MarkSettled keeps the invariant.
LEMMA MarkSettledInv ==
    ASSUME IInv, NEW w \in Workers, MarkSettled(w)
    PROVE  IInv'
<1> USE DEF MarkSettled, WorkerTo, Fault, NoFault, SetStatus, billingVars,
        queueVars, jobVars, upVars, mishapVars
<1>1. TypeOK'
  <2>1. JobTypeOK'
    BY JobAssumption DEF IInv, TypeOK, JobTypeOK, Statuses, Terminal
  <2>2. PcTypeOK'
    BY DEF IInv, TypeOK, PcTypeOK, SubmitPcs, OwnerPcs, RecoveryPcs, WorkerPcs
  <2>3. MishapTypeOK'
    BY JobAssumption DEF IInv, TypeOK, MishapTypeOK
  <2>4. BillingTypeOK' /\ QueueTypeOK' /\ UpTypeOK'
    BY DEF IInv, TypeOK, BillingTypeOK, QueueTypeOK, UpTypeOK
  <2> QED  BY <2>1, <2>2, <2>3, <2>4 DEF TypeOK
<1>2. Recorded'
  BY DEF IInv, Recorded, BeforeRecord, Ended
<1>3. ReleaserKnows'
  BY DEF IInv, TypeOK, PcTypeOK, ReleaserKnows, Ended
<1>4. ClaimsKept'
  BY DEF IInv, TypeOK, PcTypeOK, ClaimsKept, Paid
<1>5. PricedFirst'
  BY DEF IInv, TypeOK, PcTypeOK, PricedFirst, Indexed, Paid, SettlePcs
<1>6. Settling'
  BY DEF IInv, TypeOK, PcTypeOK, Settling, Paid, SettlePcs, Spent
<1>7. Refunded'
  BY DEF IInv, Refunded, Ended, Paid, Spent
<1>8. ~overlap' => Exclusive'
  BY QueueAssumption DEF IInv, TypeOK, PcTypeOK, Exclusive, LockedPcs,
     WorkerPcs
<1>9. ~overlap' => Alone'
  BY DEF IInv, TypeOK, PcTypeOK, Alone, Paid, Recorded, BeforeRecord, Ended,
     Exclusive, LockedPcs, WorkerPcs, Refunded, Spent, PricedFirst,
     Indexed, SettlePcs
<1>10. ~overlap' => KeptInQueue'
  BY DEF IInv, TypeOK, PcTypeOK, KeptInQueue, Queued, Unpaid, SettlePcs,
     Recorded, BeforeRecord, Ended, QueueTypeOK, ClaimsKept, Paid,
     BillingTypeOK
<1>11. ~overlap' /\ ~lost' => Charged'
  BY DEF IInv, Charged, Unpaid, Ended, Queued
<1> QED  BY <1>1, <1>2, <1>3, <1>4, <1>5, <1>6, <1>7, <1>8, <1>9, <1>10, <1>11
         DEF IInv

\* RefuseSettlement keeps the invariant.
LEMMA RefuseSettlementInv ==
    ASSUME IInv, NEW w \in Workers, RefuseSettlement(w)
    PROVE  IInv'
<1> USE DEF RefuseSettlement, CountFailure, WorkerTo, Fault, NoFault,
        billingVars, queueVars, jobVars, upVars, mishapVars
<1>1. TypeOK'
  <2>1. JobTypeOK'
    BY JobAssumption DEF IInv, TypeOK, JobTypeOK, Statuses, Terminal,
       Spent
  <2>2. PcTypeOK'
    BY DEF IInv, TypeOK, PcTypeOK, SubmitPcs, OwnerPcs, RecoveryPcs,
       WorkerPcs, Spent
  <2>3. MishapTypeOK'
    BY JobAssumption DEF IInv, TypeOK, MishapTypeOK
  <2>4. BillingTypeOK' /\ QueueTypeOK' /\ UpTypeOK'
    BY DEF IInv, TypeOK, BillingTypeOK, QueueTypeOK, UpTypeOK
  <2> QED  BY <2>1, <2>2, <2>3, <2>4 DEF TypeOK
<1>2. ReleaserKnows'
  BY DEF IInv, TypeOK, PcTypeOK, ReleaserKnows, Ended, Spent
<1>3. ClaimsKept'
  BY DEF IInv, TypeOK, PcTypeOK, ClaimsKept, Paid, Spent
<1>4. PricedFirst'
  BY DEF IInv, TypeOK, PcTypeOK, PricedFirst, Indexed, Paid, SettlePcs,
     Spent
<1>5. Settling'
  BY DEF IInv, TypeOK, PcTypeOK, Settling, Paid, SettlePcs, Spent
<1>6. Refunded'
  BY DEF IInv, Refunded, Ended, Paid, Spent
<1>7. ~overlap' => Exclusive'
  BY QueueAssumption DEF IInv, TypeOK, PcTypeOK, Exclusive, LockedPcs,
     WorkerPcs, Spent
<1>8. ~overlap' => Alone'
  <2> SUFFICES ASSUME ~overlap
               PROVE  Alone'
    BY DEF IInv, TypeOK, MishapTypeOK
  <2>1. \A v \in Workers : v # w => wpc[v] \notin {"capture", "settled"}
    BY DEF IInv, Exclusive, LockedPcs, WorkerPcs
  <2>2. \A v \in Workers : wpc'[v] = wpc[v] \/ wpc'[v] \in {"exhaust", "reread"}
    BY DEF IInv, TypeOK, PcTypeOK
  <2>3. \A v \in Workers : wpc'[v] \notin {"capture", "settled"}
    BY <2>1, <2>2 DEF IInv, TypeOK, PcTypeOK
  <2>4. status' = status /\ moves' = moves /\ status \notin Paid
    BY DEF IInv, Alone
  <2>5. \A v \in Workers : wpc'[v] = "process" => wpc[v] = "process"
    BY <2>2
  <2> QED  BY <2>3, <2>4, <2>5 DEF IInv, Alone
<1>9. ~overlap' => KeptInQueue'
  BY DEF IInv, TypeOK, PcTypeOK, KeptInQueue, Queued, Unpaid, SettlePcs,
     Spent
<1>10. Recorded' /\ (~overlap' /\ ~lost' => Charged')
  BY DEF IInv, Recorded, BeforeRecord, Charged, Unpaid, Queued
<1> QED  BY <1>1, <1>2, <1>3, <1>4, <1>5, <1>6, <1>7, <1>8, <1>9, <1>10 DEF
         IInv

\* ExhaustSettlement keeps the invariant.
LEMMA ExhaustSettlementInv ==
    ASSUME IInv, NEW w \in Workers, ExhaustSettlement(w)
    PROVE  IInv'
<1> USE DEF ExhaustSettlement, WorkerTo, ReleaseFails, Fault, NoFault,
        billingVars, queueVars, jobVars, upVars, mishapVars
<1>1. TypeOK'
  <2>1. BillingTypeOK'
    BY ReleaseBalanceType DEF IInv, TypeOK, BillingTypeOK
  <2>2. PcTypeOK'
    BY DEF IInv, TypeOK, PcTypeOK, SubmitPcs, OwnerPcs, RecoveryPcs, WorkerPcs
  <2>3. MishapTypeOK'
    BY JobAssumption DEF IInv, TypeOK, MishapTypeOK
  <2>4. QueueTypeOK' /\ JobTypeOK' /\ UpTypeOK'
    BY DEF IInv, TypeOK, QueueTypeOK, JobTypeOK, UpTypeOK
  <2> QED  BY <2>1, <2>2, <2>3, <2>4 DEF TypeOK
<1>2. ReleaserKnows'
  BY DEF IInv, TypeOK, PcTypeOK, ReleaserKnows, Ended
<1>3. ClaimsKept'
  BY DEF IInv, TypeOK, PcTypeOK, ClaimsKept, Paid, Repeated, Move,
     SkipRelease, ReleaseBalance, ReleaseRefused
<1>4. PricedFirst'
  BY DEF IInv, TypeOK, PcTypeOK, PricedFirst, Indexed, Paid, SettlePcs,
     Repeated, Move, SkipRelease, ReleaseBalance, ReleaseRefused
<1>5. Settling'
  BY DEF IInv, TypeOK, PcTypeOK, Settling, Paid, SettlePcs, Spent
<1>6. Refunded'
  BY DEF IInv, TypeOK, Refunded, Ended, Paid, Spent, Recorded,
     BeforeRecord, ReleaserKnows, Settling, SettlePcs, JobTypeOK, Repeated,
     Move, SkipRelease, ReleaseBalance, ReleaseRefused
<1>7. ~overlap' => Exclusive'
  BY QueueAssumption DEF IInv, TypeOK, PcTypeOK, Exclusive, LockedPcs,
     WorkerPcs
<1>8. ~overlap' => Alone'
  BY DEF IInv, TypeOK, PcTypeOK, Alone, Paid, Recorded, BeforeRecord, Ended,
     Exclusive, LockedPcs, WorkerPcs, Refunded, Spent, PricedFirst,
     Indexed, SettlePcs, Repeated, Move, SkipRelease, ReleaseBalance,
     ReleaseRefused
<1>9. ~overlap' => KeptInQueue'
  BY DEF IInv, TypeOK, PcTypeOK, KeptInQueue, Queued, Unpaid, SettlePcs,
     Repeated, Move, SkipRelease, ReleaseBalance, ReleaseRefused
<1>10. ~overlap' /\ ~lost' => Charged'
  BY DEF IInv, Charged, Unpaid, Ended, Queued, Repeated, Move, SkipRelease,
     ReleaseBalance, ReleaseRefused
<1>11. Recorded'
  BY DEF IInv, Recorded, BeforeRecord
<1> QED  BY <1>1, <1>2, <1>3, <1>4, <1>5, <1>6, <1>7, <1>8, <1>9, <1>10, <1>11
         DEF IInv

\* GiveUp keeps the invariant.
LEMMA GiveUpInv ==
    ASSUME IInv, NEW w \in Workers, GiveUp(w)
    PROVE  IInv'
<1> USE DEF GiveUp, WorkerTo, Fault, NoFault, Transition, SetStatus,
        billingVars, queueVars, jobVars, upVars, mishapVars
<1>1. TypeOK'
  <2>1. JobTypeOK'
    BY JobAssumption DEF IInv, TypeOK, JobTypeOK, Statuses, Terminal,
       CanTransition
  <2>2. PcTypeOK'
    BY DEF IInv, TypeOK, PcTypeOK, SubmitPcs, OwnerPcs, RecoveryPcs,
       WorkerPcs, Terminal, CanTransition
  <2>3. MishapTypeOK'
    BY JobAssumption DEF IInv, TypeOK, MishapTypeOK
  <2>4. BillingTypeOK' /\ QueueTypeOK' /\ UpTypeOK'
    BY DEF IInv, TypeOK, BillingTypeOK, QueueTypeOK, UpTypeOK
  <2> QED  BY <2>1, <2>2, <2>3, <2>4 DEF TypeOK
<1>2. Recorded'
  BY DEF IInv, Recorded, BeforeRecord, Ended, Terminal, CanTransition
<1>3. ReleaserKnows'
  BY DEF IInv, TypeOK, PcTypeOK, ReleaserKnows, Ended, Terminal, CanTransition
<1>4. ClaimsKept'
  BY DEF IInv, TypeOK, PcTypeOK, ClaimsKept, Paid, Terminal, CanTransition
<1>5. PricedFirst'
  BY DEF IInv, TypeOK, PcTypeOK, PricedFirst, Indexed, Paid, SettlePcs,
     Terminal, CanTransition
<1>6. Settling'
  BY DEF IInv, TypeOK, PcTypeOK, Settling, Paid, SettlePcs, Spent,
     Terminal, CanTransition
<1>7. Refunded'
  BY DEF IInv, Refunded, Ended, Paid, Spent, Terminal, CanTransition
<1>8. ~overlap' => Exclusive'
  BY QueueAssumption DEF IInv, TypeOK, PcTypeOK, Exclusive, LockedPcs,
     WorkerPcs, Terminal, CanTransition
<1>9. ~overlap' => Alone'
  BY DEF IInv, TypeOK, PcTypeOK, Alone, Paid, Terminal, CanTransition
<1>10. ~overlap' => KeptInQueue'
  BY DEF IInv, TypeOK, PcTypeOK, KeptInQueue, Queued, Unpaid, SettlePcs,
     Recorded, BeforeRecord, Ended, QueueTypeOK, ClaimsKept, Paid,
     BillingTypeOK, Terminal, CanTransition
<1>11. ~overlap' /\ ~lost' => Charged'
  BY DEF IInv, TypeOK, Charged, Unpaid, Ended, Queued, Recorded, BeforeRecord,
     QueueTypeOK, KeptInQueue, SettlePcs, ClaimsKept, Paid, Terminal,
     CanTransition
<1> QED  BY <1>1, <1>2, <1>3, <1>4, <1>5, <1>6, <1>7, <1>8, <1>9, <1>10, <1>11
         DEF IInv

\* Reread keeps the invariant.
LEMMA RereadInv ==
    ASSUME IInv, NEW w \in Workers, Reread(w)
    PROVE  IInv'
<1> USE DEF Reread, WorkerTo, Fault, NoFault, billingVars, queueVars, jobVars,
        upVars, mishapVars
<1>1. TypeOK'
  <2>1. PcTypeOK'
    BY DEF IInv, TypeOK, PcTypeOK, SubmitPcs, OwnerPcs, RecoveryPcs,
       WorkerPcs, Terminal
  <2>2. MishapTypeOK'
    BY JobAssumption DEF IInv, TypeOK, MishapTypeOK
  <2>3. BillingTypeOK' /\ QueueTypeOK' /\ JobTypeOK' /\ UpTypeOK'
    BY DEF IInv, TypeOK, BillingTypeOK, QueueTypeOK, JobTypeOK, UpTypeOK
  <2> QED  BY <2>1, <2>2, <2>3 DEF TypeOK
<1>2. ReleaserKnows'
  BY DEF IInv, TypeOK, PcTypeOK, ReleaserKnows, Ended, Terminal
<1>3. ClaimsKept'
  BY DEF IInv, TypeOK, PcTypeOK, ClaimsKept, Paid, Terminal
<1>4. PricedFirst'
  BY DEF IInv, TypeOK, PcTypeOK, PricedFirst, Indexed, Paid, SettlePcs,
     Terminal
<1>5. Settling'
  BY DEF IInv, TypeOK, PcTypeOK, Settling, Paid, SettlePcs, Spent,
     Terminal
<1>6. ~overlap' => Exclusive'
  BY QueueAssumption DEF IInv, TypeOK, PcTypeOK, Exclusive, LockedPcs,
     WorkerPcs, Terminal
<1>7. ~overlap' => Alone'
  BY DEF IInv, TypeOK, PcTypeOK, Alone, Paid, Terminal
<1>8. ~overlap' => KeptInQueue'
  BY DEF IInv, TypeOK, PcTypeOK, KeptInQueue, Queued, Unpaid, SettlePcs,
     Terminal
<1>9. Recorded' /\ Refunded' /\ (~overlap' /\ ~lost' => Charged')
  BY DEF IInv, Recorded, BeforeRecord, Refunded, Paid, Spent, Charged,
     Unpaid, Queued
<1> QED  BY <1>1, <1>2, <1>3, <1>4, <1>5, <1>6, <1>7, <1>8, <1>9 DEF IInv

\* RequeueJob keeps the invariant.
LEMMA RequeueJobInv ==
    ASSUME IInv, NEW w \in Workers, RequeueJob(w)
    PROVE  IInv'
<1> USE DEF RequeueJob, WorkerTo, Fault, NoFault, billingVars, queueVars,
        jobVars, upVars, mishapVars
<1>1. TypeOK'
  <2>1. QueueTypeOK'
    BY RequeueAfterType DEF IInv, TypeOK, QueueTypeOK
  <2>2. PcTypeOK'
    BY DEF IInv, TypeOK, PcTypeOK, SubmitPcs, OwnerPcs, RecoveryPcs, WorkerPcs
  <2>3. MishapTypeOK'
    BY JobAssumption DEF IInv, TypeOK, MishapTypeOK
  <2>4. BillingTypeOK' /\ JobTypeOK' /\ UpTypeOK'
    BY DEF IInv, TypeOK, BillingTypeOK, JobTypeOK, UpTypeOK
  <2> QED  BY <2>1, <2>2, <2>3, <2>4 DEF TypeOK
<1>2. ReleaserKnows'
  BY DEF IInv, TypeOK, PcTypeOK, ReleaserKnows, Ended
<1>3. ClaimsKept'
  BY DEF IInv, TypeOK, PcTypeOK, ClaimsKept, Paid
<1>4. PricedFirst'
  BY DEF IInv, TypeOK, PcTypeOK, PricedFirst, Indexed, Paid, SettlePcs
<1>5. Settling'
  BY DEF IInv, TypeOK, PcTypeOK, Settling, Paid, SettlePcs, Spent
<1>6. ~overlap' => Exclusive'
  BY QueueAssumption DEF IInv, TypeOK, PcTypeOK, Exclusive, LockedPcs,
     WorkerPcs, RequeueAfter
<1>7. ~overlap' => Alone'
  BY DEF IInv, TypeOK, PcTypeOK, Alone, Paid, RequeueAfter
<1>8. ~overlap' => KeptInQueue'
  BY DEF IInv, TypeOK, PcTypeOK, KeptInQueue, Queued, Unpaid, SettlePcs,
     RequeueAfter
<1>9. ~overlap' /\ ~lost' => Charged'
  BY DEF IInv, Charged, Unpaid, Ended, Queued, RequeueAfter
<1>10. Recorded' /\ Refunded'
  BY DEF IInv, Recorded, BeforeRecord, Refunded, Paid, Spent
<1> QED  BY <1>1, <1>2, <1>3, <1>4, <1>5, <1>6, <1>7, <1>8, <1>9, <1>10 DEF
         IInv

\* AckJob keeps the invariant.
LEMMA AckJobInv ==
    ASSUME IInv, NEW w \in Workers, AckJob(w)
    PROVE  IInv'
<1> USE DEF AckJob, WorkerTo, Fault, NoFault, billingVars, queueVars, jobVars,
        upVars, mishapVars
<1>1. TypeOK'
  <2>1. QueueTypeOK'
    BY AckType DEF IInv, TypeOK, QueueTypeOK
  <2>2. PcTypeOK'
    BY DEF IInv, TypeOK, PcTypeOK, SubmitPcs, OwnerPcs, RecoveryPcs, WorkerPcs
  <2>3. MishapTypeOK'
    BY JobAssumption DEF IInv, TypeOK, MishapTypeOK
  <2>4. BillingTypeOK' /\ JobTypeOK' /\ UpTypeOK'
    BY DEF IInv, TypeOK, BillingTypeOK, JobTypeOK, UpTypeOK
  <2> QED  BY <2>1, <2>2, <2>3, <2>4 DEF TypeOK
<1>2. ReleaserKnows'
  BY DEF IInv, TypeOK, PcTypeOK, ReleaserKnows, Ended
<1>3. ClaimsKept'
  BY DEF IInv, TypeOK, PcTypeOK, ClaimsKept, Paid
<1>4. PricedFirst'
  BY DEF IInv, TypeOK, PcTypeOK, PricedFirst, Indexed, Paid, SettlePcs
<1>5. Settling'
  BY DEF IInv, TypeOK, PcTypeOK, Settling, Paid, SettlePcs, Spent
<1>6. ~overlap' => Exclusive'
  BY QueueAssumption DEF IInv, TypeOK, PcTypeOK, Exclusive, LockedPcs,
     WorkerPcs, Ack
<1>7. ~overlap' => Alone'
  BY DEF IInv, TypeOK, PcTypeOK, Alone, Paid, Ack
<1>8. ~overlap' => KeptInQueue'
  BY DEF IInv, TypeOK, PcTypeOK, KeptInQueue, Queued, Unpaid, SettlePcs, Ack
<1>9. ~overlap' /\ ~lost' => Charged'
  BY DEF IInv, TypeOK, Charged, Unpaid, Ended, Queued, Recorded, BeforeRecord,
     QueueTypeOK, KeptInQueue, SettlePcs, ClaimsKept, Paid, Ack
<1>10. Recorded' /\ Refunded'
  BY DEF IInv, Recorded, BeforeRecord, Refunded, Paid, Spent
<1> QED  BY <1>1, <1>2, <1>3, <1>4, <1>5, <1>6, <1>7, <1>8, <1>9, <1>10 DEF
         IInv

\* ReleaseLock keeps the invariant.
LEMMA ReleaseLockInv ==
    ASSUME IInv, NEW w \in Workers, ReleaseLock(w)
    PROVE  IInv'
<1> USE DEF ReleaseLock, WorkerTo, Fault, NoFault, billingVars, jobVars,
        upVars, mishapVars
<1>1. TypeOK'
  <2>1. QueueTypeOK'
    BY QueueAssumption DEF IInv, TypeOK, QueueTypeOK, Unlock, Forget
  <2>2. PcTypeOK'
    BY DEF IInv, TypeOK, PcTypeOK, SubmitPcs, OwnerPcs, RecoveryPcs, WorkerPcs
  <2>3. MishapTypeOK'
    BY JobAssumption DEF IInv, TypeOK, MishapTypeOK
  <2>4. BillingTypeOK' /\ JobTypeOK' /\ UpTypeOK'
    BY DEF IInv, TypeOK, BillingTypeOK, JobTypeOK, UpTypeOK
  <2> QED  BY <2>1, <2>2, <2>3, <2>4 DEF TypeOK
<1>2. ReleaserKnows'
  BY DEF IInv, TypeOK, PcTypeOK, ReleaserKnows, Ended
<1>3. ClaimsKept'
  BY DEF IInv, TypeOK, PcTypeOK, ClaimsKept, Paid
<1>4. PricedFirst'
  BY DEF IInv, TypeOK, PcTypeOK, PricedFirst, Indexed, Paid, SettlePcs
<1>5. Settling'
  BY DEF IInv, TypeOK, PcTypeOK, Settling, Paid, SettlePcs, Spent
<1>6. ~overlap' => Exclusive'
  BY QueueAssumption DEF IInv, TypeOK, PcTypeOK, Exclusive, LockedPcs,
     WorkerPcs, Unlock, Forget
<1>7. ~overlap' => Alone'
  BY DEF IInv, TypeOK, PcTypeOK, Alone, Paid, Unlock, Forget
<1>8. ~overlap' => KeptInQueue'
  BY DEF IInv, TypeOK, PcTypeOK, KeptInQueue, Queued, Unpaid, SettlePcs,
     Unlock, Forget
<1>9. Recorded' /\ Refunded' /\ (~overlap' /\ ~lost' => Charged')
  BY DEF IInv, Recorded, BeforeRecord, Refunded, Paid, Spent, Charged,
     Unpaid, Queued, Unlock, Forget
<1> QED  BY <1>1, <1>2, <1>3, <1>4, <1>5, <1>6, <1>7, <1>8, <1>9 DEF IInv

\* CrashWorker keeps the invariant.
LEMMA CrashWorkerInv ==
    ASSUME IInv, NEW w \in Workers, CrashWorker(w)
    PROVE  IInv'
<1> USE DEF CrashWorker, Fault, WorkerTo, billingVars, jobVars, upVars
<1>1. TypeOK'
  <2>1. QueueTypeOK'
    BY QueueAssumption DEF IInv, TypeOK, QueueTypeOK, Forget
  <2>2. PcTypeOK'
    BY DEF IInv, TypeOK, PcTypeOK, SubmitPcs, OwnerPcs, RecoveryPcs, WorkerPcs
  <2>3. MishapTypeOK'
    BY JobAssumption DEF IInv, TypeOK, MishapTypeOK
  <2>4. BillingTypeOK' /\ JobTypeOK' /\ UpTypeOK'
    BY DEF IInv, TypeOK, BillingTypeOK, JobTypeOK, UpTypeOK
  <2> QED  BY <2>1, <2>2, <2>3, <2>4 DEF TypeOK
<1>2. ReleaserKnows'
  BY DEF IInv, TypeOK, PcTypeOK, ReleaserKnows, Ended
<1>3. ClaimsKept'
  BY DEF IInv, TypeOK, PcTypeOK, ClaimsKept, Paid
<1>4. PricedFirst'
  BY DEF IInv, TypeOK, PcTypeOK, PricedFirst, Indexed, Paid, SettlePcs
<1>5. Settling'
  BY DEF IInv, TypeOK, PcTypeOK, Settling, Paid, SettlePcs, Spent
<1>6. ~overlap' => Exclusive'
  BY QueueAssumption DEF IInv, TypeOK, PcTypeOK, Exclusive, LockedPcs,
     WorkerPcs, Forget
<1>7. ~overlap' => Alone'
  BY DEF IInv, TypeOK, PcTypeOK, Alone, Paid, Forget
<1>8. ~overlap' => KeptInQueue'
  BY DEF IInv, TypeOK, PcTypeOK, KeptInQueue, Queued, Unpaid, SettlePcs,
     Forget
<1>9. Recorded' /\ Refunded' /\ (~overlap' /\ ~lost' => Charged')
  BY DEF IInv, Recorded, BeforeRecord, Refunded, Paid, Spent, Charged,
     Unpaid, Queued, Forget
<1> QED  BY <1>1, <1>2, <1>3, <1>4, <1>5, <1>6, <1>7, <1>8, <1>9 DEF IInv

-----------------------------------------------------------------------------
(* The specification.                                                      *)

\* The initial states satisfy the invariant.
LEMMA InitInv == Init => IInv
<1> SUFFICES ASSUME Init
             PROVE  IInv
  OBVIOUS
<1> USE DEF Init, BillingInit, QueueInit
<1>1. TypeOK
  <2>1. BillingTypeOK
    BY HoldAssumption DEF BillingTypeOK
  <2>2. QueueTypeOK
    BY DEF QueueTypeOK
  <2>3. JobTypeOK
    <3>1. tries \in 0 .. MaxRetries
      BY JobAssumption
    <3> QED  BY <3>1 DEF JobTypeOK, Statuses
  <2>4. UpTypeOK /\ PcTypeOK
    BY DEF UpTypeOK, PcTypeOK, SubmitPcs, OwnerPcs, RecoveryPcs, WorkerPcs
  <2>5. MishapTypeOK
    <3>1. faults \in 0 .. MaxFaults
      BY JobAssumption
    <3> QED  BY <3>1 DEF MishapTypeOK
  <2> QED  BY <2>1, <2>2, <2>3, <2>4, <2>5 DEF TypeOK
<1>2. Recorded /\ ReleaserKnows /\ ClaimsKept
  BY DEF Recorded, ReleaserKnows, ClaimsKept, Paid
<1>3. PricedFirst /\ Settling /\ Refunded
  BY DEF PricedFirst, Settling, Refunded, Paid, SettlePcs
<1>4. Exclusive /\ Alone
  BY DEF Exclusive, Alone, LockedPcs, Paid
<1>5. KeptInQueue /\ Charged
  BY DEF KeptInQueue, Charged, SettlePcs, Ended
<1> QED  BY <1>1, <1>2, <1>3, <1>4, <1>5 DEF IInv

\* A step that changes nothing keeps the invariant.
LEMMA StutterInv ==
    ASSUME IInv, UNCHANGED vars
    PROVE  IInv'
<1> USE DEF vars, billingVars, queueVars, jobVars, upVars, pcVars, mishapVars
<1>1. TypeOK'
  BY DEF IInv, TypeOK, BillingTypeOK, QueueTypeOK, JobTypeOK, UpTypeOK,
     PcTypeOK, MishapTypeOK
<1>2. Recorded' /\ ReleaserKnows' /\ ClaimsKept'
  BY DEF IInv, Recorded, ReleaserKnows, ClaimsKept
<1>3. PricedFirst' /\ Settling' /\ Refunded'
  BY DEF IInv, PricedFirst, Indexed, Settling, Refunded, Spent
<1>4. (~overlap' => Exclusive' /\ Alone' /\ KeptInQueue')
      /\ (~overlap' /\ ~lost' => Charged')
  BY DEF IInv, Exclusive, Alone, KeptInQueue, Charged, Queued, Unpaid
<1> QED  BY <1>1, <1>2, <1>3, <1>4 DEF IInv

\* IInv is inductive.
LEMMA NextInv == IInv /\ [Next]_vars => IInv'
<1> SUFFICES ASSUME IInv, [Next]_vars
             PROVE  IInv'
  OBVIOUS
<1>1. CASE Submit
  BY <1>1, CreateJobInv, SubmitReserveInv, SubmitItemsInv, SubmitUploadInv,
     SubmitProviderInv, RecordProviderJobInv, AbortOrphanInv,
     SubmitEnqueueInv, SubmitReleaseInv, RecordSubmitFailureInv,
     HideFailureInv, SubmitRetryInv DEF Submit
<1>2. CASE Owner
  BY <1>2, SubmitAgainInv, CancelInv, CancelProviderJobInv, OwnerEnqueueInv,
     CancelUnsubmittedInv, OwnerReleaseInv, OwnerRetryInv, DeleteRecordInv,
     DeleteOutputInv DEF Owner
<1>3. CASE Recovery
  BY <1>3, FailStaleUnsubmittedInv, RecoveryReleaseInv, RecoveryRetryInv DEF
     Recovery
<1>4. CASE Redis
  BY <1>4, MoveDelayedInv, RecoverActiveInv, LoseLockInv, LoseInflightInv DEF
     Redis
<1>5. CASE Surroundings
  BY <1>5, AgeInv, RemoveAccountInv, StartUpstreamInv, FinishUpstreamInv, CrashSubmitInv,
     CrashOwnerInv, CrashRecoveryInv DEF Surroundings
<1>6. CASE \E w \in Workers : ReserveJob(w) \/ WorkerStep(w) \/ CrashWorker(w)
  BY <1>6, ReserveJobInv, AcquireLockInv, ReadJobInv, ProcessJobInv,
     PollProviderInv, AdvanceInv, IndexResultInv, ReleaseTerminalHoldInv,
     SettleInv, CaptureHoldInv, MarkSettledInv, RefuseSettlementInv,
     ExhaustSettlementInv, GiveUpInv, RereadInv, RequeueJobInv, AckJobInv,
     ReleaseLockInv, CrashWorkerInv DEF WorkerStep
<1>7. CASE UNCHANGED vars
  BY <1>7, StutterInv
<1> QED  BY <1>1, <1>2, <1>3, <1>4, <1>5, <1>6, <1>7 DEF Next

\* The inductive invariant holds of every behaviour.
THEOREM Invariance == Spec => []IInv
  BY InitInv, NextInv, PTL DEF Spec

\* Types are kept and no money is ever taken that is not there, for every hold,
\* price, number of workers and number of faults.
THEOREM TypeCorrect == Spec => []TypeOK
<1>1. IInv => TypeOK
  BY DEF IInv
<1> QED  BY <1>1, Invariance, PTL

\* A completed job was paid for, at the price of what the provider delivered, and
\* its hold was not given back as long as workers respect the job lock and no late
\* error of Submit hides that its settlement was given up.
THEOREM CompletedJobsArePaid == Spec => []CompletedIsPaid
<1>1. IInv => CompletedIsPaid
  BY DEF IInv, CompletedIsPaid, Masked, ClaimsKept, PricedFirst, Indexed,
     Refunded, Ended, Alone, Paid
<1> QED  BY <1>1, Invariance, PTL

\* A hold that was given back belongs to a job that is over.
THEOREM RefundedJobsAreOver == Spec => []RefundedIsOver
<1>1. IInv => RefundedIsOver
  BY DEF IInv, RefundedIsOver, Refunded, Recorded, Paid, Followed, Ended
<1> QED  BY <1>1, Invariance, PTL

\* A job that ended and that nobody works on has nothing left on hold.
THEOREM EndedJobsAreReleased == Spec => []EndedIsReleased
<1>1. IInv => EndedIsReleased
  BY DEF IInv, EndedIsReleased, Charged, ClaimsKept, TypeOK, BillingTypeOK, Unpaid,
     Quiet, Outstanding, Void
<1> QED  BY <1>1, Invariance, PTL

-----------------------------------------------------------------------------
(* The status of a job that is over.                                       *)

\* What NeverReopened says of a step.
StaysOver ==
    /\ status \in Ended => status' \in Ended
    /\ status \in Paid => status' \in Paid

\* No step of Submit reopens a job that is over.
LEMMA SubmitStaysOver ==
    ASSUME IInv, Submit
    PROVE  StaysOver
<1> USE DEF StaysOver, Ended, Paid, Terminal
<1>1. CASE CreateJob
  BY <1>1 DEF IInv, Recorded, BeforeRecord, CreateJob, SetStatus
<1>2. CASE SubmitReserve
  BY <1>2 DEF SubmitReserve, jobVars
<1>3. CASE SubmitItems
  BY <1>3 DEF SubmitItems, jobVars
<1>4. CASE SubmitUpload
  BY <1>4 DEF SubmitUpload, jobVars, CanTransition, Transition, SetStatus
<1>5. CASE SubmitProvider
  BY <1>5 DEF SubmitProvider, jobVars
<1>6. CASE RecordProviderJob
  BY <1>6 DEF RecordProviderJob, jobVars, CanTransition
<1>7. CASE AbortOrphan
  BY <1>7 DEF AbortOrphan, jobVars
<1>8. CASE SubmitEnqueue
  BY <1>8 DEF SubmitEnqueue, RecordQueueFailure, jobVars
<1>9. CASE SubmitRelease
  BY <1>9 DEF SubmitRelease, jobVars
<1>10. CASE RecordSubmitFailure
  BY <1>10 DEF IInv, Recorded, BeforeRecord, RecordSubmitFailure, jobVars,
     SetStatus
<1>11. CASE HideFailure
  BY <1>11 DEF HideFailure
<1>12. CASE SubmitRetry
  BY <1>12 DEF SubmitRetry, jobVars
<1> QED  BY <1>1, <1>2, <1>3, <1>4, <1>5, <1>6, <1>7, <1>8, <1>9, <1>10,
         <1>11, <1>12 DEF Submit

\* Nor does one of its owner,
LEMMA OwnerStaysOver ==
    ASSUME IInv, Owner
    PROVE  StaysOver
<1> USE DEF StaysOver, Ended, Paid, Terminal
<1>1. CASE SubmitAgain
  BY <1>1 DEF SubmitAgain, jobVars
<1>2. CASE Cancel
  BY <1>2 DEF Cancel, jobVars
<1>3. CASE CancelProviderJob
  BY <1>3 DEF CancelProviderJob, jobVars
<1>4. CASE OwnerEnqueue
  BY <1>4 DEF OwnerEnqueue, RecordQueueFailure, jobVars
<1>5. CASE CancelUnsubmitted
  BY <1>5 DEF CancelUnsubmitted, jobVars, CanTransition, Transition, SetStatus
<1>6. CASE OwnerRelease
  BY <1>6 DEF OwnerRelease, jobVars
<1>7. CASE OwnerRetry
  BY <1>7 DEF OwnerRetry, jobVars
<1>8. CASE DeleteRecord
  BY <1>8 DEF DeleteRecord
<1>9. CASE DeleteOutput
  BY <1>9 DEF DeleteOutput, SetStatus
<1> QED  BY <1>1, <1>2, <1>3, <1>4, <1>5, <1>6, <1>7, <1>8, <1>9 DEF Owner

\* of the recovery scan,
LEMMA RecoveryStaysOver ==
    ASSUME IInv, Recovery
    PROVE  StaysOver
<1> USE DEF StaysOver, Ended, Paid, Terminal
<1>1. CASE FailStaleUnsubmitted
  BY <1>1 DEF FailStaleUnsubmitted, SetStatus
<1>2. CASE RecoveryRelease
  BY <1>2 DEF RecoveryRelease, jobVars
<1>3. CASE RecoveryRetry
  BY <1>3 DEF RecoveryRetry, jobVars
<1> QED  BY <1>1, <1>2, <1>3 DEF Recovery

\* of Redis,
LEMMA RedisStaysOver ==
    ASSUME IInv, Redis
    PROVE  StaysOver
<1> USE DEF StaysOver, Ended, Paid, Terminal
<1>1. CASE MoveDelayed
  BY <1>1 DEF MoveDelayed, jobVars
<1>2. CASE RecoverActive
  BY <1>2 DEF RecoverActive, jobVars
<1>3. CASE LoseLock
  BY <1>3 DEF LoseLock, jobVars
<1>4. CASE LoseInflight
  BY <1>4 DEF LoseInflight, jobVars
<1> QED  BY <1>1, <1>2, <1>3, <1>4 DEF Redis

\* of the provider or of a dying process,
LEMMA SurroundingsStaysOver ==
    ASSUME IInv, Surroundings
    PROVE  StaysOver
<1> USE DEF StaysOver, Ended, Paid, Terminal
<1>1. CASE Age
  BY <1>1 DEF Age
<1>2. CASE StartUpstream
  BY <1>2 DEF StartUpstream, jobVars
<1>3. CASE FinishUpstream
  BY <1>3 DEF FinishUpstream, jobVars
<1>4. CASE CrashSubmit
  BY <1>4 DEF CrashSubmit, jobVars
<1>5. CASE CrashOwner
  BY <1>5 DEF CrashOwner, jobVars
<1>6. CASE CrashRecovery
  BY <1>6 DEF CrashRecovery, jobVars
<1>7. CASE RemoveAccount
  BY <1>7 DEF RemoveAccount, jobVars
<1> QED  BY <1>1, <1>2, <1>3, <1>4, <1>5, <1>6, <1>7 DEF Surroundings

\* or of a worker.
LEMMA WorkerStaysOver ==
    ASSUME IInv, NEW w \in Workers, ReserveJob(w) \/ WorkerStep(w) \/ CrashWorker(w)
    PROVE  StaysOver
<1> USE DEF StaysOver, Ended, Paid, Terminal
<1>1. CASE ReserveJob(w)
  BY <1>1 DEF ReserveJob, jobVars
<1>2. CASE AcquireLock(w)
  BY <1>2 DEF AcquireLock, jobVars
<1>3. CASE ReadJob(w)
  BY <1>3 DEF ReadJob, jobVars
<1>4. CASE ProcessJob(w)
  BY <1>4 DEF ProcessJob, jobVars
<1>5. CASE PollProvider(w)
  BY <1>5 DEF PollProvider, jobVars
<1>6. CASE \E s \in {"running", "indexing", "failed", "cancelled", "settling"} :
             Advance(w, s)
  BY <1>6 DEF Advance, jobVars, CanTransition, Transition, SetStatus
<1>7. CASE IndexResult(w)
  BY <1>7 DEF IndexResult, jobVars
<1>8. CASE ReleaseTerminalHold(w)
  BY <1>8 DEF ReleaseTerminalHold, jobVars
<1>9. CASE Settle(w)
  BY <1>9 DEF Settle, jobVars
<1>10. CASE CaptureHold(w)
  BY <1>10 DEF CaptureHold, jobVars
<1>11. CASE MarkSettled(w)
  BY <1>11 DEF MarkSettled, jobVars, SetStatus
<1>12. CASE RefuseSettlement(w)
  BY <1>12 DEF RefuseSettlement, CountFailure, jobVars
<1>13. CASE ExhaustSettlement(w)
  BY <1>13 DEF ExhaustSettlement, jobVars
<1>14. CASE GiveUp(w)
  BY <1>14 DEF GiveUp, jobVars, CanTransition, Transition, SetStatus
<1>15. CASE Reread(w)
  BY <1>15 DEF Reread, jobVars
<1>16. CASE RequeueJob(w)
  BY <1>16 DEF RequeueJob, jobVars
<1>17. CASE AckJob(w)
  BY <1>17 DEF AckJob, jobVars
<1>18. CASE ReleaseLock(w)
  BY <1>18 DEF ReleaseLock, jobVars
<1>19. CASE CrashWorker(w)
  BY <1>19 DEF CrashWorker, jobVars
<1> QED  BY <1>1, <1>2, <1>3, <1>4, <1>5, <1>6, <1>7, <1>8, <1>9, <1>10,
         <1>11, <1>12, <1>13, <1>14, <1>15, <1>16, <1>17, <1>18, <1>19 DEF
         WorkerStep

\* A job that failed or was cancelled never comes back to life and a completed one
\* is never failed, whoever writes the row.
THEOREM JobsAreNeverReopened == Spec => NeverReopened
<1>1. IInv /\ [Next]_vars => [StaysOver]_vars
  <2> SUFFICES ASSUME IInv, Next
               PROVE  StaysOver
    OBVIOUS
  <2> QED  BY SubmitStaysOver, OwnerStaysOver, RecoveryStaysOver,
              RedisStaysOver, SurroundingsStaysOver, WorkerStaysOver DEF Next
<1>2. [StaysOver]_vars => [/\ status \in Ended => status' \in Ended
                           /\ status \in {"completed", "output_deleted"} =>
                                  status' \in {"completed", "output_deleted"}]_vars
  BY DEF StaysOver, Paid
<1> QED  BY <1>1, <1>2, Invariance, PTL DEF Spec, NeverReopened

==============================================================================
