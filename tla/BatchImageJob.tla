----------------------------- MODULE BatchImageJob -----------------------------
(***************************************************************************)
(* One batch image job from Submit to the settlement of its hold:          *)
(* batch_image_public.go, batch_image_worker.go, batch_image_processor.go, *)
(* batch_image_settlement.go and batch_image_billing_recovery.go of        *)
(* backend/internal/service, and the job row of                            *)
(* backend/internal/repository/batch_image_repo.go.                        *)
(*                                                                         *)
(* The request that submits the job, the requests of its owner, the        *)
(* workers and the recovery scan of stale submissions run concurrently;    *)
(* each SQL transaction, Redis operation and provider call is one step.    *)
(* A call that fails has had no effect; a process that dies after a call   *)
(* succeeded has had it.                                                   *)
(***************************************************************************)
EXTENDS BatchImageBilling, BatchImageQueue

CONSTANTS
    Costs,         \* what the images a provider delivers may cost
    MaxRetries,    \* batchImageSettlementMaxRetries
    MaxFaults      \* bound on failed calls, deaths and stalls together

ASSUME JobAssumption ==
    /\ Costs \subseteq Nat
    /\ MaxRetries \in Nat \ {0}
    /\ MaxFaults \in Nat

VARIABLES
    status,     \* batch_image_jobs.status; "none" before the row exists
    named,      \* provider_job_name is set
    fresh,      \* updated_at is newer than the cutoff of the recovery scan
    price,      \* unit price times success_count
    tries,      \* retry_count; beyond MaxRetries it is not told apart
    code,       \* last_error_code while the job settles: one that starts with
                \* SETTLEMENT_, or another (or none)
    hidden,     \* user_deleted_at is set
    upstream,   \* the provider's job
    output,     \* what the images it produced cost
    spc,        \* next step of Submit
    upc,        \* next step of the owner's request (Cancel or Submit again)
    rpc,        \* next step of the recovery scan
    wpc,        \* next step of a worker
    lost,       \* a process other than a worker died or stalled, or Redis did
                \* not take a retry (history)
    overlap,    \* a worker went on without the job lock (history)
    gone,       \* the account that the job was submitted with was removed
    faults      \* faults so far

jobVars == <<status, named, fresh, price, tries, code, hidden>>
upVars == <<upstream, output>>
pcVars == <<spc, upc, rpc, wpc>>
mishapVars == <<lost, overlap, gone, faults>>
vars == <<billingVars, queueVars, jobVars, upVars, pcVars, mishapVars>>

-----------------------------------------------------------------------------
(* Statuses.                                                               *)

Terminal == {"completed", "failed", "cancelled", "output_deleted"}

Statuses == {"none", "created", "uploading", "submitted", "running",
             "indexing", "settling"} \cup Terminal

\* isBatchImageProcessorDoneStatus.
Done == Terminal \cup {"settling"}

\* The two terminal statuses whose hold is released.
Ended == {"failed", "cancelled"}

\* The statuses in which the provider's job is followed.
Followed == {"submitted", "running", "indexing", "settling"}

\* CanTransitionBatchImageJob for the targets that some caller asks for.
CanTransition(from, to) ==
    /\ from \notin Terminal \cup {"none"}
    /\ \/ to = "failed"
       \/ to = "uploading" /\ from = "created"
       \/ to = "submitted" /\ from \in {"created", "uploading"}
       \/ to = "running" /\ from \in {"submitted", "running"}
       \/ to = "indexing" /\ from \in {"submitted", "running"}
       \/ to = "settling" /\ from = "indexing"
       \/ to = "cancelled" /\ from \in {"created", "uploading", "submitted", "running"}

SubmitPcs == {"create", "reserve", "items", "upload", "provider", "record",
              "abort", "enqueue", "release", "withdraw", "fail", "hide",
              "refail", "retry", "done"}

OwnerPcs == {"idle", "provider", "enqueue", "resubmit", "cancel", "release",
             "retry"}

RecoveryPcs == {"idle", "release", "retry"}

WorkerPcs == {"idle", "lock", "conflict", "read", "process", "poll", "running",
              "indexing", "failed", "cancelled", "index", "settling",
              "release", "settle", "capture", "settled", "refuse", "exhaust",
              "giveup", "reread", "ack", "requeue", "unlock"}

\* A worker that believes that it has the job lock.
LockedPcs == WorkerPcs \ {"idle", "lock", "conflict"}

-----------------------------------------------------------------------------
(* Outcomes of a step.                                                     *)

NoFault == UNCHANGED mishapVars

\* The call fails.
Fault ==
    /\ faults < MaxFaults
    /\ faults' = faults + 1
    /\ UNCHANGED <<lost, overlap, gone>>

\* The process dies, or Redis does not take what was to be retried.
Loss ==
    /\ faults < MaxFaults
    /\ faults' = faults + 1
    /\ lost' = TRUE
    /\ UNCHANGED <<overlap, gone>>

\* A release that is refused or fails.
ReleaseFails ==
    /\ \/ ReleaseRefused /\ NoFault
       \/ Fault
    /\ UNCHANGED billingVars

SubmitTo(p) == spc' = p /\ UNCHANGED <<upc, rpc, wpc>>
OwnerTo(p) == upc' = p /\ UNCHANGED <<spc, rpc, wpc>>
RecoveryTo(p) == rpc' = p /\ UNCHANGED <<spc, upc, wpc>>
WorkerTo(w, p) == wpc' = [wpc EXCEPT ![w] = p] /\ UNCHANGED <<spc, upc, rpc>>

\* A write of the row that changes its status.
SetStatus(s) ==
    /\ status' = s
    /\ fresh' = TRUE
    /\ UNCHANGED <<named, price, tries, code, hidden>>

\* Mutant: the target is written whatever the status is.
TransitionAnyway(s) == SetStatus(s)

\* TransitionBatchImageJobStatus.
Transition(s) == CanTransition(status, s) /\ SetStatus(s)

-----------------------------------------------------------------------------
(* Submit.                                                                 *)

CreateJob ==
    /\ spc = "create"
    /\ SetStatus("created")
    /\ SubmitTo("reserve")
    /\ NoFault
    /\ UNCHANGED <<billingVars, queueVars, upVars>>

\* reserveBatchImageBalanceHold.
SubmitReserve ==
    /\ spc = "reserve"
    /\ \/ ReserveBalance /\ NoFault /\ SubmitTo("items")
       \/ ReserveRefused /\ NoFault /\ SubmitTo("fail") /\ UNCHANGED billingVars
       \/ Fault /\ SubmitTo("fail") /\ UNCHANGED billingVars
    /\ UNCHANGED <<queueVars, jobVars, upVars>>

\* createPendingItems.
SubmitItems ==
    /\ spc = "items"
    /\ \/ NoFault /\ SubmitTo("upload")
       \/ Fault /\ SubmitTo("release")
    /\ UNCHANGED <<billingVars, queueVars, jobVars, upVars>>

\* The transition to uploading; a job that was cancelled meanwhile keeps its
\* status.
SubmitUpload ==
    /\ spc = "upload"
    /\ \/ Transition("uploading") /\ NoFault /\ SubmitTo("provider")
       \/ /\ ~CanTransition(status, "uploading")
          /\ NoFault
          /\ SubmitTo("withdraw")
          /\ UNCHANGED jobVars
       \/ Fault /\ SubmitTo("release") /\ UNCHANGED jobVars
    /\ UNCHANGED <<billingVars, queueVars, upVars>>

\* provider.Submit.
SubmitProvider ==
    /\ spc = "provider"
    /\ \/ NoFault /\ upstream' = "queued" /\ SubmitTo("record") /\ UNCHANGED output
       \/ Fault /\ SubmitTo("release") /\ UNCHANGED upVars
    /\ UNCHANGED <<billingVars, queueVars, jobVars>>

\* Mutant: the provider's job is recorded whatever the job has become.
RecordProviderJobAnyway ==
    /\ spc = "record"
    /\ status' = "submitted"
    /\ named' = TRUE
    /\ NoFault
    /\ SubmitTo("enqueue")
    /\ UNCHANGED <<billingVars, queueVars, fresh, price, tries, code, hidden, upVars>>

\* UpdateBatchImageJobProviderSubmit.
RecordProviderJob ==
    /\ spc = "record"
    /\ \/ /\ CanTransition(status, "submitted")
          /\ status' = "submitted"
          /\ named' = TRUE
          /\ fresh' = TRUE
          /\ NoFault
          /\ SubmitTo("enqueue")
          /\ UNCHANGED <<price, tries, code, hidden>>
       \/ /\ ~CanTransition(status, "submitted")
          /\ NoFault
          /\ SubmitTo("abort")
          /\ UNCHANGED jobVars
       \/ Fault /\ SubmitTo("abort") /\ UNCHANGED jobVars
    /\ UNCHANGED <<billingVars, queueVars, upVars>>

\* A provider's job that has not ended is cancelled by a request to do so.
CancelUpstream ==
    /\ upstream' = IF upstream \in {"queued", "running"} THEN "cancelled" ELSE upstream
    /\ UNCHANGED output

\* abortOrphanProviderJob, best effort.
AbortOrphan ==
    /\ spc = "abort"
    /\ \/ CancelUpstream /\ NoFault
       \/ Fault /\ UNCHANGED upVars
    /\ SubmitTo("done")
    /\ UNCHANGED <<billingVars, queueVars, jobVars>>

\* RecordBatchImageJobSubmitFailure with QUEUE_FAILED, which leaves the status
\* alone; its error is ignored.  It renews updated_at too, at which nobody looks
\* any more once the job was submitted.
RecordQueueFailure ==
    /\ code' \in {"other", code}
    /\ UNCHANGED <<status, named, fresh, price, tries, hidden>>

\* Enqueue of a submitted job.  When it fails the caller is told, and has to
\* submit again with the same key.
SubmitEnqueue ==
    /\ spc = "enqueue"
    /\ \/ Enqueue /\ NoFault /\ UNCHANGED jobVars
       \/ Loss /\ RecordQueueFailure /\ UNCHANGED queueVars
    /\ SubmitTo("done")
    /\ UNCHANGED <<billingVars, upVars>>

\* releaseFailedSubmitHold.
SubmitRelease ==
    /\ spc \in {"release", "withdraw"}
    /\ \/ ReleaseBalance /\ NoFault /\ SubmitTo(IF spc = "release" THEN "fail" ELSE "done")
       \/ ReleaseFails /\ SubmitTo("refail")
    /\ UNCHANGED <<queueVars, jobVars, upVars>>

\* RecordBatchImageJobSubmitFailure: "failed" without a look at the status; its
\* error is ignored.
RecordSubmitFailure ==
    /\ spc \in {"fail", "refail"}
    /\ \/ SetStatus("failed") /\ NoFault
       \/ Fault /\ UNCHANGED jobVars
    /\ SubmitTo(IF spc = "fail" THEN "hide" ELSE "retry")
    /\ UNCHANGED <<billingVars, queueVars, upVars>>

\* hidePreUpstreamSubmitFailure.
HideFailure ==
    /\ spc = "hide"
    /\ \/ hidden' = (status \in Terminal) /\ NoFault
       \/ Fault /\ UNCHANGED hidden
    /\ SubmitTo("done")
    /\ UNCHANGED <<billingVars, queueVars, status, named, fresh, price, tries,
                   code, upVars>>

\* enqueueBillingRetry.
SubmitRetry ==
    /\ spc = "retry"
    /\ \/ Enqueue /\ NoFault
       \/ Loss /\ UNCHANGED queueVars
    /\ SubmitTo("done")
    /\ UNCHANGED <<billingVars, jobVars, upVars>>

Submit ==
    \/ CreateJob \/ SubmitReserve \/ SubmitItems \/ SubmitUpload
    \/ SubmitProvider \/ RecordProviderJob \/ AbortOrphan \/ SubmitEnqueue
    \/ SubmitRelease \/ RecordSubmitFailure \/ HideFailure \/ SubmitRetry

-----------------------------------------------------------------------------
(* The owner.                                                              *)

\* Submit with the idempotency key of the job.
SubmitAgain ==
    /\ upc = "idle"
    /\ status = "submitted"
    /\ OwnerTo("resubmit")
    /\ NoFault
    /\ UNCHANGED <<billingVars, queueVars, jobVars, upVars>>

\* Cancel reads the job and chooses.
Cancel ==
    /\ upc = "idle"
    /\ status # "none"
    /\ ~hidden
    /\ \/ status \in Ended /\ OwnerTo("release")
       \/ status \notin Done /\ named /\ OwnerTo("provider")
       \/ status \notin Done /\ ~named /\ OwnerTo("cancel")
    /\ NoFault
    /\ UNCHANGED <<billingVars, queueVars, jobVars, upVars>>

\* provider.Cancel, with the job's account.
CancelProviderJob ==
    /\ upc = "provider"
    /\ \/ ~gone /\ CancelUpstream /\ NoFault /\ OwnerTo("enqueue")
       \/ gone /\ NoFault /\ OwnerTo("idle") /\ UNCHANGED upVars
       \/ Fault /\ OwnerTo("idle") /\ UNCHANGED upVars
    /\ UNCHANGED <<billingVars, queueVars, jobVars>>

\* Enqueue by Cancel and by a repeated Submit; the latter records a failure,
\* whatever has become of the job since it was read.
OwnerEnqueue ==
    /\ upc \in {"enqueue", "resubmit"}
    /\ \/ Enqueue /\ NoFault /\ UNCHANGED jobVars
       \/ Fault /\ upc = "enqueue" /\ UNCHANGED <<queueVars, jobVars>>
       \/ Fault /\ upc = "resubmit" /\ RecordQueueFailure /\ UNCHANGED queueVars
    /\ OwnerTo("idle")
    /\ UNCHANGED <<billingVars, upVars>>

\* The transition of a job without a provider job, as it was read.
CancelUnsubmitted ==
    /\ upc = "cancel"
    /\ \/ Transition("cancelled") /\ NoFault /\ OwnerTo("release")
       \/ /\ ~CanTransition(status, "cancelled")
          /\ NoFault
          /\ OwnerTo("idle")
          /\ UNCHANGED jobVars
       \/ Fault /\ OwnerTo("idle") /\ UNCHANGED jobVars
    /\ UNCHANGED <<billingVars, queueVars, upVars>>

OwnerRelease ==
    /\ upc = "release"
    /\ \/ ReleaseBalance /\ NoFault /\ OwnerTo("idle")
       \/ ReleaseFails /\ OwnerTo("retry")
    /\ UNCHANGED <<queueVars, jobVars, upVars>>

OwnerRetry ==
    /\ upc = "retry"
    /\ \/ Enqueue /\ NoFault
       \/ Loss /\ UNCHANGED queueVars
    /\ OwnerTo("idle")
    /\ UNCHANGED <<billingVars, jobVars, upVars>>

\* DeleteRecord.
DeleteRecord ==
    /\ status \in Terminal
    /\ ~hidden
    /\ hidden' = TRUE
    /\ NoFault
    /\ UNCHANGED <<billingVars, queueVars, status, named, fresh, price, tries,
                   code, upVars, pcVars>>

\* CleanupOutput, by the owner or when the retention is over.
DeleteOutput ==
    /\ status = "completed"
    /\ SetStatus("output_deleted")
    /\ NoFault
    /\ UNCHANGED <<billingVars, queueVars, upVars, pcVars>>

Owner ==
    \/ SubmitAgain \/ Cancel \/ CancelProviderJob \/ OwnerEnqueue
    \/ CancelUnsubmitted \/ OwnerRelease \/ OwnerRetry
    \/ DeleteRecord \/ DeleteOutput

-----------------------------------------------------------------------------
(* ReleaseStaleUnsubmittedOnce.                                            *)

\* FailStaleUnsubmittedBatchImageJob, whose WHERE repeats the conditions of the
\* list it works from.
FailStaleUnsubmitted ==
    /\ rpc = "idle"
    /\ status \in {"created", "uploading"}
    /\ ~named
    /\ ~fresh
    /\ SetStatus("failed")
    /\ RecoveryTo("release")
    /\ NoFault
    /\ UNCHANGED <<billingVars, queueVars, upVars>>

RecoveryRelease ==
    /\ rpc = "release"
    /\ \/ ReleaseBalance /\ NoFault /\ RecoveryTo("idle")
       \/ ReleaseFails /\ RecoveryTo("retry")
    /\ UNCHANGED <<queueVars, jobVars, upVars>>

\* enqueueReleaseRetry.
RecoveryRetry ==
    /\ rpc = "retry"
    /\ \/ Enqueue /\ NoFault
       \/ Loss /\ UNCHANGED queueVars
    /\ RecoveryTo("idle")
    /\ UNCHANGED <<billingVars, jobVars, upVars>>

Recovery == FailStaleUnsubmitted \/ RecoveryRelease \/ RecoveryRetry

-----------------------------------------------------------------------------
(* A worker: RunOnce and BatchImagePipelineProcessor.Process.              *)

ReserveJob(w) ==
    /\ wpc[w] = "idle"
    /\ Reserve
    /\ NoFault
    /\ WorkerTo(w, "lock")
    /\ UNCHANGED <<billingVars, jobVars, upVars>>

AcquireLock(w) ==
    /\ wpc[w] = "lock"
    /\ \/ TryAcquireJobLock(w) /\ NoFault /\ WorkerTo(w, "read")
       \/ lock # Free /\ NoFault /\ WorkerTo(w, "conflict") /\ UNCHANGED queueVars
       \/ Fault /\ WorkerTo(w, "conflict") /\ UNCHANGED queueVars
    /\ UNCHANGED <<billingVars, jobVars, upVars>>

\* The pipeline reads the job and hands it to the settlement or to the provider
\* processor, which read it again.
ReadJob(w) ==
    /\ wpc[w] = "read"
    /\ \/ NoFault /\ WorkerTo(w, IF status = "settling" THEN "settle" ELSE "process")
       \/ Fault /\ WorkerTo(w, "requeue")
    /\ UNCHANGED <<billingVars, queueVars, jobVars, upVars>>

\* BatchImageProviderProcessor.Process up to the call of the provider.  A job
\* without a provider job name is an error, as is one whose account was removed.
ProcessJob(w) ==
    /\ wpc[w] = "process"
    /\ \/ /\ NoFault
          /\ WorkerTo(w, CASE status \in Ended          -> "release"
                           [] status \in Done \ Ended   -> "ack"
                           [] gone                      -> "requeue"
                           [] status = "indexing"       -> "index"
                           [] status \in {"submitted", "running"} -> "poll"
                           [] OTHER                     -> "requeue")
       \/ Fault /\ WorkerTo(w, "requeue")
    /\ UNCHANGED <<billingVars, queueVars, jobVars, upVars>>

\* provider.Get, and the status that its answer asks for.
PollProvider(w) ==
    /\ wpc[w] = "poll"
    /\ \/ /\ NoFault
          /\ WorkerTo(w, CASE upstream = "running"                  -> "running"
                           [] upstream \in {"succeeded", "garbled"} -> "indexing"
                           [] upstream \in {"failed", "cancelled"}  -> upstream
                           [] OTHER                                 -> "requeue")
       \/ Fault /\ WorkerTo(w, "requeue")
    /\ UNCHANGED <<billingVars, queueVars, jobVars, upVars>>

\* Where a worker goes when the transition it attempts is made.
After(s) ==
    CASE s \in Ended -> "release"
      [] s = "indexing" -> "index"
      [] OTHER -> "requeue"

\* The worker's transitions outside the settlement: to running, indexing,
\* failed, cancelled and, when the result is indexed, settling.
Advance(w, s) ==
    /\ wpc[w] = s
    /\ \/ Transition(s) /\ NoFault /\ WorkerTo(w, After(s))
       \/ /\ ~CanTransition(status, s)
          /\ NoFault
          /\ WorkerTo(w, "requeue")
          /\ UNCHANGED jobVars
       \/ Fault /\ WorkerTo(w, "requeue") /\ UNCHANGED jobVars
    /\ UNCHANGED <<billingVars, queueVars, upVars>>

\* Index: the output cannot be opened (retried), cannot be parsed or stored (the
\* job fails), or replaces the items of a job that is still indexing.
IndexResult(w) ==
    /\ wpc[w] = "index"
    /\ \/ /\ upstream = "succeeded"
          /\ status = "indexing"
          /\ price' = output
          /\ NoFault
          /\ WorkerTo(w, "settling")
          /\ UNCHANGED <<status, named, fresh, tries, code, hidden>>
       \/ /\ upstream = "succeeded"
          /\ status # "indexing"
          /\ NoFault
          /\ WorkerTo(w, "requeue")
          /\ UNCHANGED jobVars
       \/ upstream = "garbled" /\ NoFault /\ WorkerTo(w, "failed") /\ UNCHANGED jobVars
       \/ Fault /\ WorkerTo(w, "failed") /\ UNCHANGED jobVars
       \/ Fault /\ WorkerTo(w, "requeue") /\ UNCHANGED jobVars
    /\ UNCHANGED <<billingVars, queueVars, upVars>>

\* Mutant: an error of the release is swallowed.
ReleaseTerminalHoldOnce(w) ==
    /\ wpc[w] = "release"
    /\ (ReleaseBalance /\ NoFault) \/ ReleaseFails
    /\ WorkerTo(w, "ack")
    /\ UNCHANGED <<queueVars, jobVars, upVars>>

\* releaseTerminalHold.
ReleaseTerminalHold(w) ==
    /\ wpc[w] = "release"
    /\ \/ ReleaseBalance /\ NoFault /\ WorkerTo(w, "ack")
       \/ ReleaseFails /\ WorkerTo(w, "requeue")
    /\ UNCHANGED <<queueVars, jobVars, upVars>>

\* The retries of the settlement are used up.
Spent == tries \geq MaxRetries

\* isBatchImageSettlementRetryExhausted.
Exhausted == Spent /\ code = "SETTLEMENT"

\* Mutant: exhaustion is looked at after the checks that may fail.
SettleUnbounded(w) ==
    /\ wpc[w] = "settle"
    /\ NoFault
    /\ WorkerTo(w, IF status = "completed" THEN "ack"
                   ELSE IF status # "settling" THEN "requeue"
                   ELSE IF price > HoldAmount THEN "requeue"
                   ELSE IF Exhausted THEN "exhaust" ELSE "capture")
    /\ UNCHANGED <<billingVars, queueVars, jobVars, upVars>>

\* Settle up to the capture.  The ids of the API key and of the account, which
\* it checks too, are in the row since Submit created it.
Settle(w) ==
    /\ wpc[w] = "settle"
    /\ \/ /\ NoFault
          /\ WorkerTo(w, IF status = "completed" THEN "ack"
                         ELSE IF status # "settling" THEN "requeue"
                         ELSE IF Exhausted THEN "exhaust"
                         ELSE IF price > HoldAmount THEN "refuse" ELSE "capture")
       \/ Fault /\ WorkerTo(w, "requeue")
    /\ UNCHANGED <<billingVars, queueVars, jobVars, upVars>>

CaptureHold(w) ==
    /\ wpc[w] = "capture"
    /\ \/ CaptureBalance(price) /\ NoFault /\ WorkerTo(w, "settled")
       \/ CaptureRefused(price) /\ NoFault /\ WorkerTo(w, "refuse") /\ UNCHANGED billingVars
       \/ Fault /\ WorkerTo(w, "refuse") /\ UNCHANGED billingVars
    /\ UNCHANGED <<queueVars, jobVars, upVars>>

\* MarkBatchImageJobSettled.
MarkSettled(w) ==
    /\ wpc[w] = "settled"
    /\ \/ status = "settling" /\ SetStatus("completed") /\ NoFault /\ WorkerTo(w, "ack")
       \/ status # "settling" /\ NoFault /\ WorkerTo(w, "requeue") /\ UNCHANGED jobVars
       \/ Fault /\ WorkerTo(w, "requeue") /\ UNCHANGED jobVars
    /\ UNCHANGED <<billingVars, queueVars, upVars>>

\* The UPDATE of SetBatchImageJobSettlementFailed.
CountFailure ==
    /\ tries' = IF Spent THEN tries ELSE tries + 1
    /\ code' = "SETTLEMENT"
    /\ UNCHANGED <<status, named, fresh, price, hidden>>

\* recordSettlementFailure.  The event is appended after the failure was counted:
\* when that fails the error is all that the caller sees.
RefuseSettlement(w) ==
    /\ wpc[w] = "refuse"
    /\ \/ /\ CountFailure
          /\ NoFault
          /\ WorkerTo(w, IF tries' \geq MaxRetries THEN "exhaust" ELSE "reread")
       \/ Fault /\ WorkerTo(w, "reread") /\ (CountFailure \/ UNCHANGED jobVars)
    /\ UNCHANGED <<billingVars, queueVars, upVars>>

\* failExhaustedSettlement: the hold is released first.  The failure to release
\* it is counted too, which no longer matters.
ExhaustSettlement(w) ==
    /\ wpc[w] = "exhaust"
    /\ \/ ReleaseBalance /\ NoFault /\ WorkerTo(w, "giveup")
       \/ ReleaseFails /\ WorkerTo(w, "reread")
    /\ UNCHANGED <<queueVars, jobVars, upVars>>

\* and then the job fails.
GiveUp(w) ==
    /\ wpc[w] = "giveup"
    /\ \/ Transition("failed") /\ NoFault /\ WorkerTo(w, "reread")
       \/ /\ ~CanTransition(status, "failed")
          /\ NoFault
          /\ WorkerTo(w, "requeue")
          /\ UNCHANGED jobVars
       \/ Fault /\ WorkerTo(w, "requeue") /\ UNCHANGED jobVars
    /\ UNCHANGED <<billingVars, queueVars, upVars>>

\* After a settlement error the pipeline reads the job once more.  An error of
\* another kind than a billing failure comes to the same while the job settles.
Reread(w) ==
    /\ wpc[w] = "reread"
    /\ \/ NoFault /\ WorkerTo(w, IF status \in Terminal THEN "ack" ELSE "requeue")
       \/ Fault /\ WorkerTo(w, "requeue")
    /\ UNCHANGED <<billingVars, queueVars, jobVars, upVars>>

\* A job that Redis does not take back stays in the active set.
RequeueJob(w) ==
    /\ wpc[w] \in {"requeue", "conflict"}
    /\ \/ RequeueAfter /\ NoFault
       \/ Fault /\ UNCHANGED queueVars
    /\ WorkerTo(w, IF wpc[w] = "conflict" THEN "idle" ELSE "unlock")
    /\ UNCHANGED <<billingVars, jobVars, upVars>>

AckJob(w) ==
    /\ wpc[w] = "ack"
    /\ \/ Ack /\ NoFault
       \/ Fault /\ UNCHANGED queueVars
    /\ WorkerTo(w, "unlock")
    /\ UNCHANGED <<billingVars, jobVars, upVars>>

ReleaseLock(w) ==
    /\ wpc[w] = "unlock"
    /\ \/ Unlock(w) /\ NoFault
       \/ Fault /\ Forget(w)
    /\ WorkerTo(w, "idle")
    /\ UNCHANGED <<billingVars, jobVars, upVars>>

WorkerStep(w) ==
    \/ AcquireLock(w) \/ ReadJob(w) \/ ProcessJob(w) \/ PollProvider(w)
    \/ \E s \in {"running", "indexing", "failed", "cancelled", "settling"} : Advance(w, s)
    \/ IndexResult(w) \/ ReleaseTerminalHold(w)
    \/ Settle(w) \/ CaptureHold(w) \/ MarkSettled(w) \/ RefuseSettlement(w)
    \/ ExhaustSettlement(w) \/ GiveUp(w) \/ Reread(w)
    \/ RequeueJob(w) \/ AckJob(w) \/ ReleaseLock(w)

-----------------------------------------------------------------------------
(* Redis and its clock.                                                    *)

MoveDelayed ==
    /\ MoveDueDelayedToReady
    /\ NoFault
    /\ UNCHANGED <<billingVars, jobVars, upVars, pcVars>>

\* A member of the active set goes stale when no worker sends heartbeats for it;
\* that those of a live worker fail is a fault.
RecoverActive ==
    /\ RecoverStaleActive
    /\ IF \E w \in Workers : wpc[w] # "idle" THEN Fault ELSE NoFault
    /\ UNCHANGED <<billingVars, jobVars, upVars, pcVars>>

\* The lock of a worker that renews it does not run out, unless renewals fail.
LoseLock ==
    /\ ExpireLock
    /\ \/ lock = Orphan /\ NoFault
       \/ /\ lock # Orphan
          /\ faults < MaxFaults
          /\ faults' = faults + 1
          /\ overlap' = TRUE
          /\ UNCHANGED <<lost, gone>>
    /\ UNCHANGED <<billingVars, jobVars, upVars, pcVars>>

\* A job takes longer than inflight_ttl_seconds, a week.
LoseInflight ==
    /\ ExpireInflight
    /\ Fault
    /\ UNCHANGED <<billingVars, jobVars, upVars, pcVars>>

Redis == MoveDelayed \/ RecoverActive \/ LoseLock \/ LoseInflight

-----------------------------------------------------------------------------
(* The surroundings.                                                       *)

\* updated_at grows old although runSubmitHeartbeat renews it: the process is
\* gone, or it stalls.
Age ==
    /\ status \in {"created", "uploading"}
    /\ fresh
    /\ fresh' = FALSE
    /\ IF spc = "done" THEN NoFault ELSE Loss
    /\ UNCHANGED <<billingVars, queueVars, status, named, price, tries, code,
                   hidden, upVars, pcVars>>

\* An administrator deletes the account that the job was submitted with.
RemoveAccount ==
    /\ ~gone
    /\ faults < MaxFaults
    /\ faults' = faults + 1
    /\ gone' = TRUE
    /\ UNCHANGED <<billingVars, queueVars, jobVars, upVars, pcVars, lost, overlap>>

StartUpstream ==
    /\ upstream = "queued"
    /\ upstream' = "running"
    /\ NoFault
    /\ UNCHANGED <<billingVars, queueVars, jobVars, output, pcVars>>

\* The provider's job ends; "failed" stands for expired too.
FinishUpstream ==
    /\ upstream \in {"queued", "running"}
    /\ \/ upstream' = "succeeded" /\ output' \in Costs
       \/ upstream' \in {"garbled", "failed"} /\ UNCHANGED output
    /\ NoFault
    /\ UNCHANGED <<billingVars, queueVars, jobVars, pcVars>>

\* A process dies, between any two steps.
CrashSubmit ==
    /\ spc \notin {"create", "done"}
    /\ SubmitTo("done")
    /\ Loss
    /\ UNCHANGED <<billingVars, queueVars, jobVars, upVars>>

CrashOwner ==
    /\ upc # "idle"
    /\ OwnerTo("idle")
    /\ Loss
    /\ UNCHANGED <<billingVars, queueVars, jobVars, upVars>>

CrashRecovery ==
    /\ rpc # "idle"
    /\ RecoveryTo("idle")
    /\ Loss
    /\ UNCHANGED <<billingVars, queueVars, jobVars, upVars>>

CrashWorker(w) ==
    /\ wpc[w] # "idle"
    /\ WorkerTo(w, "idle")
    /\ Forget(w)
    /\ Fault
    /\ UNCHANGED <<billingVars, jobVars, upVars>>

Surroundings ==
    \/ Age \/ RemoveAccount \/ StartUpstream \/ FinishUpstream
    \/ CrashSubmit \/ CrashOwner \/ CrashRecovery

-----------------------------------------------------------------------------
Init ==
    /\ BillingInit
    /\ QueueInit
    /\ status = "none"
    /\ named = FALSE
    /\ fresh = TRUE
    /\ price = 0
    /\ tries = 0
    /\ code = "other"
    /\ hidden = FALSE
    /\ upstream = "none"
    /\ output = 0
    /\ spc = "create"
    /\ upc = "idle"
    /\ rpc = "idle"
    /\ wpc = [w \in Workers |-> "idle"]
    /\ lost = FALSE
    /\ overlap = FALSE
    /\ gone = FALSE
    /\ faults = 0

Next ==
    \/ Submit \/ Owner \/ Recovery \/ Redis \/ Surroundings
    \/ \E w \in Workers : ReserveJob(w) \/ WorkerStep(w) \/ CrashWorker(w)

Spec == Init /\ [][Next]_vars

(***************************************************************************)
(* Fairness.  The loops of the runtime run for ever: a worker that has     *)
(* begun takes its next step, a ready job is reserved, due jobs are moved, *)
(* stale ones recovered, and Redis drops an expired lock.  The provider    *)
(* ends every job (it expires those it does not).  Nothing is assumed of   *)
(* the owner or of Submit.                                                 *)
(***************************************************************************)
Fairness ==
    /\ \A w \in Workers : WF_vars(WorkerStep(w))
    /\ WF_vars(\E w \in Workers : ReserveJob(w))
    /\ WF_vars(MoveDelayed)
    /\ WF_vars(RecoverActive)
    /\ WF_vars(LoseLock)
    /\ WF_vars(FinishUpstream)

FairSpec == Spec /\ Fairness

-----------------------------------------------------------------------------
(* Properties.                                                             *)

JobTypeOK ==
    /\ status \in Statuses
    /\ named \in BOOLEAN
    /\ fresh \in BOOLEAN
    /\ price \in Costs \cup {0}
    /\ tries \in 0 .. MaxRetries
    /\ code \in {"other", "SETTLEMENT"}
    /\ hidden \in BOOLEAN

UpTypeOK ==
    /\ upstream \in {"none", "queued", "running", "succeeded", "garbled",
                     "failed", "cancelled"}
    /\ output \in Costs \cup {0}

PcTypeOK ==
    /\ spc \in SubmitPcs
    /\ upc \in OwnerPcs
    /\ rpc \in RecoveryPcs
    /\ wpc \in [Workers -> WorkerPcs]

MishapTypeOK ==
    /\ lost \in BOOLEAN
    /\ overlap \in BOOLEAN
    /\ gone \in BOOLEAN
    /\ faults \in 0 .. MaxFaults

\* Every variable has its type: no step writes a status, a request id, a step or
\* a count that the code does not have, and no money goes below zero.
TypeOK ==
    BillingTypeOK /\ QueueTypeOK /\ JobTypeOK /\ UpTypeOK /\ PcTypeOK /\ MishapTypeOK

\* The settlement's retries are used up and a late QUEUE_FAILED of a repeated
\* Submit hides it: the settlement is tried once more.
Masked == Spent /\ code # "SETTLEMENT"

\* A job is completed only when its images were paid for, at what the provider
\* delivered, and never when its hold was given back before or after, unless
\* two workers settled it at a time or a late error code of Submit let it be
\* settled once more (Settle, MarkBatchImageJobSettled).
CompletedIsPaid ==
    status \in {"completed", "output_deleted"} =>
        /\ "capture" \in moves
        /\ charge = output
        /\ overlap \/ Masked \/ "release" \notin moves

\* The hold is given back only when the job can no longer produce images to be
\* charged: it is not being followed at the provider, unless its settlement was
\* given up (FailStaleUnsubmittedBatchImageJob's WHERE,
\* UpdateBatchImageJobProviderSubmit's check of the status).
RefundedIsOver ==
    "release" \in moves =>
        \/ status \notin Followed
        \/ status = "settling" /\ Spent

\* A job that failed or was cancelled never comes back to life, although Submit,
\* its owner, workers and the recovery scan write its status.
NeverReopened ==
    [][/\ status \in Ended => status' \in Ended
       /\ status \in {"completed", "output_deleted"} =>
              status' \in {"completed", "output_deleted"}]_vars

Quiet ==
    /\ spc = "done"
    /\ upc = "idle"
    /\ rpc = "idle"
    /\ \A w \in Workers : wpc[w] = "idle"
    /\ ~Queued

\* A release was claimed before there was anything to release: the claim stays
\* and a hold that is made afterwards cannot be released any more.
Void == "release" \in claims \ moves

\* When nobody works on a job that failed or was cancelled any more, its hold
\* has been given back, although releases may have failed on the way
\* (releaseFailedSubmitHold, enqueueBillingRetry, enqueueReleaseRetry), unless a
\* process was lost, two workers overlapped or the release had been claimed too
\* early.
EndedIsReleased ==
    Quiet /\ status \in Ended /\ ~lost /\ ~overlap /\ ~Void => ~Outstanding

\* "that failed submit releases hold" (docs/BATCH_IMAGE_MVP.md): a submission
\* that ends without a provider job leaves no money frozen, also when its owner
\* cancels it from the list of jobs before Submit makes the hold.
FailedSubmitReleasesHold ==
    Quiet /\ status \in Ended /\ ~lost => ~Outstanding

\* The hold of a job that was queued is charged or given back in the end,
\* although workers die, calls fail and the settlement may be impossible, unless
\* two workers overlap, the job's account is removed or the release had been
\* claimed too early.
QueuedIsSettled ==
    Queued /\ Outstanding ~> ~Outstanding \/ overlap \/ gone \/ Void
===============================================================================
