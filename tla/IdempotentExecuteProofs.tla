----------------------- MODULE IdempotentExecuteProofs -----------------------
(***************************************************************************)
(* Proofs about IdempotentExecute, for any requests, payloads, times and   *)
(* faults within its assumptions.                                          *)
(***************************************************************************)
EXTENDS IdempotentExecute, TLAPS

Running(r) == pc[r] \in RunPcs

\* Requests keep the times that Tick grants them.
ClockInv ==
    \A r \in Requests :
        /\ pc[r] \in ClaimPcs => start[r] \leq now /\ now \leq start[r] + MaxClaim
        /\ Running(r) => start[r] \leq now /\ now \leq start[r] + MaxRun

\* Ids come from the sequence; 0 is none.
IdInv ==
    /\ row.id < nextId
    /\ row.id = 0 => row = NoRow
    /\ \A r \in Requests :
          /\ saw[r].id < nextId
          /\ pc[r] \in {"expired", "retry"} => saw[r].id # 0
          /\ Running(r) => mine[r] # 0

\* The record is as the running request claimed it.
RunInv ==
    \A r \in Requests :
        Running(r) => /\ row.id = mine[r]
                      /\ row.status = "processing"
                      /\ row.lock = start[r] + Timeout
                      /\ row.expires = start[r] + TTL

\* A request that is about to reclaim an expired record began before the lock of
\* the one that runs can have run out.
StaleInv ==
    \A r, s \in Requests :
        Running(r) /\ pc[s] = "expired" => start[s] < start[r] + Timeout

\* The inductive invariant behind OneAtATime.
Exclusive ==
    TypeOK /\ ClockInv /\ IdInv /\ RunInv /\ StaleInv /\ OneAtATime

\* The record has the payload of whoever claimed it or is about to reclaim it.
PrintInv ==
    \A r \in Requests :
        Running(r) \/ (pc[r] \in {"expired", "retry"} /\ saw[r].id = row.id) =>
            row.print = Payload[r]

\* A request carries out the operation between these steps.
RanInv ==
    \A r \in Requests :
        /\ pc[r] = "succeeded" => ran[r]
        /\ pc[r] \in {"idle", "execute", "failed"} \cup ClaimPcs => ~ran[r]

\* A stored response is that of a request with the payload of the record.
StoredInv ==
    row.id # 0 /\ row.status = "succeeded" =>
        row.body \in Requests /\ ran[row.body] /\ Payload[row.body] = row.print

\* The inductive invariant behind ReplayIsTrue.
Lawful == Exclusive /\ PrintInv /\ RanInv /\ StoredInv /\ ReplayIsTrue

\* A record has outlived its TTL since it was claimed.
SomeExpired == \E q \in Requests : mine[q] # 0 /\ start[q] + TTL \leq now

\* Records expire when their claims say, and are found expired only then.
ExpiryInv ==
    /\ row.id # 0 =>
          \E q \in Requests : mine[q] # 0 /\ row.expires = start[q] + TTL
    /\ \A r \in Requests :
          /\ pc[r] \in {"expired", "latest"} => SomeExpired
          /\ pc[r] \in {"idle"} \cup ClaimPcs => mine[r] = 0

Busy(r) == Running(r) \/ ran[r]

\* Until then the record remembers that the operation was carried out.
OnceInv ==
    SomeExpired \/
       /\ \A r, s \in Requests : Busy(r) /\ Busy(s) => r = s
       /\ \A r \in Requests :
             ran[r] => row.id # 0 /\ row.status \in {"processing", "succeeded"}

\* The inductive invariant behind OnceUntilExpiry.
Once == Exclusive /\ RanInv /\ ExpiryInv /\ OnceInv

-----------------------------------------------------------------------------
(* Types.                                                                  *)

\* Every statement that writes the record leaves one of its type
\* (CreateProcessing, TryReclaim, MarkSucceeded, MarkFailedRetryable).
LEMMA RowTypes ==
    ASSUME TypeOK, NEW r \in Requests, NEW i, NEW l \in Nat, NEW e \in Nat,
           \/ CreateProcessing(Payload[r], l, e)
           \/ TryReclaim(l, e)
           \/ MarkSucceeded(i, r, e)
           \/ MarkFailedRetryable(i, l, e)
           \/ DeleteExpired
           \/ UNCHANGED recordVars
    PROVE  row' \in Rows /\ nextId' \in Nat
<1>1. row \in Rows /\ nextId \in Nat
  BY DEF TypeOK
<1>2. CASE CreateProcessing(Payload[r], l, e)
  BY <1>1, <1>2 DEF CreateProcessing, Rows, RecordStatuses
<1>3. CASE TryReclaim(l, e)
  BY <1>1, <1>3 DEF TryReclaim, Rows, RecordStatuses
<1>4. CASE MarkSucceeded(i, r, e)
  BY <1>1, <1>4 DEF MarkSucceeded, Rows, RecordStatuses
<1>5. CASE MarkFailedRetryable(i, l, e)
  BY <1>1, <1>5 DEF MarkFailedRetryable, Rows, RecordStatuses
<1>6. CASE DeleteExpired
  BY <1>1, <1>6 DEF DeleteExpired, NoRow, Rows, RecordStatuses
<1>7. CASE UNCHANGED recordVars
  BY <1>1, <1>7 DEF recordVars
<1>. QED  BY <1>2, <1>3, <1>4, <1>5, <1>6, <1>7

\* What the statements that update the record leave in it.
LEMMA RowFields ==
    ASSUME TypeOK
    PROVE  /\ \A l, e : TryReclaim(l, e) =>
                 /\ row'.id = row.id /\ row'.print = row.print
                 /\ row'.body = row.body /\ row'.status = "processing"
                 /\ row'.lock = l /\ row'.expires = e /\ nextId' = nextId
           /\ \A b, e : MarkSucceeded(row.id, b, e) =>
                 /\ row'.id = row.id /\ row'.print = row.print
                 /\ row'.body = b /\ row'.status = "succeeded"
                 /\ row'.expires = e /\ nextId' = nextId
           /\ \A l, e : MarkFailedRetryable(row.id, l, e) =>
                 /\ row'.id = row.id /\ row'.print = row.print
                 /\ row'.status = "failed_retryable"
                 /\ row'.expires = e /\ nextId' = nextId
<1>1. row \in Rows
  BY DEF TypeOK
<1>. QED  BY <1>1 DEF TryReclaim, MarkSucceeded, MarkFailedRetryable, Rows

\* A step of a request keeps the types.
LEMMA StepTypes ==
    ASSUME TypeOK, NEW r \in Requests, Step(r) \/ Die(r)
    PROVE  TypeOK'
<1> USE RequestsAssumption, TimesAssumption
<1>1. row.id \in Nat /\ row.body \in Requests \cup {NoRequest} /\ saw[r].id \in Nat
  BY DEF TypeOK, Rows
<1>2. start[r] + Timeout \in Nat /\ start[r] + TTL \in Nat /\ now + Backoff \in Nat
  BY DEF TypeOK
<1>3. row' \in Rows /\ nextId' \in Nat
  <2>1. CASE Begin(r)
    BY <1>2, <2>1, RowTypes DEF Begin, Goto, NoFault, recordVars
  <2>2. CASE CreateRecord(r)
    BY <1>2, <2>2, RowTypes DEF CreateRecord, Claim, Goto, NoFault,
       Unavailable, Answer, Fault, recordVars
  <2>3. CASE GetExisting(r)
    BY <1>2, <2>3, RowTypes DEF GetExisting, Judge, Refuse, Goto, NoFault,
       Unavailable, Answer, Fault, recordVars
  <2>4. CASE ReclaimExpired(r)
    BY <1>2, <2>4, RowTypes DEF ReclaimExpired, Claim, Goto, NoFault,
       Unavailable, Answer, Fault, recordVars
  <2>5. CASE GetLatest(r)
    BY <1>2, <2>5, RowTypes DEF GetLatest, Judge, Refuse, Goto, NoFault,
       Unavailable, Answer, Fault, recordVars
  <2>6. CASE ReclaimFailed(r)
    BY <1>2, <2>6, RowTypes DEF ReclaimFailed, Claim, Refuse, Goto, NoFault,
       Unavailable, Answer, Fault, recordVars
  <2>7. CASE ExecuteOperation(r)
    BY <1>2, <2>7, RowTypes DEF ExecuteOperation, Goto, NoFault, recordVars
  <2>8. CASE StoreSuccess(r)
    BY <1>2, <2>8, RowTypes DEF StoreSuccess, NoFault, Unavailable, Answer,
       Fault, recordVars
  <2>9. CASE StoreFailure(r)
    BY <1>2, <2>9, RowTypes DEF StoreFailure, NoFault, Unavailable, Answer,
       Fault, recordVars
  <2>10. CASE Die(r)
    BY <1>2, <2>10, RowTypes DEF Die, Unavailable, Answer, Fault, recordVars
  <2>. QED  BY <2>1, <2>2, <2>3, <2>4, <2>5, <2>6, <2>7, <2>8, <2>9, <2>10 DEF Step
<1>4. CASE Begin(r)
  BY <1>1, <1>3, <1>4 DEF Begin, Goto, NoFault, TypeOK, Pcs
<1>5. CASE CreateRecord(r)
  BY <1>1, <1>3, <1>5 DEF CreateRecord, Claim, Goto, NoFault, Unavailable,
     Answer, Fault, TypeOK, Pcs
<1>6. CASE GetExisting(r)
  BY <1>1, <1>3, <1>6 DEF GetExisting, Judge, Refuse, Goto, NoFault,
     Unavailable, Answer, Fault, TypeOK, Pcs
<1>7. CASE ReclaimExpired(r)
  BY <1>1, <1>3, <1>7 DEF ReclaimExpired, Claim, Goto, NoFault, Unavailable,
     Answer, Fault, TypeOK, Pcs
<1>8. CASE GetLatest(r)
  BY <1>1, <1>3, <1>8 DEF GetLatest, Judge, Refuse, Goto, NoFault,
     Unavailable, Answer, Fault, TypeOK, Pcs
<1>9. CASE ReclaimFailed(r)
  BY <1>1, <1>3, <1>9 DEF ReclaimFailed, Claim, Refuse, Goto, NoFault,
     Unavailable, Answer, Fault, TypeOK, Pcs
<1>10. CASE ExecuteOperation(r)
  BY <1>1, <1>3, <1>10 DEF ExecuteOperation, Goto, NoFault, TypeOK, Pcs
<1>11. CASE StoreSuccess(r)
  BY <1>1, <1>3, <1>11 DEF StoreSuccess, NoFault, Unavailable, Answer, Fault,
     TypeOK, Pcs
<1>12. CASE StoreFailure(r)
  BY <1>1, <1>3, <1>12 DEF StoreFailure, NoFault, Unavailable, Answer, Fault,
     TypeOK, Pcs
<1>13. CASE Die(r)
  BY <1>1, <1>3, <1>13 DEF Die, Unavailable, Answer, Fault, TypeOK, Pcs
<1>. QED  BY <1>4, <1>5, <1>6, <1>7, <1>8, <1>9, <1>10, <1>11, <1>12, <1>13 DEF Step

-----------------------------------------------------------------------------
(* One at a time.                                                          *)

\* A request that begins.
LEMMA BeginKeeps ==
    ASSUME Exclusive, NEW r \in Requests, Begin(r)
    PROVE  Exclusive'
<1> USE RequestsAssumption, BoundsAssumption, TimesAssumption
    DEF Exclusive, TypeOK, ClockInv, Running, RunPcs, ClaimPcs, recordVars
<1>1. TypeOK'
  BY StepTypes DEF Step
<1>2. ClockInv'
  BY <1>1 DEF Begin, Goto, NoFault
<1>3. IdInv'
  BY <1>1 DEF Begin, Goto, NoFault, Rows, IdInv, RunInv, NoRow
<1>4. RunInv'
  BY <1>1 DEF Begin, Goto, NoFault, Rows, IdInv, RunInv, StaleInv,
     OneAtATime, NoRow
<1>5. StaleInv'
  BY <1>1 DEF Begin, Goto, NoFault, Rows, RunInv, StaleInv
<1>6. OneAtATime'
  BY <1>1 DEF Begin, Goto, NoFault, Rows, IdInv, RunInv, StaleInv,
     OneAtATime, NoRow
<1>. QED  BY <1>1, <1>2, <1>3, <1>4, <1>5, <1>6

\* CreateProcessing inserts only where there is no record, so nobody runs.
LEMMA CreateRecordKeeps ==
    ASSUME Exclusive, NEW r \in Requests, CreateRecord(r)
    PROVE  Exclusive'
<1> USE RequestsAssumption, BoundsAssumption, TimesAssumption
    DEF Exclusive, TypeOK, ClockInv, Running, RunPcs, ClaimPcs, recordVars
<1>1. TypeOK'
  BY StepTypes DEF Step
<1>2. ClockInv'
  BY <1>1 DEF CreateRecord, Claim, Goto, NoFault, Unavailable, Answer, Fault,
     CreateProcessing
<1>3. IdInv'
  BY <1>1 DEF CreateRecord, Claim, Goto, NoFault, Unavailable, Answer, Fault,
     CreateProcessing, Rows, IdInv, RunInv, NoRow
<1>4. RunInv'
  BY <1>1 DEF CreateRecord, Claim, Goto, NoFault, Unavailable, Answer, Fault,
     CreateProcessing, Rows, IdInv, RunInv, StaleInv, OneAtATime, NoRow
<1>5. StaleInv'
  BY <1>1 DEF CreateRecord, Claim, Goto, NoFault, Unavailable, Answer, Fault,
     CreateProcessing, Rows, RunInv, StaleInv
<1>6. OneAtATime'
  BY <1>1 DEF CreateRecord, Claim, Goto, NoFault, Unavailable, Answer, Fault,
     CreateProcessing, Rows, IdInv, RunInv, StaleInv, OneAtATime, NoRow
<1>. QED  BY <1>1, <1>2, <1>3, <1>4, <1>5, <1>6

\* A running request's record has not expired, so a request that finds an
\* expired one leaves nobody running.
LEMMA GetExistingKeeps ==
    ASSUME Exclusive, NEW r \in Requests, GetExisting(r)
    PROVE  Exclusive'
<1> USE RequestsAssumption, BoundsAssumption, TimesAssumption
    DEF Exclusive, TypeOK, ClockInv, Running, RunPcs, ClaimPcs, recordVars
<1>1. TypeOK'
  BY StepTypes DEF Step
<1>2. ClockInv'
  BY <1>1 DEF GetExisting, Judge, Refuse, Goto, NoFault, Unavailable, Answer,
     Fault
<1>3. IdInv'
  BY <1>1 DEF GetExisting, Judge, Refuse, Goto, NoFault, Unavailable, Answer,
     Fault, Rows, IdInv, RunInv, NoRow
<1>4. RunInv'
  BY <1>1 DEF GetExisting, Judge, Refuse, Goto, NoFault, Unavailable, Answer,
     Fault, Rows, IdInv, RunInv, StaleInv, OneAtATime, NoRow
<1>5. StaleInv'
  BY <1>1 DEF GetExisting, Judge, Refuse, Goto, NoFault, Unavailable, Answer,
     Fault, Rows, RunInv, StaleInv
<1>6. OneAtATime'
  BY <1>1 DEF GetExisting, Judge, Refuse, Goto, NoFault, Unavailable, Answer,
     Fault, Rows, IdInv, RunInv, StaleInv, OneAtATime, NoRow
<1>. QED  BY <1>1, <1>2, <1>3, <1>4, <1>5, <1>6

\* A request that read the expired record before the running one claimed it
\* finds the lock of that claim.
LEMMA ReclaimExpiredKeeps ==
    ASSUME Exclusive, NEW r \in Requests, ReclaimExpired(r)
    PROVE  Exclusive'
<1> USE RequestsAssumption, BoundsAssumption, TimesAssumption
    DEF Exclusive, TypeOK, ClockInv, Running, RunPcs, ClaimPcs, recordVars
<1>1. TypeOK'
  BY StepTypes DEF Step
<1>2. ClockInv'
  BY <1>1, RowFields DEF ReclaimExpired, Claim, Goto, NoFault, Unavailable,
     Answer, Fault, Reclaimable
<1>3. IdInv'
  BY <1>1, RowFields DEF ReclaimExpired, Claim, Goto, NoFault, Unavailable,
     Answer, Fault, Reclaimable, Rows, IdInv, RunInv, NoRow
<1>4. RunInv'
  BY <1>1, RowFields DEF ReclaimExpired, Claim, Goto, NoFault, Unavailable,
     Answer, Fault, Reclaimable, Rows, IdInv, RunInv, StaleInv, OneAtATime,
     NoRow
<1>5. StaleInv'
  BY <1>1, RowFields DEF ReclaimExpired, Claim, Goto, NoFault, Unavailable,
     Answer, Fault, Reclaimable, Rows, RunInv, StaleInv
<1>6. OneAtATime'
  BY <1>1, RowFields DEF ReclaimExpired, Claim, Goto, NoFault, Unavailable,
     Answer, Fault, Reclaimable, Rows, IdInv, RunInv, StaleInv, OneAtATime,
     NoRow
<1>. QED  BY <1>1, <1>2, <1>3, <1>4, <1>5, <1>6

\* The second read.
LEMMA GetLatestKeeps ==
    ASSUME Exclusive, NEW r \in Requests, GetLatest(r)
    PROVE  Exclusive'
<1> USE RequestsAssumption, BoundsAssumption, TimesAssumption
    DEF Exclusive, TypeOK, ClockInv, Running, RunPcs, ClaimPcs, recordVars
<1>1. TypeOK'
  BY StepTypes DEF Step
<1>2. ClockInv'
  BY <1>1 DEF GetLatest, Judge, Refuse, Goto, NoFault, Unavailable, Answer,
     Fault
<1>3. IdInv'
  BY <1>1 DEF GetLatest, Judge, Refuse, Goto, NoFault, Unavailable, Answer,
     Fault, Rows, IdInv, RunInv, NoRow
<1>4. RunInv'
  BY <1>1 DEF GetLatest, Judge, Refuse, Goto, NoFault, Unavailable, Answer,
     Fault, Rows, IdInv, RunInv, StaleInv, OneAtATime, NoRow
<1>5. StaleInv'
  BY <1>1 DEF GetLatest, Judge, Refuse, Goto, NoFault, Unavailable, Answer,
     Fault, Rows, RunInv, StaleInv
<1>6. OneAtATime'
  BY <1>1 DEF GetLatest, Judge, Refuse, Goto, NoFault, Unavailable, Answer,
     Fault, Rows, IdInv, RunInv, StaleInv, OneAtATime, NoRow
<1>. QED  BY <1>1, <1>2, <1>3, <1>4, <1>5, <1>6

\* The record of a running request is not "failed_retryable".
LEMMA ReclaimFailedKeeps ==
    ASSUME Exclusive, NEW r \in Requests, ReclaimFailed(r)
    PROVE  Exclusive'
<1> USE RequestsAssumption, BoundsAssumption, TimesAssumption
    DEF Exclusive, TypeOK, ClockInv, Running, RunPcs, ClaimPcs, recordVars
<1>1. TypeOK'
  BY StepTypes DEF Step
<1>2. ClockInv'
  BY <1>1, RowFields DEF ReclaimFailed, Claim, Refuse, Goto, NoFault,
     Unavailable, Answer, Fault, Reclaimable
<1>3. IdInv'
  BY <1>1, RowFields DEF ReclaimFailed, Claim, Refuse, Goto, NoFault,
     Unavailable, Answer, Fault, Reclaimable, Rows, IdInv, RunInv, NoRow
<1>4. RunInv'
  BY <1>1, RowFields DEF ReclaimFailed, Claim, Refuse, Goto, NoFault,
     Unavailable, Answer, Fault, Reclaimable, Rows, IdInv, RunInv, StaleInv,
     OneAtATime, NoRow
<1>5. StaleInv'
  BY <1>1, RowFields DEF ReclaimFailed, Claim, Refuse, Goto, NoFault,
     Unavailable, Answer, Fault, Reclaimable, Rows, RunInv, StaleInv
<1>6. OneAtATime'
  BY <1>1, RowFields DEF ReclaimFailed, Claim, Refuse, Goto, NoFault,
     Unavailable, Answer, Fault, Reclaimable, Rows, IdInv, RunInv, StaleInv,
     OneAtATime, NoRow
<1>. QED  BY <1>1, <1>2, <1>3, <1>4, <1>5, <1>6

\* The operation leaves the record alone.
LEMMA ExecuteOperationKeeps ==
    ASSUME Exclusive, NEW r \in Requests, ExecuteOperation(r)
    PROVE  Exclusive'
<1> USE RequestsAssumption, BoundsAssumption, TimesAssumption
    DEF Exclusive, TypeOK, ClockInv, Running, RunPcs, ClaimPcs, recordVars
<1>1. TypeOK'
  BY StepTypes DEF Step
<1>2. ClockInv'
  BY <1>1 DEF ExecuteOperation, Goto, NoFault
<1>3. IdInv'
  BY <1>1 DEF ExecuteOperation, Goto, NoFault, Rows, IdInv, RunInv, NoRow
<1>4. RunInv'
  BY <1>1 DEF ExecuteOperation, Goto, NoFault, Rows, IdInv, RunInv, StaleInv,
     OneAtATime, NoRow
<1>5. StaleInv'
  BY <1>1 DEF ExecuteOperation, Goto, NoFault, Rows, RunInv, StaleInv
<1>6. OneAtATime'
  BY <1>1 DEF ExecuteOperation, Goto, NoFault, Rows, IdInv, RunInv, StaleInv,
     OneAtATime, NoRow
<1>. QED  BY <1>1, <1>2, <1>3, <1>4, <1>5, <1>6

\* Only the request that runs writes its outcome.
LEMMA StoreSuccessKeeps ==
    ASSUME Exclusive, NEW r \in Requests, StoreSuccess(r)
    PROVE  Exclusive'
<1> USE RequestsAssumption, BoundsAssumption, TimesAssumption
    DEF Exclusive, TypeOK, ClockInv, Running, RunPcs, ClaimPcs, recordVars
<1>1. TypeOK'
  BY StepTypes DEF Step
<1>2. ClockInv'
  BY <1>1, RowFields DEF StoreSuccess, NoFault, Unavailable, Answer, Fault
<1>3. IdInv'
  BY <1>1, RowFields DEF StoreSuccess, NoFault, Unavailable, Answer, Fault,
     Rows, IdInv, RunInv, NoRow
<1>4. RunInv'
  BY <1>1, RowFields DEF StoreSuccess, NoFault, Unavailable, Answer, Fault,
     Rows, IdInv, RunInv, StaleInv, OneAtATime, NoRow
<1>5. StaleInv'
  BY <1>1, RowFields DEF StoreSuccess, NoFault, Unavailable, Answer, Fault,
     Rows, RunInv, StaleInv
<1>6. OneAtATime'
  BY <1>1, RowFields DEF StoreSuccess, NoFault, Unavailable, Answer, Fault,
     Rows, IdInv, RunInv, StaleInv, OneAtATime, NoRow
<1>. QED  BY <1>1, <1>2, <1>3, <1>4, <1>5, <1>6

\* The same for a failure.
LEMMA StoreFailureKeeps ==
    ASSUME Exclusive, NEW r \in Requests, StoreFailure(r)
    PROVE  Exclusive'
<1> USE RequestsAssumption, BoundsAssumption, TimesAssumption
    DEF Exclusive, TypeOK, ClockInv, Running, RunPcs, ClaimPcs, recordVars
<1>1. TypeOK'
  BY StepTypes DEF Step
<1>2. ClockInv'
  BY <1>1, RowFields DEF StoreFailure, NoFault, Unavailable, Answer, Fault
<1>3. IdInv'
  BY <1>1, RowFields DEF StoreFailure, NoFault, Unavailable, Answer, Fault,
     Rows, IdInv, RunInv, NoRow
<1>4. RunInv'
  BY <1>1, RowFields DEF StoreFailure, NoFault, Unavailable, Answer, Fault,
     Rows, IdInv, RunInv, StaleInv, OneAtATime, NoRow
<1>5. StaleInv'
  BY <1>1, RowFields DEF StoreFailure, NoFault, Unavailable, Answer, Fault,
     Rows, RunInv, StaleInv
<1>6. OneAtATime'
  BY <1>1, RowFields DEF StoreFailure, NoFault, Unavailable, Answer, Fault,
     Rows, IdInv, RunInv, StaleInv, OneAtATime, NoRow
<1>. QED  BY <1>1, <1>2, <1>3, <1>4, <1>5, <1>6

\* A request that dies leaves the record as it is.
LEMMA DieKeeps ==
    ASSUME Exclusive, NEW r \in Requests, Die(r)
    PROVE  Exclusive'
<1> USE RequestsAssumption, BoundsAssumption, TimesAssumption
    DEF Exclusive, TypeOK, ClockInv, Running, RunPcs, ClaimPcs, recordVars
<1>1. TypeOK'
  BY StepTypes
<1>2. ClockInv'
  BY <1>1 DEF Die, Unavailable, Answer, Fault
<1>3. IdInv'
  BY <1>1 DEF Die, Unavailable, Answer, Fault, Rows, IdInv, RunInv, NoRow
<1>4. RunInv'
  BY <1>1 DEF Die, Unavailable, Answer, Fault, Rows, IdInv, RunInv, StaleInv,
     OneAtATime, NoRow
<1>5. StaleInv'
  BY <1>1 DEF Die, Unavailable, Answer, Fault, Rows, RunInv, StaleInv
<1>6. OneAtATime'
  BY <1>1 DEF Die, Unavailable, Answer, Fault, Rows, IdInv, RunInv, StaleInv,
     OneAtATime, NoRow
<1>. QED  BY <1>1, <1>2, <1>3, <1>4, <1>5, <1>6

\* An expired record is nobody's that runs.
LEMMA CleanupKeeps == Exclusive /\ Cleanup => Exclusive'
<1> SUFFICES ASSUME Exclusive, Cleanup PROVE Exclusive'
  OBVIOUS
<1> USE BoundsAssumption, TimesAssumption, RequestsAssumption
    DEF Exclusive, Cleanup, DeleteExpired, requestVars, NoFault
<1>1. row' \in Rows /\ row'.id = 0
  BY DEF NoRow, Rows, RecordStatuses
<1>2. TypeOK'
  BY <1>1 DEF TypeOK
<1>3. \A r \in Requests : ~Running(r)
  BY DEF TypeOK, Rows, ClockInv, RunInv, Running
<1>4. ClockInv' /\ IdInv' /\ RunInv' /\ StaleInv' /\ OneAtATime'
  BY <1>1, <1>3 DEF TypeOK, Rows, ClockInv, IdInv, RunInv, StaleInv, OneAtATime,
     Running, NoRow
<1>. QED  BY <1>2, <1>4

\* Time passes only within the bounds of every request.
LEMMA TickKeeps == Exclusive /\ Tick => Exclusive'
<1> SUFFICES ASSUME Exclusive, Tick PROVE Exclusive'
  OBVIOUS
<1> USE DEF Exclusive, Tick, recordVars, requestVars, NoFault
<1>1. TypeOK'
  BY DEF TypeOK
<1>2. ClockInv'
  BY TimesAssumption, RequestsAssumption DEF TypeOK, ClockInv, Running
<1>3. IdInv' /\ RunInv' /\ StaleInv' /\ OneAtATime'
  BY DEF IdInv, RunInv, StaleInv, OneAtATime, Running
<1>. QED  BY <1>1, <1>2, <1>3

\* Nobody has begun, and there is no record.
LEMMA ExclusiveInit == Init => Exclusive
  BY RequestsAssumption, TimesAssumption
     DEF Init, Exclusive, TypeOK, Rows, NoRow, RecordStatuses, Pcs, ClockInv,
         IdInv, RunInv, StaleInv, OneAtATime, Running, RunPcs, ClaimPcs

\* Every step keeps claims exclusive.
LEMMA ExclusiveStep == Exclusive /\ [Next]_vars => Exclusive'
<1> SUFFICES ASSUME Exclusive, [Next]_vars PROVE Exclusive'
  OBVIOUS
<1>1. CASE \E r \in Requests : Step(r) \/ Die(r)
  BY <1>1, BeginKeeps, CreateRecordKeeps, GetExistingKeeps, ReclaimExpiredKeeps,
     GetLatestKeeps, ReclaimFailedKeeps, ExecuteOperationKeeps,
     StoreSuccessKeeps, StoreFailureKeeps, DieKeeps DEF Step
<1>2. CASE UNCHANGED vars
  BY <1>2 DEF vars, recordVars, requestVars, Exclusive, TypeOK, ClockInv, IdInv,
     RunInv, StaleInv, OneAtATime, Running
<1>. QED  BY <1>1, <1>2, CleanupKeeps, TickKeeps DEF Next

\* Every variable of Execute and of the table keeps its type.
THEOREM TypeCorrect == Spec => []TypeOK
<1>1. Exclusive => TypeOK
  BY DEF Exclusive
<1>. QED  BY <1>1, ExclusiveInit, ExclusiveStep, PTL DEF Spec

\* Two requests with one key never run the operation at the same time, in any
\* number and with any faults, if claims are quicker than the processing timeout
\* and operations than the TTL (TryReclaim, DeleteExpired).
THEOREM NeverTwoAtATime == Spec => []OneAtATime
<1>1. Exclusive => OneAtATime
  BY DEF Exclusive
<1>. QED  BY <1>1, ExclusiveInit, ExclusiveStep, PTL DEF Spec

-----------------------------------------------------------------------------
(* Replays.                                                                *)

\* A step of a request keeps the record and its response with its payload.
LEMMA RequestIsLawful ==
    ASSUME Lawful, NEW r \in Requests, Step(r) \/ Die(r)
    PROVE  (PrintInv /\ RanInv /\ StoredInv /\ ReplayIsTrue)'
<1> USE RequestsAssumption, TimesAssumption, BoundsAssumption
    DEF Lawful, Exclusive, TypeOK, IdInv, RunInv, OneAtATime, Running,
       RunPcs, ClaimPcs, recordVars
<1>1. CASE Begin(r)
  <2>1. PrintInv'
    BY <1>1 DEF Begin, Goto, NoFault, PrintInv, SamePayload, Rows, NoRow
  <2>2. RanInv'
    BY <1>1 DEF Begin, Goto, NoFault, RanInv
  <2>3. StoredInv'
    BY <1>1 DEF Begin, Goto, NoFault, StoredInv, PrintInv, RanInv, Rows,
       NoRow
  <2>4. ReplayIsTrue'
    BY <1>1 DEF Begin, Goto, NoFault, ReplayIsTrue, StoredInv, SamePayload,
       Decodable, Rows, NoRow
  <2>. QED  BY <2>1, <2>2, <2>3, <2>4
<1>2. CASE CreateRecord(r)
  <2>1. PrintInv'
    BY <1>2 DEF CreateRecord, Claim, Goto, NoFault, Unavailable, Answer,
       Fault, CreateProcessing, PrintInv, SamePayload, Rows, NoRow
  <2>2. RanInv'
    BY <1>2 DEF CreateRecord, Claim, Goto, NoFault, Unavailable, Answer,
       Fault, CreateProcessing, RanInv
  <2>3. StoredInv'
    BY <1>2 DEF CreateRecord, Claim, Goto, NoFault, Unavailable, Answer,
       Fault, CreateProcessing, StoredInv, PrintInv, RanInv, Rows, NoRow
  <2>4. ReplayIsTrue'
    BY <1>2 DEF CreateRecord, Claim, Goto, NoFault, Unavailable, Answer,
       Fault, CreateProcessing, ReplayIsTrue, StoredInv, SamePayload,
       Decodable, Rows, NoRow
  <2>. QED  BY <2>1, <2>2, <2>3, <2>4
<1>3. CASE GetExisting(r)
  <2>1. PrintInv'
    BY <1>3 DEF GetExisting, Judge, Refuse, Goto, NoFault, Unavailable,
       Answer, Fault, PrintInv, SamePayload, Rows, NoRow
  <2>2. RanInv'
    BY <1>3 DEF GetExisting, Judge, Refuse, Goto, NoFault, Unavailable,
       Answer, Fault, RanInv
  <2>3. StoredInv'
    BY <1>3 DEF GetExisting, Judge, Refuse, Goto, NoFault, Unavailable,
       Answer, Fault, StoredInv, PrintInv, RanInv, Rows, NoRow
  <2>4. ReplayIsTrue'
    BY <1>3 DEF GetExisting, Judge, Refuse, Goto, NoFault, Unavailable,
       Answer, Fault, ReplayIsTrue, StoredInv, SamePayload, Decodable, Rows,
       NoRow
  <2>. QED  BY <2>1, <2>2, <2>3, <2>4
<1>4. CASE ReclaimExpired(r)
  <2>1. PrintInv'
    BY <1>4, RowFields DEF ReclaimExpired, Claim, Goto, NoFault, Unavailable,
       Answer, Fault, Reclaimable, PrintInv, SamePayload, Rows, NoRow
  <2>2. RanInv'
    BY <1>4, RowFields DEF ReclaimExpired, Claim, Goto, NoFault, Unavailable,
       Answer, Fault, Reclaimable, RanInv
  <2>3. StoredInv'
    BY <1>4, RowFields DEF ReclaimExpired, Claim, Goto, NoFault, Unavailable,
       Answer, Fault, Reclaimable, StoredInv, PrintInv, RanInv, Rows, NoRow
  <2>4. ReplayIsTrue'
    BY <1>4, RowFields DEF ReclaimExpired, Claim, Goto, NoFault, Unavailable,
       Answer, Fault, Reclaimable, ReplayIsTrue, StoredInv, SamePayload,
       Decodable, Rows, NoRow
  <2>. QED  BY <2>1, <2>2, <2>3, <2>4
<1>5. CASE GetLatest(r)
  <2>1. PrintInv'
    BY <1>5 DEF GetLatest, Judge, Refuse, Goto, NoFault, Unavailable, Answer,
       Fault, PrintInv, SamePayload, Rows, NoRow
  <2>2. RanInv'
    BY <1>5 DEF GetLatest, Judge, Refuse, Goto, NoFault, Unavailable, Answer,
       Fault, RanInv
  <2>3. StoredInv'
    BY <1>5 DEF GetLatest, Judge, Refuse, Goto, NoFault, Unavailable, Answer,
       Fault, StoredInv, PrintInv, RanInv, Rows, NoRow
  <2>4. ReplayIsTrue'
    BY <1>5 DEF GetLatest, Judge, Refuse, Goto, NoFault, Unavailable, Answer,
       Fault, ReplayIsTrue, StoredInv, SamePayload, Decodable, Rows, NoRow
  <2>. QED  BY <2>1, <2>2, <2>3, <2>4
<1>6. CASE ReclaimFailed(r)
  <2>1. PrintInv'
    BY <1>6, RowFields DEF ReclaimFailed, Claim, Refuse, Goto, NoFault,
       Unavailable, Answer, Fault, Reclaimable, PrintInv, SamePayload, Rows,
       NoRow
  <2>2. RanInv'
    BY <1>6, RowFields DEF ReclaimFailed, Claim, Refuse, Goto, NoFault,
       Unavailable, Answer, Fault, Reclaimable, RanInv
  <2>3. StoredInv'
    BY <1>6, RowFields DEF ReclaimFailed, Claim, Refuse, Goto, NoFault,
       Unavailable, Answer, Fault, Reclaimable, StoredInv, PrintInv, RanInv,
       Rows, NoRow
  <2>4. ReplayIsTrue'
    BY <1>6, RowFields DEF ReclaimFailed, Claim, Refuse, Goto, NoFault,
       Unavailable, Answer, Fault, Reclaimable, ReplayIsTrue, StoredInv,
       SamePayload, Decodable, Rows, NoRow
  <2>. QED  BY <2>1, <2>2, <2>3, <2>4
<1>7. CASE ExecuteOperation(r)
  <2>1. PrintInv'
    BY <1>7 DEF ExecuteOperation, Goto, NoFault, PrintInv, SamePayload, Rows,
       NoRow
  <2>2. RanInv'
    BY <1>7 DEF ExecuteOperation, Goto, NoFault, RanInv
  <2>3. StoredInv'
    BY <1>7 DEF ExecuteOperation, Goto, NoFault, StoredInv, PrintInv, RanInv,
       Rows, NoRow
  <2>4. ReplayIsTrue'
    <3>1. \A s \in Requests : ran[s] => ran'[s]
      BY <1>7 DEF ExecuteOperation, Goto, NoFault
    <3>2. answer' = answer /\ body' = body
      BY <1>7 DEF ExecuteOperation, Goto, NoFault
    <3>. QED  BY <3>1, <3>2 DEF ReplayIsTrue
  <2>. QED  BY <2>1, <2>2, <2>3, <2>4
<1>8. CASE StoreSuccess(r)
  <2>1. PrintInv'
    BY <1>8, RowFields DEF StoreSuccess, NoFault, Unavailable, Answer, Fault,
       PrintInv, SamePayload, Rows, NoRow
  <2>2. RanInv'
    BY <1>8, RowFields DEF StoreSuccess, NoFault, Unavailable, Answer, Fault,
       RanInv
  <2>3. StoredInv'
    BY <1>8, RowFields DEF StoreSuccess, NoFault, Unavailable, Answer, Fault,
       StoredInv, PrintInv, RanInv, Rows, NoRow
  <2>4. ReplayIsTrue'
    BY <1>8, RowFields DEF StoreSuccess, NoFault, Unavailable, Answer, Fault,
       ReplayIsTrue, StoredInv, SamePayload, Decodable, Rows, NoRow
  <2>. QED  BY <2>1, <2>2, <2>3, <2>4
<1>9. CASE StoreFailure(r)
  <2>1. PrintInv'
    BY <1>9, RowFields DEF StoreFailure, NoFault, Unavailable, Answer, Fault,
       PrintInv, SamePayload, Rows, NoRow
  <2>2. RanInv'
    BY <1>9, RowFields DEF StoreFailure, NoFault, Unavailable, Answer, Fault,
       RanInv
  <2>3. StoredInv'
    BY <1>9, RowFields DEF StoreFailure, NoFault, Unavailable, Answer, Fault,
       StoredInv, PrintInv, RanInv, Rows, NoRow
  <2>4. ReplayIsTrue'
    BY <1>9, RowFields DEF StoreFailure, NoFault, Unavailable, Answer, Fault,
       ReplayIsTrue, StoredInv, SamePayload, Decodable, Rows, NoRow
  <2>. QED  BY <2>1, <2>2, <2>3, <2>4
<1>10. CASE Die(r)
  <2>1. PrintInv'
    BY <1>10 DEF Die, Unavailable, Answer, Fault, PrintInv, SamePayload,
       Rows, NoRow
  <2>2. RanInv'
    BY <1>10 DEF Die, Unavailable, Answer, Fault, RanInv
  <2>3. StoredInv'
    BY <1>10 DEF Die, Unavailable, Answer, Fault, StoredInv, PrintInv,
       RanInv, Rows, NoRow
  <2>4. ReplayIsTrue'
    BY <1>10 DEF Die, Unavailable, Answer, Fault, ReplayIsTrue, StoredInv,
       SamePayload, Decodable, Rows, NoRow
  <2>. QED  BY <2>1, <2>2, <2>3, <2>4
<1>. QED  BY <1>1, <1>2, <1>3, <1>4, <1>5, <1>6, <1>7, <1>8, <1>9, <1>10 DEF Step

\* Every step keeps replays true.
LEMMA LawfulStep == Lawful /\ [Next]_vars => Lawful'
<1> SUFFICES ASSUME Lawful, [Next]_vars PROVE Lawful'
  OBVIOUS
<1>1. Exclusive'
  BY ExclusiveStep DEF Lawful
<1>2. CASE \E r \in Requests : Step(r) \/ Die(r)
  BY <1>1, <1>2, RequestIsLawful DEF Lawful
<1>3. CASE Cleanup
  <2>1. \A r \in Requests : ~Running(r)
    BY <1>3, BoundsAssumption, TimesAssumption, RequestsAssumption
       DEF Lawful, Exclusive, TypeOK, Rows, ClockInv, RunInv, Running, Cleanup,
           DeleteExpired
  <2>2. PrintInv' /\ RanInv' /\ StoredInv' /\ ReplayIsTrue'
    BY <1>3, <2>1 DEF Lawful, Exclusive, IdInv, PrintInv, RanInv, StoredInv,
       ReplayIsTrue, Running, Cleanup, DeleteExpired, requestVars, NoRow
  <2>. QED  BY <1>1, <2>2 DEF Lawful
<1>4. CASE Tick \/ UNCHANGED vars
  BY <1>1, <1>4 DEF Lawful, PrintInv, RanInv, StoredInv, ReplayIsTrue, Running,
     Tick, vars, recordVars, requestVars
<1>. QED  BY <1>2, <1>3, <1>4 DEF Next

\* A replayed response always is the response to a request with the same payload
\* that was carried out (the comparison of fingerprints, decodeStoredResponse).
THEOREM ReplaysAreTrue == Spec => []ReplayIsTrue
<1>1. Init => Lawful
  BY ExclusiveInit DEF Lawful, Init, PrintInv, RanInv, StoredInv, ReplayIsTrue,
     Running, RunPcs, NoRow
<1>2. Lawful => ReplayIsTrue
  BY DEF Lawful
<1>. QED  BY <1>1, <1>2, LawfulStep, PTL DEF Spec

-----------------------------------------------------------------------------
(* Once until expiry.                                                      *)

\* A step of a request leaves a record of what was carried out.
LEMMA RequestIsOnce ==
    ASSUME Once, NEW r \in Requests, Step(r) \/ Die(r)
    PROVE  (RanInv /\ ExpiryInv /\ OnceInv)'
<1> USE RequestsAssumption, TimesAssumption, BoundsAssumption
    DEF Once, Exclusive, TypeOK, IdInv, RunInv, OneAtATime, Running, RunPcs,
       ClaimPcs, recordVars
<1>1. CASE Begin(r)
  <2>1. RanInv'
    BY <1>1 DEF Begin, Goto, NoFault, RanInv
  <2>2. ExpiryInv'
    BY <1>1 DEF Begin, Goto, NoFault, ExpiryInv, SomeExpired, ClockInv, Rows,
       NoRow
  <2>3. OnceInv'
    BY <1>1 DEF Begin, Goto, NoFault, OnceInv, RanInv, ExpiryInv,
       SomeExpired, Busy, ClockInv, Rows, NoRow
  <2>. QED  BY <2>1, <2>2, <2>3
<1>2. CASE CreateRecord(r)
  <2>1. RanInv'
    BY <1>2 DEF CreateRecord, Claim, Goto, NoFault, Unavailable, Answer,
       Fault, CreateProcessing, RanInv
  <2>2. ExpiryInv'
    <3>1. SomeExpired => SomeExpired'
      BY <1>2 DEF CreateRecord, Claim, Goto, NoFault, Unavailable, Answer,
         Fault, ExpiryInv, SomeExpired
    <3>2. row.id # 0 =>
            \E q \in Requests : mine[q] # 0 /\ row.expires = start[q] + TTL
      BY DEF ExpiryInv
    <3>3. (row.id # 0 =>
             \E q \in Requests : mine[q] # 0 /\ row.expires = start[q] + TTL)'
      BY <1>2, <3>2 DEF CreateRecord, Claim, Goto, NoFault, Unavailable,
         Answer, Fault, CreateProcessing, ExpiryInv, Rows, NoRow
    <3>. QED
      BY <1>2, <3>1, <3>2, <3>3 DEF CreateRecord, Claim, Goto, NoFault,
         Unavailable, Answer, Fault, CreateProcessing, ExpiryInv,
         SomeExpired, ClockInv, Rows, NoRow
  <2>3. OnceInv'
    BY <1>2 DEF CreateRecord, Claim, Goto, NoFault, Unavailable, Answer,
       Fault, CreateProcessing, OnceInv, RanInv, ExpiryInv, SomeExpired,
       Busy, ClockInv, Rows, NoRow
  <2>. QED  BY <2>1, <2>2, <2>3
<1>3. CASE GetExisting(r)
  <2>1. RanInv'
    BY <1>3 DEF GetExisting, Judge, Refuse, Goto, NoFault, Unavailable,
       Answer, Fault, RanInv
  <2>2. ExpiryInv'
    BY <1>3 DEF GetExisting, Judge, Refuse, Goto, NoFault, Unavailable,
       Answer, Fault, ExpiryInv, SomeExpired, ClockInv, Rows, NoRow
  <2>3. OnceInv'
    BY <1>3 DEF GetExisting, Judge, Refuse, Goto, NoFault, Unavailable,
       Answer, Fault, OnceInv, RanInv, ExpiryInv, SomeExpired, Busy,
       ClockInv, Rows, NoRow
  <2>. QED  BY <2>1, <2>2, <2>3
<1>4. CASE ReclaimExpired(r)
  <2>1. RanInv'
    BY <1>4, RowFields DEF ReclaimExpired, Claim, Goto, NoFault, Unavailable,
       Answer, Fault, Reclaimable, RanInv
  <2>2. ExpiryInv'
    <3>1. SomeExpired => SomeExpired'
      BY <1>4 DEF ReclaimExpired, Claim, Goto, NoFault, Unavailable, Answer,
         Fault, ExpiryInv, SomeExpired
    <3>2. row.id # 0 =>
            \E q \in Requests : mine[q] # 0 /\ row.expires = start[q] + TTL
      BY DEF ExpiryInv
    <3>3. (row.id # 0 =>
             \E q \in Requests : mine[q] # 0 /\ row.expires = start[q] + TTL)'
      BY <1>4, <3>2, RowFields DEF ReclaimExpired, Claim, Goto, NoFault,
         Unavailable, Answer, Fault, Reclaimable, ExpiryInv, Rows, NoRow
    <3>. QED
      BY <1>4, <3>1, <3>2, <3>3, RowFields DEF ReclaimExpired, Claim, Goto,
         NoFault, Unavailable, Answer, Fault, Reclaimable, ExpiryInv,
         SomeExpired, ClockInv, Rows, NoRow
  <2>3. OnceInv'
    BY <1>4, RowFields DEF ReclaimExpired, Claim, Goto, NoFault, Unavailable,
       Answer, Fault, Reclaimable, OnceInv, RanInv, ExpiryInv, SomeExpired,
       Busy, ClockInv, Rows, NoRow
  <2>. QED  BY <2>1, <2>2, <2>3
<1>5. CASE GetLatest(r)
  <2>1. RanInv'
    BY <1>5 DEF GetLatest, Judge, Refuse, Goto, NoFault, Unavailable, Answer,
       Fault, RanInv
  <2>2. ExpiryInv'
    BY <1>5 DEF GetLatest, Judge, Refuse, Goto, NoFault, Unavailable, Answer,
       Fault, ExpiryInv, SomeExpired, ClockInv, Rows, NoRow
  <2>3. OnceInv'
    BY <1>5 DEF GetLatest, Judge, Refuse, Goto, NoFault, Unavailable, Answer,
       Fault, OnceInv, RanInv, ExpiryInv, SomeExpired, Busy, ClockInv, Rows,
       NoRow
  <2>. QED  BY <2>1, <2>2, <2>3
<1>6. CASE ReclaimFailed(r)
  <2>1. RanInv'
    BY <1>6, RowFields DEF ReclaimFailed, Claim, Refuse, Goto, NoFault,
       Unavailable, Answer, Fault, Reclaimable, RanInv
  <2>2. ExpiryInv'
    <3>1. SomeExpired => SomeExpired'
      BY <1>6 DEF ReclaimFailed, Claim, Refuse, Goto, NoFault, Unavailable,
         Answer, Fault, ExpiryInv, SomeExpired
    <3>2. row.id # 0 =>
            \E q \in Requests : mine[q] # 0 /\ row.expires = start[q] + TTL
      BY DEF ExpiryInv
    <3>3. (row.id # 0 =>
             \E q \in Requests : mine[q] # 0 /\ row.expires = start[q] + TTL)'
      BY <1>6, <3>2, RowFields DEF ReclaimFailed, Claim, Refuse, Goto,
         NoFault, Unavailable, Answer, Fault, Reclaimable, ExpiryInv, Rows,
         NoRow
    <3>. QED
      BY <1>6, <3>1, <3>2, <3>3, RowFields DEF ReclaimFailed, Claim, Refuse,
         Goto, NoFault, Unavailable, Answer, Fault, Reclaimable, ExpiryInv,
         SomeExpired, ClockInv, Rows, NoRow
  <2>3. OnceInv'
    BY <1>6, RowFields DEF ReclaimFailed, Claim, Refuse, Goto, NoFault,
       Unavailable, Answer, Fault, Reclaimable, OnceInv, RanInv, ExpiryInv,
       SomeExpired, Busy, ClockInv, Rows, NoRow
  <2>. QED  BY <2>1, <2>2, <2>3
<1>7. CASE ExecuteOperation(r)
  <2>1. RanInv'
    BY <1>7 DEF ExecuteOperation, Goto, NoFault, RanInv
  <2>2. ExpiryInv'
    BY <1>7 DEF ExecuteOperation, Goto, NoFault, ExpiryInv, SomeExpired,
       ClockInv, Rows, NoRow
  <2>3. OnceInv'
    BY <1>7 DEF ExecuteOperation, Goto, NoFault, OnceInv, RanInv, ExpiryInv,
       SomeExpired, Busy, ClockInv, Rows, NoRow
  <2>. QED  BY <2>1, <2>2, <2>3
<1>8. CASE StoreSuccess(r)
  <2>1. RanInv'
    BY <1>8, RowFields DEF StoreSuccess, NoFault, Unavailable, Answer, Fault,
       RanInv
  <2>2. ExpiryInv'
    <3>1. SomeExpired => SomeExpired'
      BY <1>8 DEF StoreSuccess, NoFault, Unavailable, Answer, Fault,
         ExpiryInv, SomeExpired
    <3>2. row.id # 0 =>
            \E q \in Requests : mine[q] # 0 /\ row.expires = start[q] + TTL
      BY DEF ExpiryInv
    <3>3. (row.id # 0 =>
             \E q \in Requests : mine[q] # 0 /\ row.expires = start[q] + TTL)'
      BY <1>8, <3>2, RowFields DEF StoreSuccess, NoFault, Unavailable,
         Answer, Fault, ExpiryInv, Rows, NoRow
    <3>. QED
      BY <1>8, <3>1, <3>2, <3>3, RowFields DEF StoreSuccess, NoFault,
         Unavailable, Answer, Fault, ExpiryInv, SomeExpired, ClockInv, Rows,
         NoRow
  <2>3. OnceInv'
    BY <1>8, RowFields DEF StoreSuccess, NoFault, Unavailable, Answer, Fault,
       OnceInv, RanInv, ExpiryInv, SomeExpired, Busy, ClockInv, Rows, NoRow
  <2>. QED  BY <2>1, <2>2, <2>3
<1>9. CASE StoreFailure(r)
  <2>1. RanInv'
    BY <1>9, RowFields DEF StoreFailure, NoFault, Unavailable, Answer, Fault,
       RanInv
  <2>2. ExpiryInv'
    <3>1. SomeExpired => SomeExpired'
      BY <1>9 DEF StoreFailure, NoFault, Unavailable, Answer, Fault,
         ExpiryInv, SomeExpired
    <3>2. row.id # 0 =>
            \E q \in Requests : mine[q] # 0 /\ row.expires = start[q] + TTL
      BY DEF ExpiryInv
    <3>3. (row.id # 0 =>
             \E q \in Requests : mine[q] # 0 /\ row.expires = start[q] + TTL)'
      BY <1>9, <3>2, RowFields DEF StoreFailure, NoFault, Unavailable,
         Answer, Fault, ExpiryInv, Rows, NoRow
    <3>. QED
      BY <1>9, <3>1, <3>2, <3>3, RowFields DEF StoreFailure, NoFault,
         Unavailable, Answer, Fault, ExpiryInv, SomeExpired, ClockInv, Rows,
         NoRow
  <2>3. OnceInv'
    BY <1>9, RowFields DEF StoreFailure, NoFault, Unavailable, Answer, Fault,
       OnceInv, RanInv, ExpiryInv, SomeExpired, Busy, ClockInv, Rows, NoRow
  <2>. QED  BY <2>1, <2>2, <2>3
<1>10. CASE Die(r)
  <2>1. RanInv'
    BY <1>10 DEF Die, Unavailable, Answer, Fault, RanInv
  <2>2. ExpiryInv'
    BY <1>10 DEF Die, Unavailable, Answer, Fault, ExpiryInv, SomeExpired,
       ClockInv, Rows, NoRow
  <2>3. OnceInv'
    BY <1>10 DEF Die, Unavailable, Answer, Fault, OnceInv, RanInv, ExpiryInv,
       SomeExpired, Busy, ClockInv, Rows, NoRow
  <2>. QED  BY <2>1, <2>2, <2>3
<1>. QED  BY <1>1, <1>2, <1>3, <1>4, <1>5, <1>6, <1>7, <1>8, <1>9, <1>10 DEF Step

\* Every step keeps what was carried out on record until something expires.
LEMMA OnceStep == Once /\ [Next]_vars => Once'
<1> SUFFICES ASSUME Once, [Next]_vars PROVE Once'
  OBVIOUS
<1>1. Exclusive'
  BY ExclusiveStep DEF Once
<1>2. CASE \E r \in Requests : Step(r) \/ Die(r)
  BY <1>1, <1>2, RequestIsOnce DEF Once
<1>3. CASE Cleanup
  <2>1. row.id # 0 /\ row.expires \leq now
    BY <1>3 DEF Cleanup, DeleteExpired, Once, Exclusive, IdInv
  <2>2. SomeExpired /\ SomeExpired'
    BY <1>3, <2>1 DEF Once, ExpiryInv, SomeExpired, Cleanup, requestVars
  <2>3. RanInv' /\ ExpiryInv' /\ OnceInv'
    BY <1>3, <2>2 DEF Once, RanInv, ExpiryInv, OnceInv, Cleanup, DeleteExpired,
       requestVars, NoRow
  <2>. QED  BY <1>1, <2>3 DEF Once
<1>4. CASE Tick
  <2>1. SomeExpired => SomeExpired'
    BY <1>4, TimesAssumption DEF Once, Exclusive, TypeOK, SomeExpired, Tick,
       requestVars
  <2>2. RanInv' /\ ExpiryInv' /\ OnceInv'
    BY <1>4, <2>1 DEF Once, RanInv, ExpiryInv, OnceInv, Busy, Running, Tick,
       recordVars, requestVars
  <2>. QED  BY <1>1, <2>2 DEF Once
<1>5. CASE UNCHANGED vars
  BY <1>1, <1>5 DEF Once, RanInv, ExpiryInv, OnceInv, SomeExpired, Busy, Running,
     vars, recordVars, requestVars
<1>. QED  BY <1>2, <1>3, <1>4, <1>5 DEF Next

\* While no record has outlived its TTL the operation is carried out at most once,
\* although claims race, outcomes are not stored and requests die (Execute).
THEOREM CarriedOutOnce == Spec => []OnceUntilExpiry
<1>1. Init => Once
  BY ExclusiveInit DEF Once, Init, RanInv, ExpiryInv, OnceInv, Busy, Running,
     RunPcs, NoRow
<1>2. Once => OnceUntilExpiry
  BY DEF Once, OnceInv, SomeExpired, OnceUntilExpiry, Acts, Busy, Running, RunPcs
<1>. QED  BY <1>1, <1>2, OnceStep, PTL DEF Spec
=============================================================================
