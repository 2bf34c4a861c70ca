------------------------- MODULE IdempotencyRecords -------------------------
(***************************************************************************)
(* The table idempotency_records for one scope and key:                    *)
(* backend/internal/repository/idempotency_repo.go.  Each operator is one  *)
(* SQL statement.  IdempotentExecute and SystemOperationLock share it.     *)
(***************************************************************************)
EXTENDS Naturals

CONSTANTS
    Timeout,    \* processing_timeout_seconds, in ticks
    TTL,        \* how long a record lives, in ticks
    MaxTime,    \* bound on the clock
    NoRequest   \* "nobody", for fields that are NULL

ASSUME TimesAssumption ==
    /\ Timeout \in Nat \ {0}
    /\ TTL \in Nat \ {0}
    /\ MaxTime \in Nat

VARIABLES
    now,     \* the clock, the same for application and database
    row,     \* the record, NoRow if there is none
    nextId   \* the sequence behind its id

recordVars == <<row, nextId>>

RecordStatuses == {"processing", "succeeded", "failed_retryable"}

\* An id of 0 is no row; a locked_until of 0 is NULL.
NoRow == [id |-> 0, print |-> NoRequest, status |-> "processing", lock |-> 0,
          expires |-> 0, body |-> NoRequest]

\* INSERT ... ON CONFLICT DO NOTHING, when there is no row.
CreateProcessing(p, lock, expires) ==
    /\ row = NoRow
    /\ row' = [id |-> nextId, print |-> p, status |-> "processing",
               lock |-> lock, expires |-> expires, body |-> NoRequest]
    /\ nextId' = nextId + 1

\* Mutant: a reclaim that does not ask whether the lock has run out.
ReclaimableLocked(id, from, at) == row.id = id /\ row.status = from

\* The WHERE clause of TryReclaim.
Reclaimable(id, from, at) ==
    /\ row.id = id
    /\ row.status = from
    /\ row.lock \leq at

\* TryReclaim of a reclaimable row.  The fingerprint and the response stay.
TryReclaim(lock, expires) ==
    /\ row' = [row EXCEPT !.status = "processing", !.lock = lock,
                          !.expires = expires]
    /\ UNCHANGED nextId

\* The WHERE clause of ExtendProcessingLock.
Extendable(id, p) ==
    /\ row.id = id
    /\ row.status = "processing"
    /\ row.print = p

\* Mutant: only the expiry of the record is moved.
ExtendExpiryOnly(lock, expires) ==
    /\ row' = [row EXCEPT !.expires = expires]
    /\ UNCHANGED nextId

ExtendProcessingLock(lock, expires) ==
    /\ row' = [row EXCEPT !.lock = lock, !.expires = expires]
    /\ UNCHANGED nextId

\* MarkSucceeded, with no condition but the id.
MarkSucceeded(id, body, expires) ==
    /\ row' = IF row.id = id
              THEN [row EXCEPT !.status = "succeeded", !.body = body,
                               !.lock = 0, !.expires = expires]
              ELSE row
    /\ UNCHANGED nextId

\* Mutant: a status that nobody knows.
MarkFailedUnknown(id, lock, expires) ==
    /\ row' = IF row.id = id
              THEN [row EXCEPT !.status = "failed", !.lock = lock,
                               !.expires = expires]
              ELSE row
    /\ UNCHANGED nextId

\* MarkFailedRetryable, with no condition but the id.
MarkFailedRetryable(id, lock, expires) ==
    /\ row' = IF row.id = id
              THEN [row EXCEPT !.status = "failed_retryable", !.lock = lock,
                               !.expires = expires]
              ELSE row
    /\ UNCHANGED nextId

\* DeleteExpired, called by the cleanup service every minute.
DeleteExpired ==
    /\ row # NoRow
    /\ row.expires \leq now
    /\ row' = NoRow
    /\ UNCHANGED nextId
=============================================================================
