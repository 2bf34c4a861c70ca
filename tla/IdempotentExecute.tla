-------------------------- MODULE IdempotentExecute --------------------------
(***************************************************************************)
(* IdempotencyCoordinator.Execute (backend/internal/service/idempotency.go)*)
(* for requests that carry one scope and key.  A request is one call of    *)
(* Execute: a client that tries again makes another request.  Every        *)
(* statement on the table and the guarded operation itself are steps.      *)
(***************************************************************************)
EXTENDS IdempotencyRecords

CONSTANTS
    Requests,    \* the calls
    Payload,     \* the fingerprint of each
    Oversized,   \* requests whose response is truncated when it is stored
    Backoff,     \* failed_retry_backoff_seconds, in ticks
    MaxClaim,    \* a request claims the key, or gives up, within this time
    MaxRun,      \* and it ends, or dies, within this time
    MaxFaults    \* bound on statements that fail and requests that die

ASSUME RequestsAssumption ==
    /\ NoRequest \notin Requests
    /\ Oversized \subseteq Requests
    /\ Backoff \in Nat
    /\ MaxClaim \in Nat
    /\ MaxRun \in Nat
    /\ MaxFaults \in Nat

\* The code takes for granted that claiming is quicker than the processing
\* timeout and that an operation ends before its record expires.
ASSUME BoundsAssumption ==
    /\ MaxClaim < Timeout
    /\ MaxClaim \leq MaxRun
    /\ MaxRun < TTL

VARIABLES
    pc,       \* next step of a request
    start,    \* the time at which it began
    saw,      \* the record it read
    mine,     \* the id of the record it claimed, 0 before
    claimAt,  \* the time of its claim (history)
    answer,   \* what it answered: "none", "done", "replay", "conflict", "error"
    body,     \* whose response it replayed, or NoRequest
    ran,      \* it has carried out the operation with success (history)
    faults

requestVars == <<pc, start, saw, mine, claimAt, answer, body, ran>>
vars == <<now, recordVars, requestVars, faults>>

Pcs == {"idle", "create", "get", "expired", "latest", "retry", "execute",
        "succeeded", "failed", "end"}

ClaimPcs == {"create", "get", "expired", "latest", "retry"}

\* A request is here while the operation runs or its outcome is not recorded.
RunPcs == {"execute", "succeeded", "failed"}

-----------------------------------------------------------------------------
Goto(r, p) == pc' = [pc EXCEPT ![r] = p]

Fault == faults < MaxFaults /\ faults' = faults + 1

NoFault == faults' = faults

\* The request answers a and ends.
Answer(r, a) ==
    /\ pc' = [pc EXCEPT ![r] = "end"]
    /\ answer' = [answer EXCEPT ![r] = a]

\* It ends without having touched the record.
Refuse(r, a) ==
    /\ NoFault
    /\ Answer(r, a)
    /\ UNCHANGED <<now, recordVars, start, saw, mine, claimAt, body, ran>>

\* A statement fails.
Unavailable(r) ==
    /\ Fault
    /\ Answer(r, "error")
    /\ UNCHANGED <<now, recordVars, start, saw, mine, claimAt, body, ran>>

\* The record with this id is the request's from now on.
Claim(r, id) ==
    /\ NoFault
    /\ Goto(r, "execute")
    /\ mine' = [mine EXCEPT ![r] = id]
    /\ claimAt' = [claimAt EXCEPT ![r] = now]
    /\ UNCHANGED <<now, start, saw, answer, body, ran>>

-----------------------------------------------------------------------------
\* Execute begins: expiresAt and lockedUntil are computed from this time.
Begin(r) ==
    /\ pc[r] = "idle"
    /\ Goto(r, "create")
    /\ start' = [start EXCEPT ![r] = now]
    /\ NoFault
    /\ UNCHANGED <<now, recordVars, saw, mine, claimAt, answer, body, ran>>

CreateRecord(r) ==
    /\ pc[r] = "create"
    /\ \/ /\ CreateProcessing(Payload[r], start[r] + Timeout, start[r] + TTL)
          /\ Claim(r, nextId)
       \/ /\ row # NoRow
          /\ NoFault
          /\ Goto(r, "get")
          /\ UNCHANGED <<now, recordVars, start, saw, mine, claimAt, answer,
                         body, ran>>
       \/ Unavailable(r)

\* marshalStoredResponse cuts an oversized response, and the rest does not parse.
Decodable == row.body \notin Oversized

\* The switch on the status of the record that was found.
Judge(r) ==
    \/ /\ row.status = "succeeded"
       /\ ~Decodable
       /\ Refuse(r, "error")
    \/ /\ row.status = "succeeded"
       /\ Decodable
       /\ NoFault
       /\ Answer(r, "replay")
       /\ body' = [body EXCEPT ![r] = row.body]
       /\ UNCHANGED <<now, recordVars, start, saw, mine, claimAt, ran>>
    \/ row.status = "processing" /\ Refuse(r, "conflict")
    \/ /\ row.status = "failed_retryable"
       /\ row.lock > start[r]
       /\ Refuse(r, "conflict")
    \/ /\ row.status = "failed_retryable"
       /\ row.lock \leq start[r]
       /\ NoFault
       /\ Goto(r, "retry")
       /\ saw' = [saw EXCEPT ![r] = row]
       /\ UNCHANGED <<now, recordVars, start, mine, claimAt, answer, body, ran>>

\* Mutant: the record is used whatever the payload of the request.
SamePayloadAny(r) == TRUE

SamePayload(r) == row.print = Payload[r]

\* GetByScopeAndKeyHash and the checks after it.
GetExisting(r) ==
    /\ pc[r] = "get"
    /\ \/ row = NoRow /\ Refuse(r, "error")
       \/ row # NoRow /\ ~SamePayload(r) /\ Refuse(r, "conflict")
       \/ /\ row # NoRow
          /\ SamePayload(r)
          /\ row.expires \leq start[r]
          /\ NoFault
          /\ Goto(r, "expired")
          /\ saw' = [saw EXCEPT ![r] = row]
          /\ UNCHANGED <<now, recordVars, start, mine, claimAt, answer, body, ran>>
       \/ /\ row # NoRow
          /\ SamePayload(r)
          /\ row.expires > start[r]
          /\ Judge(r)
       \/ Unavailable(r)

\* TryReclaim of a record that was found expired.
ReclaimExpired(r) ==
    /\ pc[r] = "expired"
    /\ \/ /\ Reclaimable(saw[r].id, saw[r].status, start[r])
          /\ TryReclaim(start[r] + Timeout, start[r] + TTL)
          /\ Claim(r, saw[r].id)
       \/ /\ ~Reclaimable(saw[r].id, saw[r].status, start[r])
          /\ NoFault
          /\ Goto(r, "latest")
          /\ UNCHANGED <<now, recordVars, start, saw, mine, claimAt, answer,
                         body, ran>>
       \/ Unavailable(r)

\* Somebody else was faster: the record is read again and judged by its status,
\* expired or not.
GetLatest(r) ==
    /\ pc[r] = "latest"
    /\ \/ row = NoRow /\ Refuse(r, "error")
       \/ row # NoRow /\ ~SamePayload(r) /\ Refuse(r, "conflict")
       \/ row # NoRow /\ SamePayload(r) /\ Judge(r)
       \/ Unavailable(r)

\* TryReclaim after a failure whose backoff is over.
ReclaimFailed(r) ==
    /\ pc[r] = "retry"
    /\ \/ /\ Reclaimable(saw[r].id, "failed_retryable", start[r])
          /\ TryReclaim(start[r] + Timeout, start[r] + TTL)
          /\ Claim(r, saw[r].id)
       \/ /\ ~Reclaimable(saw[r].id, "failed_retryable", start[r])
          /\ Refuse(r, "conflict")
       \/ Unavailable(r)

\* The operation itself, which succeeds or fails; failing, it has no effect.
ExecuteOperation(r) ==
    /\ pc[r] = "execute"
    /\ \/ Goto(r, "succeeded") /\ ran' = [ran EXCEPT ![r] = TRUE]
       \/ Goto(r, "failed") /\ UNCHANGED ran
    /\ NoFault
    /\ UNCHANGED <<now, recordVars, start, saw, mine, claimAt, answer, body>>

\* Mutant: an operation whose outcome could not be stored may be tried again.
StoreSuccessLost(r) ==
    /\ pc[r] = "succeeded"
    /\ Fault
    /\ MarkFailedRetryable(mine[r], now, start[r] + TTL)
    /\ Answer(r, "error")
    /\ UNCHANGED <<now, start, saw, mine, claimAt, body, ran>>

\* When the success cannot be stored the record stays "processing".
StoreSuccess(r) ==
    /\ pc[r] = "succeeded"
    /\ \/ /\ MarkSucceeded(mine[r], r, start[r] + TTL)
          /\ NoFault
          /\ Answer(r, "done")
          /\ UNCHANGED <<now, start, saw, mine, claimAt, body, ran>>
       \/ Unavailable(r)

StoreFailure(r) ==
    /\ pc[r] = "failed"
    /\ \/ /\ MarkFailedRetryable(mine[r], now + Backoff, start[r] + TTL)
          /\ NoFault
          /\ Answer(r, "error")
          /\ UNCHANGED <<now, start, saw, mine, claimAt, body, ran>>
       \/ Unavailable(r)

-----------------------------------------------------------------------------
\* The request dies; its operation may have been carried out before.
Die(r) ==
    /\ pc[r] \notin {"idle", "end"}
    /\ Unavailable(r)

Cleanup ==
    /\ DeleteExpired
    /\ NoFault
    /\ UNCHANGED <<now, requestVars>>

\* Time passes, but never so much that a request outlives its bounds.
Tick ==
    /\ now < MaxTime
    /\ \A r \in Requests :
          /\ pc[r] \in ClaimPcs => now < start[r] + MaxClaim
          /\ pc[r] \in RunPcs => now < start[r] + MaxRun
    /\ now' = now + 1
    /\ NoFault
    /\ UNCHANGED <<recordVars, requestVars>>

Init ==
    /\ now = 1
    /\ row = NoRow
    /\ nextId = 1
    /\ pc = [r \in Requests |-> "idle"]
    /\ start = [r \in Requests |-> 0]
    /\ saw = [r \in Requests |-> NoRow]
    /\ mine = [r \in Requests |-> 0]
    /\ claimAt = [r \in Requests |-> 0]
    /\ answer = [r \in Requests |-> "none"]
    /\ body = [r \in Requests |-> NoRequest]
    /\ ran = [r \in Requests |-> FALSE]
    /\ faults = 0

Step(r) ==
    \/ Begin(r) \/ CreateRecord(r) \/ GetExisting(r) \/ ReclaimExpired(r)
    \/ GetLatest(r) \/ ReclaimFailed(r) \/ ExecuteOperation(r)
    \/ StoreSuccess(r) \/ StoreFailure(r)

Next ==
    \/ \E r \in Requests : Step(r) \/ Die(r)
    \/ Cleanup
    \/ Tick

Spec == Init /\ [][Next]_vars

-----------------------------------------------------------------------------
(* Properties.                                                             *)

Rows == [id : Nat, print : {Payload[r] : r \in Requests} \cup {NoRequest},
         status : RecordStatuses, lock : Nat, expires : Nat,
         body : Requests \cup {NoRequest}]

\* Every variable has its type.
TypeOK ==
    /\ now \in Nat
    /\ row \in Rows
    /\ nextId \in Nat
    /\ pc \in [Requests -> Pcs]
    /\ start \in [Requests -> Nat]
    /\ saw \in [Requests -> Rows]
    /\ mine \in [Requests -> Nat]
    /\ claimAt \in [Requests -> Nat]
    /\ answer \in [Requests -> {"none", "done", "replay", "conflict", "error"}]
    /\ body \in [Requests -> Requests \cup {NoRequest}]
    /\ ran \in [Requests -> BOOLEAN]
    /\ faults \in 0 .. MaxFaults

\* The request has carried out the operation or may still do so.
Acts(r) == pc[r] = "execute" \/ ran[r]

\* While no record has outlived its TTL, one request at most carries out the
\* operation, although claims race, outcomes are not stored and requests die
\* (CreateProcessing, TryReclaim and the switch on the status).
OnceUntilExpiry ==
    \/ \A r, s \in Requests : Acts(r) /\ Acts(s) => r = s
    \/ \E q \in Requests : mine[q] # 0 /\ start[q] + TTL \leq now

\* Whatever has expired, two requests never work on the operation at the same
\* time (TryReclaim's condition on locked_until).
OneAtATime ==
    \A r, s \in Requests : pc[r] \in RunPcs /\ pc[s] \in RunPcs => r = s

\* A replayed response is the response to a request with the same payload, which
\* was carried out (the comparison of fingerprints before decodeStoredResponse).
ReplayIsTrue ==
    \A r \in Requests :
        answer[r] = "replay" =>
            body[r] \in Requests /\ ran[body[r]] /\ Payload[body[r]] = Payload[r]

-----------------------------------------------------------------------------
(* What the repository says of the program and the program does not do.    *)

\* migrations/057_add_idempotency_records.sql: the records serve to tell
\* repeated requests from new ones.  Of two requests that carry out the
\* operation, the later claims the key only when the record of the earlier has
\* outlived its TTL.
OncePerLifetime ==
    \A r, s \in Requests :
        r # s /\ Acts(r) /\ Acts(s) =>
            \/ claimAt[s] >= start[r] + TTL
            \/ claimAt[r] >= start[s] + TTL
==============================================================================
