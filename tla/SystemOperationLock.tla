------------------------- MODULE SystemOperationLock -------------------------
(***************************************************************************)
(* SystemOperationLockService                                              *)
(* (backend/internal/service/system_operation_lock_service.go): updates,   *)
(* rollbacks and restarts exclude each other through one row of            *)
(* idempotency_records, whose locked_until a goroutine of the holder       *)
(* renews.                                                                 *)
(***************************************************************************)
EXTENDS IdempotencyRecords

CONSTANTS
    Operations,      \* the calls, each with an operation id of its own
    RenewInterval,   \* a third of the lease, in ticks
    MaxClaim,        \* Acquire takes at most this time
    MaxRun,          \* and an operation at most this time from there
    MaxFaults        \* bound on statements that fail and processes that die

Lease == Timeout

ASSUME LockAssumption ==
    /\ NoRequest \notin Operations
    /\ RenewInterval \in Nat \ {0}
    /\ MaxClaim \in Nat
    /\ MaxRun \in Nat
    /\ MaxFaults \in Nat

\* A record outlives its lock, and the lease leaves room for a slow Acquire and
\* for a renewal after every failed one.  With a renewal at each third of the
\* lease that is one fault.
ASSUME LeaseAssumption ==
    /\ Lease \leq TTL
    /\ MaxClaim + (MaxFaults + 1) * RenewInterval < Lease

VARIABLES
    pc,        \* next step of a call
    start,     \* when Acquire began, then when the ticker last fired
    saw,       \* the row that Acquire read
    mine,      \* SystemOperationLock.recordID
    since,     \* the time at which the lock was acquired
    renewing,  \* its renewLoop runs
    outlasted, \* an operation went on when its lease had run out (history)
    faults

callVars == <<pc, start, saw, mine, since, renewing>>
vars == <<now, recordVars, callVars, outlasted, faults>>

Pcs == {"idle", "create", "get", "reclaim", "held", "end"}

ClaimPcs == {"create", "get", "reclaim"}

-----------------------------------------------------------------------------
Goto(o, p) == pc' = [pc EXCEPT ![o] = p]

Fault == faults < MaxFaults /\ faults' = faults + 1

NoFault == faults' = faults

\* The call ends, its renewLoop too.
End(o) ==
    /\ pc' = [pc EXCEPT ![o] = "end"]
    /\ renewing' = [renewing EXCEPT ![o] = FALSE]
    /\ UNCHANGED <<now, start, saw, mine, since>>

\* Acquire answers that the system is busy.
Busy(o) == NoFault /\ End(o) /\ UNCHANGED recordVars

\* A statement fails, or the process dies; an operation that held the lock dies
\* with its renewLoop, or ends and cannot release it.
Lost(o) == Fault /\ End(o) /\ UNCHANGED recordVars

\* Acquire returns the lock and starts renewLoop.
Hold(o, id) ==
    /\ Goto(o, "held")
    /\ mine' = [mine EXCEPT ![o] = id]
    /\ since' = [since EXCEPT ![o] = now]
    /\ renewing' = [renewing EXCEPT ![o] = TRUE]
    /\ start' = [start EXCEPT ![o] = now]
    /\ NoFault
    /\ UNCHANGED <<now, saw>>

-----------------------------------------------------------------------------
BeginAcquire(o) ==
    /\ pc[o] = "idle"
    /\ Goto(o, "create")
    /\ start' = [start EXCEPT ![o] = now]
    /\ NoFault
    /\ UNCHANGED <<now, recordVars, saw, mine, since, renewing>>

AcquireNew(o) ==
    /\ pc[o] = "create"
    /\ \/ /\ CreateProcessing(o, start[o] + Lease, start[o] + TTL)
          /\ Hold(o, nextId)
       \/ /\ row # NoRow
          /\ NoFault
          /\ Goto(o, "get")
          /\ UNCHANGED <<now, recordVars, start, saw, mine, since, renewing>>
       \/ Lost(o)

\* Another operation is in progress.
IsBusy(o) == row.status = "processing" /\ row.lock > start[o]

AcquireRead(o) ==
    /\ pc[o] = "get"
    /\ \/ (row = NoRow \/ IsBusy(o)) /\ Busy(o)
       \/ /\ row # NoRow
          /\ ~IsBusy(o)
          /\ NoFault
          /\ Goto(o, "reclaim")
          /\ saw' = [saw EXCEPT ![o] = row]
          /\ UNCHANGED <<now, recordVars, start, mine, since, renewing>>
       \/ Lost(o)

\* The row is taken over as it is: it keeps the id of the operation that
\* inserted it.
AcquireReclaim(o) ==
    /\ pc[o] = "reclaim"
    /\ \/ /\ Reclaimable(saw[o].id, saw[o].status, start[o])
          /\ TryReclaim(start[o] + Lease, start[o] + TTL)
          /\ Hold(o, saw[o].id)
       \/ ~Reclaimable(saw[o].id, saw[o].status, start[o]) /\ Busy(o)
       \/ Lost(o)

\* One round of renewLoop, when the ticker fires.  After a statement that fails
\* the next round tries again.
Renew(o) ==
    /\ pc[o] = "held"
    /\ renewing[o]
    /\ now >= start[o] + RenewInterval
    /\ \/ /\ Extendable(mine[o], o)
          /\ ExtendProcessingLock(now + Lease, now + TTL)
          /\ start' = [start EXCEPT ![o] = now]
          /\ NoFault
          /\ UNCHANGED <<now, pc, saw, mine, since, renewing>>
       \/ /\ ~Extendable(mine[o], o)
          /\ renewing' = [renewing EXCEPT ![o] = FALSE]
          /\ NoFault
          /\ UNCHANGED <<now, recordVars, pc, start, saw, mine, since>>
       \/ /\ Fault
          /\ start' = [start EXCEPT ![o] = now]
          /\ UNCHANGED <<now, recordVars, pc, saw, mine, since, renewing>>

\* Release, after a success or a failure of the operation.
Release(o) ==
    /\ pc[o] = "held"
    /\ \/ NoFault /\ MarkSucceeded(mine[o], o, now + TTL) /\ End(o)
       \/ NoFault /\ MarkFailedRetryable(mine[o], now, now + TTL) /\ End(o)
       \/ Lost(o)

-----------------------------------------------------------------------------
Die(o) == pc[o] \in ClaimPcs /\ Lost(o)

Cleanup ==
    /\ DeleteExpired
    /\ NoFault
    /\ UNCHANGED <<now, callVars, outlasted>>

\* It holds a lock that is not renewed and, MaxClaim before this at the
\* earliest, was taken a lease ago.
Outlasts(o) ==
    /\ pc[o] = "held"
    /\ ~renewing[o]
    /\ now + 1 + MaxClaim >= since[o] + Lease

\* Time passes; calls keep their bounds and renewLoop its interval.
Tick ==
    /\ now < MaxTime
    /\ \A o \in Operations :
          /\ pc[o] \in ClaimPcs => now < start[o] + MaxClaim
          /\ pc[o] = "held" => now < since[o] + MaxRun
          /\ renewing[o] => now < start[o] + RenewInterval
    /\ now' = now + 1
    /\ outlasted' = (outlasted \/ \E o \in Operations : Outlasts(o))
    /\ NoFault
    /\ UNCHANGED <<recordVars, callVars>>

Init ==
    /\ now = 1
    /\ row = NoRow
    /\ nextId = 1
    /\ pc = [o \in Operations |-> "idle"]
    /\ start = [o \in Operations |-> 0]
    /\ saw = [o \in Operations |-> NoRow]
    /\ mine = [o \in Operations |-> 0]
    /\ since = [o \in Operations |-> 0]
    /\ renewing = [o \in Operations |-> FALSE]
    /\ outlasted = FALSE
    /\ faults = 0

Next ==
    \/ /\ \E o \in Operations :
             \/ BeginAcquire(o) \/ AcquireNew(o) \/ AcquireRead(o)
             \/ AcquireReclaim(o) \/ Renew(o) \/ Release(o) \/ Die(o)
       /\ UNCHANGED outlasted
    \/ Cleanup
    \/ Tick

Spec == Init /\ [][Next]_vars

-----------------------------------------------------------------------------
(* Properties.                                                             *)

LockRows == [id : Nat, print : Operations \cup {NoRequest},
             status : RecordStatuses, lock : Nat, expires : Nat,
             body : Operations \cup {NoRequest}]

\* Every variable has its type.
TypeOK ==
    /\ now \in Nat
    /\ row \in LockRows
    /\ nextId \in Nat
    /\ pc \in [Operations -> Pcs]
    /\ start \in [Operations -> Nat]
    /\ saw \in [Operations -> LockRows]
    /\ mine \in [Operations -> Nat]
    /\ since \in [Operations -> Nat]
    /\ renewing \in [Operations -> BOOLEAN]
    /\ outlasted \in BOOLEAN
    /\ faults \in 0 .. MaxFaults

Held(o) == pc[o] = "held"

\* Two system operations never run at the same time (ErrSystemOperationBusy),
\* unless one has outlasted a lease that its renewLoop could not renew.
MutualExclusion ==
    outlasted \/ \A o, p \in Operations : Held(o) /\ Held(p) => o = p

\* However long it takes, the operation that inserted the row keeps a lock that
\* has not run out, though a renewal fails (renewLoop goes on after an error).
InserterKeepsLock ==
    \A o \in Operations :
        Held(o) /\ renewing[o] /\ row.id = mine[o] /\ row.print = o =>
            row.status = "processing" /\ row.lock > now
==============================================================================
