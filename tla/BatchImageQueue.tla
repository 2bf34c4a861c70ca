--------------------------- MODULE BatchImageQueue ---------------------------
(***************************************************************************)
(* What Redis keeps of one batch image job:                                *)
(* backend/internal/repository/batch_image_queue.go.  Every operator is    *)
(* one Lua script or one MULTI/EXEC.  The ready list holds the id as often *)
(* as it was pushed, the two sorted sets at most once.                     *)
(***************************************************************************)
EXTENDS Naturals

CONSTANTS
    Workers,     \* BatchImageWorker.Run, one in every process
    Free,        \* "nobody has the job lock"
    Orphan       \* the token of a lock that nobody remembers

ASSUME QueueAssumption ==
    Free \notin Workers /\ Orphan \notin Workers /\ Free # Orphan

VARIABLES
    ready,      \* copies of the id in the ready list
    active,     \* it is in the active set
    delayed,    \* it is in the delayed set
    inflight,   \* the key that keeps Enqueue from pushing it again
    lock        \* whose token the job lock holds

queueVars == <<ready, active, delayed, inflight, lock>>

\* A job that is already queued is left alone, and its caller does not mind.
Enqueue ==
    /\ inflight' = TRUE
    /\ ready' = IF inflight THEN ready ELSE ready + 1
    /\ UNCHANGED <<active, delayed, lock>>

Reserve ==
    /\ ready > 0
    /\ ready' = ready - 1
    /\ active' = TRUE
    /\ UNCHANGED <<delayed, inflight, lock>>

\* RequeueAfter with a positive delay, the only ones the worker asks for.
RequeueAfter ==
    /\ active' = FALSE
    /\ delayed' = TRUE
    /\ UNCHANGED <<ready, inflight, lock>>

Ack ==
    /\ active' = FALSE
    /\ delayed' = FALSE
    /\ inflight' = FALSE
    /\ UNCHANGED <<ready, lock>>

\* TryAcquireJobLock of a free lock.
TryAcquireJobLock(w) ==
    /\ lock = Free
    /\ lock' = w
    /\ UNCHANGED <<ready, active, delayed, inflight>>

\* Release, which compares the token.
Unlock(w) ==
    /\ lock' = IF lock = w THEN Free ELSE lock
    /\ UNCHANGED <<ready, active, delayed, inflight>>

MoveDueDelayedToReady ==
    /\ delayed
    /\ delayed' = FALSE
    /\ ready' = ready + 1
    /\ UNCHANGED <<active, inflight, lock>>

RecoverStaleActive ==
    /\ active
    /\ active' = FALSE
    /\ ready' = ready + 1
    /\ UNCHANGED <<delayed, inflight, lock>>

\* The TTL of the lock or of the inflight key runs out.
ExpireLock ==
    /\ lock # Free
    /\ lock' = Free
    /\ UNCHANGED <<ready, active, delayed, inflight>>

ExpireInflight ==
    /\ inflight
    /\ inflight' = FALSE
    /\ UNCHANGED <<ready, active, delayed, lock>>

\* The token is forgotten: its worker died, or its unlock failed.
Forget(w) ==
    /\ lock' = IF lock = w THEN Orphan ELSE lock
    /\ UNCHANGED <<ready, active, delayed, inflight>>

QueueInit ==
    /\ ready = 0
    /\ active = FALSE
    /\ delayed = FALSE
    /\ inflight = FALSE
    /\ lock = Free

QueueTypeOK ==
    /\ ready \in Nat
    /\ active \in BOOLEAN
    /\ delayed \in BOOLEAN
    /\ inflight \in BOOLEAN
    /\ lock \in Workers \cup {Free, Orphan}

\* Some worker will find the job.
Queued == ready > 0 \/ active \/ delayed
==============================================================================
