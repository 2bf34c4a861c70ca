--------------------------- MODULE SchedulerCache ---------------------------
(***************************************************************************)
(* What Redis keeps of one scheduler bucket of one group:                  *)
(* backend/internal/repository/scheduler_cache.go.  Every operator is one  *)
(* Lua script, one pipeline or one command.                                *)
(*                                                                         *)
(* A revision stands for the accounts as the database had them at some     *)
(* time.  Version numbers are only compared, so the model keeps their      *)
(* order: which writers have a version newer than the active one, and      *)
(* which of those versions are older than which.                           *)
(***************************************************************************)
EXTENDS Integers

CONSTANTS
    Pollers,     \* runOutboxWorker, one in every process
    Rebuilders,  \* runFullRebuildWorker, one in every process
    Readers,     \* requests that fall back to the database
    Free,        \* "nobody holds the lifecycle lease"
    EmptyRevs    \* revisions in which the bucket has no account

ASSUME AgentsAssumption ==
    /\ Pollers \cap Rebuilders = {}
    /\ (Pollers \cup Rebuilders) \cap Readers = {}
    /\ Free \notin Pollers \cup Rebuilders \cup Readers

VARIABLES
    epoch,       \* sched:epoch, 0 when there is none
    retired,     \* the key sched:retired exists
    active,      \* the active snapshot (with sched:ready and its place in
                 \* sched:buckets, which come and go with it)
    inflight,    \* writers with a version newer than the active one
    older,       \* for each, those of them whose version is older than its own
    accounts,    \* revision of the cached account keys, which all snapshots share
    locked,      \* the rebuild lock of the bucket exists
    lease,       \* whose token the lifecycle lease of the group holds
    retirements  \* how often the bucket was retired (history)

fenceVars == <<epoch, retired, retirements>>
versionVars == <<active, inflight, older>>
cacheVars == <<fenceVars, versionVars, accounts, locked, lease>>

Workers == Pollers \cup Rebuilders

Agents == Workers \cup Readers

NoSnapshot == [rev |-> -1, since |-> 0]

\* The first writer of a bucket starts its epochs.
Epoch == IF epoch = 0 THEN 1 ELSE epoch

\* The versions of these writers will not be used any more.
Drop(S) ==
    /\ inflight' = inflight \ S
    /\ older' = [a \in Agents |-> IF a \in S THEN {} ELSE older[a] \ S]

-----------------------------------------------------------------------------
\* A retired bucket gives no token; this one is the epoch.
CaptureBucketWriteToken ==
    /\ ~retired
    /\ epoch' = Epoch
    /\ UNCHANGED <<versionVars, retired, accounts, locked, lease, retirements>>

\* Mutant: a retirement hides the bucket but leaves the tokens valid.
RetireBucketSameEpoch ==
    /\ retired' = TRUE
    /\ retirements' = IF retired THEN retirements ELSE retirements + 1
    /\ epoch' = Epoch
    /\ active' = NoSnapshot
    /\ UNCHANGED <<inflight, older, accounts, locked, lease>>

\* Only the first of several retirements advances the epoch.
RetireBucket ==
    /\ retired' = TRUE
    /\ retirements' = IF retired THEN retirements ELSE retirements + 1
    /\ epoch' = IF retired THEN epoch ELSE epoch + 1
    /\ active' = NoSnapshot
    /\ UNCHANGED <<inflight, older, accounts, locked, lease>>

\* The token it returns is the epoch.
ReopenBucket ==
    /\ retired' = FALSE
    /\ epoch' = Epoch
    /\ active' = IF retired THEN NoSnapshot ELSE active
    /\ UNCHANGED <<inflight, older, accounts, locked, lease, retirements>>

\* Both fencing checks: schedulerBucketWriteResultError is nil.
Writable(token) == ~retired /\ epoch = token

\* writeAccountIDs: the account keys belong to no version.
WriteAccounts(rev) ==
    /\ accounts' = rev
    /\ UNCHANGED <<fenceVars, versionVars, locked, lease>>

\* SetSnapshot with a token that is valid: a new version,
AllocateSnapshotVersion(a) ==
    /\ inflight' = inflight \cup {a}
    /\ older' = [older EXCEPT ![a] = inflight]
    /\ UNCHANGED <<fenceVars, active, accounts, locked, lease>>

\* the keys of the accounts in the bucket, none if there are none, and the
\* members of the version, which nobody reads before the switch,
FillSnapshotVersion(rev) ==
    IF rev \in EmptyRevs THEN UNCHANGED cacheVars ELSE WriteAccounts(rev)

\* and the switch: a fenced snapshot, and one with a version older than the
\* active one, is deleted.  A worker unlocks the bucket.
Activate(a, token, snapshot, unlock) ==
    /\ IF Writable(token) /\ a \in inflight
       THEN active' = snapshot /\ Drop({a} \cup older[a])
       ELSE active' = active /\ Drop({a})
    /\ locked' = (locked /\ ~unlock)
    /\ UNCHANGED <<fenceVars, accounts, lease>>

\* SETNX with a time to live.
TryLockBucket ==
    /\ ~locked
    /\ locked' = TRUE
    /\ UNCHANGED <<fenceVars, versionVars, accounts, lease>>

\* DEL, by the holder, by one whose lock ran out, or by the time to live.
UnlockBucket ==
    /\ locked' = FALSE
    /\ UNCHANGED <<fenceVars, versionVars, accounts, lease>>

\* Mutant: SET without NX.
TakeGroupLifecycleLease(a) ==
    /\ lease' = a
    /\ UNCHANGED <<fenceVars, versionVars, accounts, locked>>

\* SETNX of an owner token, with a time to live.
TryAcquireGroupLifecycleLease(a) ==
    /\ lease = Free
    /\ lease' = a
    /\ UNCHANGED <<fenceVars, versionVars, accounts, locked>>

\* It compares the owner token; the caller learns whether the lease was lost.
ReleaseGroupLifecycleLease(a) ==
    /\ lease' = IF lease = a THEN Free ELSE lease
    /\ UNCHANGED <<fenceVars, versionVars, accounts, locked>>

ExpireLease ==
    /\ lease' = Free
    /\ UNCHANGED <<fenceVars, versionVars, accounts, locked>>

CacheInit ==
    /\ epoch = 0
    /\ retired = FALSE
    /\ active = NoSnapshot
    /\ inflight = {}
    /\ older = [a \in Agents |-> {}]
    /\ accounts = 0
    /\ locked = FALSE
    /\ lease = Free
    /\ retirements = 0
=============================================================================
