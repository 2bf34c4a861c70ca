-------------------------- MODULE SchedulerSnapshot --------------------------
(***************************************************************************)
(* The scheduler's snapshots of the accounts it may choose from:           *)
(* backend/internal/service/scheduler_snapshot_service.go, with the outbox *)
(* of repository/scheduler_outbox_repo.go that tells it of changes.        *)
(*                                                                         *)
(* One group with one bucket and the accounts in it.  Pollers, rebuilders  *)
(* and requests whose snapshot is missing belong to any number of          *)
(* processes and end in the same pipeline, which loads the accounts and    *)
(* publishes them.  A step is an SQL statement or a Redis call with what   *)
(* depends on its answer, and may be the last one of its agent.            *)
(***************************************************************************)
EXTENDS SchedulerCache, FiniteSets

CONSTANTS
    MaxAccountChanges,  \* bound on committed changes of accounts
    MaxGroupChanges,    \* bound on changes of the group
    MaxBusy,            \* bound on agents that have begun and not ended
    MaxFaults           \* bound on failed calls and crashes together

ASSUME SchedulerAssumption ==
    /\ MaxAccountChanges \in Nat
    /\ MaxGroupChanges \in Nat
    /\ MaxBusy \in Nat \ {0}
    /\ MaxFaults \in Nat
    /\ EmptyRevs \subseteq Nat

VARIABLES
    rev,         \* revision of the accounts in the database
    alive,       \* the group exists and is active
    groupRev,    \* how often that changed
    open,        \* id of the outbox row in an open account transaction
    owed,        \* of which kinds a change is committed, its event not inserted
    rows,        \* scheduler_outbox, committed rows
    keys,        \* ids of the rows that still have their dedup_key
    lastId,      \* the sequence of the table
    watermark,   \* sched:outbox:watermark
    pc,          \* next step of an agent
    job,         \* what it remembers
    faults,      \* faults so far
    handled,     \* ids of the events that a poll handled (history)
    late,        \* ids committed after a poll had passed them (history)
    decided      \* group revision of the last retirement or reopening (history)

dbVars == <<rev, alive, groupRev, open, owed>>
outboxVars == <<rows, keys, lastId>>
historyVars == <<handled, late>>
histories == <<historyVars, decided>>
vars == <<cacheVars, dbVars, outboxVars, watermark, pc, job, faults, histories>>

-----------------------------------------------------------------------------
NoTx == -1      \* no account transaction is open
NoRow == 0      \* one is, and its event was dropped as a duplicate

Kinds == {"account", "group"}

Ids == 1 .. MaxAccountChanges + MaxGroupChanges

Rows == [id : Ids, kind : Kinds]

\* What an agent remembers: its purpose, the write token (with the retirements
\* before it), the accounts it loaded, whether it must not skip the bucket, the
\* group it read, whether the bucket was registered, and of a poll the events
\* left, the one in hand, the last id and what the batch has seen.
NoJob == [mode |-> "none", token |-> 0, since |-> 0, data |-> 0,
          strict |-> FALSE, group |-> 0, alive |-> FALSE, registered |-> FALSE,
          batch |-> {}, current |-> {}, last |-> 0, seen |-> {}]

Jobs == [mode : {"none", "poll", "full", "read"}, token : Nat, since : Nat,
         data : 0 .. MaxAccountChanges, strict : BOOLEAN,
         group : 0 .. MaxGroupChanges, alive : BOOLEAN, registered : BOOLEAN,
         batch : SUBSET Rows, current : SUBSET Rows, last : {0} \cup Ids,
         seen : SUBSET Kinds]

Pcs == {"idle", "list", "event", "setaccount", "groups", "lease", "authority",
        "lifecycle", "release", "capture", "lock", "load", "write", "fill",
        "activate"}

\* Between a rebuild lock taken and given back.
LockPcs == {"load", "write", "fill", "activate"}

\* Between the lifecycle lease and its last use.
LeasePcs == {"authority", "lifecycle"}

Keyed(kind) == \E r \in rows : r.kind = kind /\ r.id \in keys

-----------------------------------------------------------------------------
(* Steps.                                                                  *)

Goto(a, p) == pc' = [pc EXCEPT ![a] = p]

Idle(a) ==
    /\ pc' = [pc EXCEPT ![a] = "idle"]
    /\ job' = [job EXCEPT ![a] = NoJob]

Begin(a) ==
    /\ pc[a] = "idle"
    /\ Cardinality({b \in Agents : pc[b] # "idle"}) < MaxBusy

NoFault == faults' = faults

\* The bucket is done with: on to the next event, or the end.  A group that was
\* reconciled needs nothing more from this batch.
Finish(a) ==
    /\ pc' = [pc EXCEPT ![a] = IF job[a].mode = "poll" THEN "event" ELSE "idle"]
    /\ job' = [job EXCEPT ![a] =
                 IF job[a].mode # "poll" THEN NoJob
                 ELSE [NoJob EXCEPT
                         !.mode = "poll", !.last = job[a].last,
                         !.batch = job[a].batch,
                         !.seen = job[a].seen \cup
                            UNION {IF r.kind = "group" THEN Kinds ELSE {} :
                                   r \in job[a].current}]]
    /\ handled' = handled \cup {r.id : r \in job[a].current}
    /\ UNCHANGED late

-----------------------------------------------------------------------------
(* The database and its outbox.                                            *)

\* The row that enqueueSchedulerOutbox inserts has this id, unless one with the
\* same dedup_key is waiting.
NewId(kind) == IF Keyed(kind) THEN NoRow ELSE lastId + 1

\* updateAccount and others: the change and its event, in one transaction.
ChangeAccount ==
    /\ open = NoTx
    /\ rev < MaxAccountChanges
    /\ open' = NewId("account")
    /\ lastId' = IF open' = NoRow THEN lastId ELSE open'
    /\ UNCHANGED <<cacheVars, rev, alive, groupRev, owed, rows, keys,
                   watermark, pc, job, faults, histories>>

\* The transaction commits, perhaps after a poll has seen higher ids.
CommitAccount ==
    /\ open # NoTx
    /\ open' = NoTx
    /\ rev' = rev + 1
    /\ IF open = NoRow
       THEN UNCHANGED <<rows, keys, late>>
       ELSE /\ rows' = rows \cup {[id |-> open, kind |-> "account"]}
            /\ keys' = keys \cup {open}
            /\ late' = IF \/ open <= watermark
                          \/ \E a \in Agents : open <= job[a].last
                       THEN late \cup {open} ELSE late
    /\ UNCHANGED <<cacheVars, alive, groupRev, owed, lastId, watermark, pc, job,
                   faults, handled, decided>>

\* Create, Delete, ClearError, AddToGroup, RemoveFromGroup, BindGroups and others
\* commit the change of an account first.
SaveAccount ==
    /\ open = NoTx
    /\ "account" \notin owed
    /\ rev < MaxAccountChanges
    /\ rev' = rev + 1
    /\ owed' = owed \cup {"account"}
    /\ UNCHANGED <<cacheVars, alive, groupRev, open, outboxVars, watermark, pc, job,
                   faults, histories>>

\* A group is deleted, deactivated or activated again.
ChangeGroup ==
    /\ "group" \notin owed
    /\ groupRev < MaxGroupChanges
    /\ groupRev' = groupRev + 1
    /\ alive' = ~alive
    /\ owed' = owed \cup {"group"}
    /\ UNCHANGED <<cacheVars, rev, open, outboxVars, watermark, pc, job,
                   faults, histories>>

\* Mutant: the caller takes an inserted row for a failure and tries again.
EnqueueEventAgain(kind) ==
    /\ kind \in owed
    /\ lastId' = lastId + 1
    /\ rows' = rows \cup {[id |-> lastId', kind |-> kind]}
    /\ keys' = keys \cup {lastId'}
    /\ UNCHANGED <<cacheVars, dbVars, watermark, pc, job, faults, histories>>

\* The event is then a statement of its own, whose error is only logged.
EnqueueEvent(kind) ==
    /\ kind \in owed
    /\ owed' = owed \ {kind}
    /\ \/ /\ ~Keyed(kind)
          /\ lastId' = NewId(kind)
          /\ rows' = rows \cup {[id |-> lastId', kind |-> kind]}
          /\ keys' = keys \cup {lastId'}
          /\ NoFault
       \/ Keyed(kind) /\ NoFault /\ UNCHANGED outboxVars
       \/ faults < MaxFaults /\ faults' = faults + 1 /\ UNCHANGED outboxVars
    /\ UNCHANGED <<cacheVars, rev, alive, groupRev, open, watermark, pc,
                   job, histories>>

-----------------------------------------------------------------------------
(* pollOutbox.                                                             *)

\* It reads the watermark.
BeginPoll(w) ==
    /\ Begin(w)
    /\ Goto(w, "list")
    /\ job' = [job EXCEPT ![w].mode = "poll", ![w].last = watermark]
    /\ UNCHANGED <<cacheVars, dbVars, outboxVars, watermark, faults, histories>>

\* ListAfterAndReleaseDedup: from here on a change makes a new row.
ListAfterAndReleaseDedup(w) ==
    LET listed == {r \in rows : r.id > job[w].last} IN
    /\ pc[w] = "list"
    /\ keys' = keys \ {r.id : r \in listed}
    /\ \/ listed = {} /\ Idle(w)
       \/ \E r \in listed :
            /\ \A s \in listed : s.id <= r.id
            /\ Goto(w, "event")
            /\ job' = [job EXCEPT ![w].batch = listed, ![w].last = r.id]
    /\ UNCHANGED <<cacheVars, dbVars, rows, lastId, watermark, faults,
                   histories>>

NextEvent(w, r) ==
    /\ pc[w] = "event"
    /\ \A s \in job[w].batch : r.id <= s.id

\* handleAccountEvent reads the account ...
HandleAccountEvent(w) ==
    \E r \in job[w].batch :
      /\ NextEvent(w, r)
      /\ r.kind = "account"
      /\ Goto(w, "setaccount")
      /\ job' = [job EXCEPT ![w].batch = @ \ {r}, ![w].current = {r},
                            ![w].data = rev]
      /\ UNCHANGED <<cacheVars, dbVars, outboxVars, watermark, faults, histories>>

\* ... writes it to the cache, and rebuilds the bucket unless this batch has.
SetAccount(w) ==
    /\ pc[w] = "setaccount"
    /\ WriteAccounts(job[w].data)
    /\ IF "account" \in job[w].seen THEN Finish(w)
       ELSE /\ Goto(w, "capture")
            /\ job' = [job EXCEPT ![w].seen = @ \cup {"account"}, ![w].data = 0]
            /\ UNCHANGED historyVars
    /\ UNCHANGED <<dbVars, outboxVars, watermark, faults, decided>>

\* handleGroupEvent does nothing for a group that this batch has reconciled.
HandleGroupEvent(w) ==
    \E r \in job[w].batch :
      /\ NextEvent(w, r)
      /\ r.kind = "group"
      /\ \/ /\ "group" \notin job[w].seen
            /\ Goto(w, "lease")
            /\ job' = [job EXCEPT ![w].batch = @ \ {r}, ![w].current = {r}]
            /\ UNCHANGED handled
         \/ /\ "group" \in job[w].seen
            /\ job' = [job EXCEPT ![w].batch = @ \ {r}]
            /\ handled' = handled \cup {r.id}
            /\ UNCHANGED pc
      /\ UNCHANGED <<cacheVars, dbVars, outboxVars, watermark, faults, late,
                     decided>>

\* Mutant: a batch counts as consumed once it is listed.
AdvanceWatermarkEarly(w) ==
    /\ pc[w] = "event"
    /\ watermark' = job[w].last
    /\ UNCHANGED <<cacheVars, dbVars, outboxVars, pc, job, faults, histories>>

\* SetOutboxWatermark, with no condition; then cleanupConsumedOutbox deletes
\* what the watermark has passed, if nobody else is deleting and the rows are
\* older than ten seconds.
AdvanceWatermark(w) ==
    /\ pc[w] = "event"
    /\ job[w].batch = {}
    /\ watermark' = job[w].last
    /\ rows' \in {rows, {r \in rows : r.id > job[w].last}}
    /\ keys' = keys \cap {r.id : r \in rows'}
    /\ Idle(w)
    /\ UNCHANGED <<cacheVars, dbVars, lastId, faults, histories>>

-----------------------------------------------------------------------------
(* prepareGroupLifecycle: retire or reopen the bucket under the lease.     *)

\* A lease that is taken is an error: the poll or the rebuild ends.
AcquireLease(w) ==
    /\ pc[w] = "lease"
    /\ \/ /\ TryAcquireGroupLifecycleLease(w)
          /\ Goto(w, "authority")
          /\ UNCHANGED job
       \/ lease # Free /\ Idle(w) /\ UNCHANGED cacheVars
    /\ UNCHANGED <<dbVars, outboxVars, watermark, faults, histories>>

\* GetByIDLite, within the lease.
ReadGroup(w) ==
    /\ pc[w] = "authority"
    /\ Goto(w, "lifecycle")
    /\ job' = [job EXCEPT ![w].group = groupRev, ![w].alive = alive]
    /\ UNCHANGED <<cacheVars, dbVars, outboxVars, watermark, faults, histories>>

\* Reopening gives a token; the rebuild that uses it may skip nothing.
DecideLifecycle(w) ==
    /\ pc[w] = "lifecycle"
    /\ IF job[w].alive
       THEN /\ ReopenBucket
            /\ job' = [job EXCEPT ![w].token = Epoch, ![w].since = retirements,
                                  ![w].strict = TRUE]
       ELSE RetireBucket /\ UNCHANGED job
    /\ decided' = job[w].group
    /\ Goto(w, "release")
    /\ UNCHANGED <<dbVars, outboxVars, watermark, faults, historyVars>>

\* A lease that ran out meanwhile makes the whole decision an error.
ReleaseLease(w) ==
    /\ pc[w] = "release"
    /\ ReleaseGroupLifecycleLease(w)
    /\ IF lease # w THEN Idle(w) /\ UNCHANGED historyVars
       ELSE IF job[w].strict
            THEN /\ Goto(w, "lock")
                 /\ job' = [job EXCEPT ![w].group = 0, ![w].alive = FALSE]
                 /\ UNCHANGED historyVars
            ELSE Finish(w)
    /\ UNCHANGED <<dbVars, outboxVars, watermark, faults, decided>>

-----------------------------------------------------------------------------
(* rebuildFullSnapshot.                                                    *)

\* It lists the registered buckets ...
BeginFullRebuild(w) ==
    /\ Begin(w)
    /\ Goto(w, "groups")
    /\ job' = [job EXCEPT ![w].mode = "full",
                          ![w].registered = active # NoSnapshot]
    /\ UNCHANGED <<cacheVars, dbVars, outboxVars, watermark, faults, histories>>

\* Mutant: the buckets of groups that are gone are left alone.
ListActiveGroupsOnly(w) ==
    /\ pc[w] = "groups"
    /\ IF alive THEN Goto(w, "capture") /\ UNCHANGED job ELSE Idle(w)
    /\ UNCHANGED <<cacheVars, dbVars, outboxVars, watermark, faults, histories>>

\* ... and the active groups: an active one is rebuilt, another one whose bucket
\* is registered is reconciled.
ListActiveGroups(w) ==
    /\ pc[w] = "groups"
    /\ IF alive \/ job[w].registered
       THEN /\ Goto(w, IF alive THEN "capture" ELSE "lease")
            /\ job' = [job EXCEPT ![w].registered = FALSE]
       ELSE Idle(w)
    /\ UNCHANGED <<cacheVars, dbVars, outboxVars, watermark, faults, histories>>

-----------------------------------------------------------------------------
(* Rebuilding and publishing one bucket.                                   *)

\* ListSchedulableAccounts finds no snapshot, an empty one, or an error.
MissSnapshot(r) ==
    /\ Begin(r)
    /\ \/ (active = NoSnapshot \/ active.rev \in EmptyRevs) /\ NoFault
       \/ faults < MaxFaults /\ faults' = faults + 1
    /\ Goto(r, "capture")
    /\ job' = [job EXCEPT ![r].mode = "read"]
    /\ UNCHANGED <<cacheVars, dbVars, outboxVars, watermark, histories>>

\* Without a token a full rebuild reconciles the group, a poll skips the bucket
\* and a reader publishes nothing.
CaptureToken(a) ==
    /\ pc[a] = "capture"
    /\ \/ /\ CaptureBucketWriteToken
          /\ Goto(a, IF job[a].mode = "read" THEN "load" ELSE "lock")
          /\ job' = [job EXCEPT ![a].token = Epoch, ![a].since = retirements]
          /\ UNCHANGED historyVars
       \/ /\ retired
          /\ IF job[a].mode = "full"
             THEN Goto(a, "lease") /\ UNCHANGED <<job, historyVars>>
             ELSE Finish(a)
          /\ UNCHANGED cacheVars
    /\ UNCHANGED <<dbVars, outboxVars, watermark, faults, decided>>

\* A bucket that someone else is rebuilding is skipped, unless it was reopened.
LockBucket(w) ==
    /\ pc[w] = "lock"
    /\ \/ TryLockBucket /\ Goto(w, "load") /\ UNCHANGED <<job, historyVars>>
       \/ /\ locked
          /\ IF job[w].strict THEN Idle(w) /\ UNCHANGED historyVars
                              ELSE Finish(w)
          /\ UNCHANGED cacheVars
    /\ UNCHANGED <<dbVars, outboxVars, watermark, faults, decided>>

LoadAccounts(a) ==
    /\ pc[a] = "load"
    /\ Goto(a, "write")
    /\ job' = [job EXCEPT ![a].data = rev]
    /\ UNCHANGED <<cacheVars, dbVars, outboxVars, watermark, faults, histories>>

\* Being fenced is an error for a bucket that was reopened only.
LeaveFenced(a) ==
    /\ IF job[a].strict THEN Idle(a) /\ UNCHANGED historyVars ELSE Finish(a)
    /\ IF a \in Workers THEN UnlockBucket ELSE UNCHANGED cacheVars

\* SetSnapshot: a version, unless the bucket is fenced, ...
WriteSnapshotVersion(a) ==
    /\ pc[a] = "write"
    /\ \/ /\ Writable(job[a].token)
          /\ AllocateSnapshotVersion(a)
          /\ Goto(a, "fill")
          /\ UNCHANGED <<job, historyVars>>
       \/ ~Writable(job[a].token) /\ LeaveFenced(a)
    /\ UNCHANGED <<dbVars, outboxVars, watermark, faults, decided>>

\* ... its accounts and members, with no further check, ...
WriteSnapshotAccounts(a) ==
    /\ pc[a] = "fill"
    /\ FillSnapshotVersion(job[a].data)
    /\ Goto(a, "activate")
    /\ UNCHANGED <<dbVars, outboxVars, watermark, job, faults, histories>>

\* ... and the switch.  A worker's lock may be another one's by now.
ActivateSnapshotVersion(a) ==
    /\ pc[a] = "activate"
    /\ Activate(a, job[a].token, [rev |-> job[a].data, since |-> job[a].since],
                a \in Workers)
    /\ IF job[a].strict /\ ~Writable(job[a].token)
       THEN Idle(a) /\ UNCHANGED historyVars
       ELSE Finish(a)
    /\ UNCHANGED <<dbVars, outboxVars, watermark, faults, decided>>

-----------------------------------------------------------------------------
(* Faults and time.                                                        *)

\* A call fails or the process dies; what the deferred calls give back may stay
\* behind.
Fail(a) ==
    /\ pc[a] # "idle"
    /\ faults < MaxFaults
    /\ faults' = faults + 1
    /\ Idle(a)
    /\ Drop({a})
    /\ locked' \in {locked} \cup
                   IF a \in Workers /\ pc[a] \in LockPcs THEN {FALSE} ELSE {}
    /\ lease' \in {lease} \cup IF lease = a THEN {Free} ELSE {}
    /\ UNCHANGED <<fenceVars, active, accounts, dbVars, outboxVars, watermark,
                   histories>>

\* The bucket lock lives for thirty seconds, and so may a rebuild.
LockExpires ==
    /\ locked
    /\ UnlockBucket
    /\ UNCHANGED <<dbVars, outboxVars, watermark, pc, job, faults, histories>>

\* The lease lives for sixty seconds and a decision for thirty.
LeaseExpires ==
    /\ lease # Free
    /\ pc[lease] \notin LeasePcs
    /\ ExpireLease
    /\ UNCHANGED <<dbVars, outboxVars, watermark, pc, job, faults, histories>>

-----------------------------------------------------------------------------
Init ==
    /\ CacheInit
    /\ rev = 0 /\ alive \in BOOLEAN /\ groupRev = 0
    /\ open = NoTx /\ owed = {}
    /\ rows = {} /\ keys = {} /\ lastId = 0
    /\ watermark = 0
    /\ pc = [a \in Agents |-> "idle"]
    /\ job = [a \in Agents |-> NoJob]
    /\ faults = 0
    /\ handled = {} /\ late = {} /\ decided = 0

Publish(a) ==
    \/ CaptureToken(a) \/ LoadAccounts(a) \/ WriteSnapshotVersion(a)
    \/ WriteSnapshotAccounts(a) \/ ActivateSnapshotVersion(a)

\* What a worker that has begun does next.
Work(w) ==
    \/ ListAfterAndReleaseDedup(w) \/ HandleAccountEvent(w) \/ SetAccount(w)
    \/ HandleGroupEvent(w) \/ AdvanceWatermark(w)
    \/ AcquireLease(w) \/ ReadGroup(w) \/ DecideLifecycle(w) \/ ReleaseLease(w)
    \/ ListActiveGroups(w)
    \/ LockBucket(w) \/ Publish(w)

Next ==
    \/ ChangeAccount \/ CommitAccount \/ SaveAccount \/ ChangeGroup
    \/ \E kind \in Kinds : EnqueueEvent(kind)
    \/ \E w \in Pollers : BeginPoll(w)
    \/ \E w \in Rebuilders : BeginFullRebuild(w)
    \/ \E w \in Workers : Work(w)
    \/ \E r \in Readers : MissSnapshot(r) \/ Publish(r)
    \/ \E a \in Agents : Fail(a)
    \/ LockExpires \/ LeaseExpires

Spec == Init /\ [][Next]_vars

\* A worker that has begun goes on, and the ticker of runFullRebuildWorker
\* finds it idle again and again.
FairSpec ==
    /\ Spec
    /\ \A w \in Workers : WF_vars(Work(w))
    /\ \A w \in Rebuilders : SF_vars(BeginFullRebuild(w))
    /\ WF_vars(LockExpires)
    /\ WF_vars(LeaseExpires)

-----------------------------------------------------------------------------
(* Properties.                                                             *)

CacheTypeOK ==
    /\ epoch \in Nat /\ retirements \in Nat
    /\ retired \in BOOLEAN /\ locked \in BOOLEAN
    /\ active \in {NoSnapshot} \cup [rev : 0 .. MaxAccountChanges, since : Nat]
    /\ inflight \subseteq Agents
    /\ older \in [Agents -> SUBSET Agents]
    /\ accounts \in 0 .. MaxAccountChanges
    /\ lease \in Workers \cup {Free}

DatabaseTypeOK ==
    /\ rev \in 0 .. MaxAccountChanges
    /\ groupRev \in 0 .. MaxGroupChanges /\ decided \in 0 .. MaxGroupChanges
    /\ alive \in BOOLEAN /\ owed \subseteq Kinds
    /\ open \in {NoTx, NoRow} \cup Ids
    /\ rows \subseteq Rows
    /\ keys \subseteq Ids /\ handled \subseteq Ids /\ late \subseteq Ids
    /\ lastId \in {0} \cup Ids /\ watermark \in {0} \cup Ids

AgentTypeOK ==
    /\ pc \in [Agents -> Pcs]
    /\ job \in [Agents -> Jobs]
    /\ faults \in 0 .. MaxFaults

\* Every variable has its type; above all, there are never more outbox rows than
\* changes that caused them (enqueueSchedulerOutbox).
TypeOK == CacheTypeOK /\ DatabaseTypeOK /\ AgentTypeOK

\* A writer that captured its token before the bucket was retired publishes
\* nothing afterwards, not even once the bucket is open again, however long it
\* took from its token to the switch (the two fencing checks, and the epoch that
\* RetireBucket advances and ReopenBucket keeps).
NothingFromBeforeRetirement ==
    active # NoSnapshot => ~retired /\ active.since = retirements

\* Retirements and reopenings take effect in the order in which the group was
\* read for them: no worker undoes a decision that was made from a later state
\* of the group (the lifecycle lease, its owner token and its timeouts).
LifecycleNeverGoesBack == [][decided' >= decided]_vars

\* No event is passed over: what the watermark has passed was handled by some
\* poll, unless its transaction committed after a poll had seen higher ids
\* (pollOutbox advances after the whole batch).
ConsumedIsHandled ==
    \A i \in 1 .. watermark : i \in handled \cup late \/ i = open

\* Once nothing changes any more the scheduler sees what the database has: the
\* accounts of an active group, nothing of another one.  Lost events, buckets
\* skipped because of a busy lock, snapshots published late and account keys
\* written from an old read are repaired by the full rebuild.
Converges ==
    <>[](IF alive
         THEN /\ active # NoSnapshot /\ active.rev = rev
              /\ rev \in EmptyRevs \/ accounts = rev
         ELSE active = NoSnapshot)
=============================================================================
