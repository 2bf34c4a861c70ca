----------------------- MODULE SchedulerSnapshotProofs -----------------------
(***************************************************************************)
(* SchedulerSnapshot, proved for any number of pollers, rebuilders and     *)
(* readers, of changes and of faults.                                      *)
(***************************************************************************)
EXTENDS SchedulerSnapshot, TLAPS

-----------------------------------------------------------------------------
(* The inductive invariant.                                                *)

\* The ids given out so far are at most one for each change that has begun, so
\* there is one for each change that the bounds allow.
Numbered ==
    /\ open # NoTx => rev < MaxAccountChanges
    /\ lastId + (IF "account" \in owed THEN 1 ELSE 0)
              + (IF "group" \in owed THEN 1 ELSE 0)
         <= rev + groupRev + (IF open = NoTx THEN 0 ELSE 1)
    /\ open <= lastId
    /\ \A r \in rows : r.id <= lastId

\* An agent holds a write token that it may still use.
HasToken(a) ==
    \/ pc[a] \in {"lock", "load", "write", "fill", "activate"}
    \/ pc[a] = "release" /\ job[a].strict

\* A token of the present epoch was captured after the last retirement, and
\* while the bucket is retired all tokens are of an earlier epoch.
Fenced ==
    /\ active # NoSnapshot => ~retired /\ active.since = retirements
    /\ \A a \in Agents : HasToken(a) =>
         /\ job[a].token \in 1 .. epoch
         /\ retired => job[a].token # epoch
         /\ job[a].token = epoch => job[a].since = retirements
    /\ \A a \in Agents :
         job[a].strict =>
           pc[a] \in {"release", "lock", "load", "write", "fill", "activate"}

\* Who reads the group and decides holds the lease, and knows the group at least
\* as well as the last one who decided.
Leased ==
    /\ decided <= groupRev
    /\ \A a \in Agents : pc[a] \in LeasePcs => lease = a
    /\ \A a \in Agents : pc[a] = "lifecycle" =>
         decided <= job[a].group /\ job[a].group <= groupRev

\* Whatever became of event i, nobody needs to list it again.
Settled(i) == i \in handled \cup late \/ i = open

\* Every id up to the watermark is settled, every id is settled or in the table,
\* and up to the last id of a poll it is settled or the poll has it.
Passed == \A i \in 1 .. watermark : Settled(i)

Listed == \A i \in 1 .. lastId : Settled(i) \/ \E r \in rows : r.id = i

Held ==
    /\ \A a \in Agents : \A i \in 1 .. job[a].last :
         Settled(i) \/ \E r \in job[a].batch \cup job[a].current : r.id = i
    /\ \A a \in Agents :
         pc[a] \in {"idle", "list"} => job[a].batch = {} /\ job[a].current = {}
    /\ \A a \in Agents : pc[a] = "event" => job[a].current = {}

Covered == Passed /\ Listed /\ Held

IInv == TypeOK /\ Numbered /\ Fenced /\ Leased /\ Covered

-----------------------------------------------------------------------------
(* What the two ways to end a task come to.                                *)

\* After Idle.
IdleResult(a) ==
    /\ pc' \in [Agents -> Pcs] /\ job' \in [Agents -> Jobs]
    /\ \A b \in Agents \ {a} : job'[b] = job[b] /\ pc'[b] = pc[b]
    /\ pc'[a] = "idle"
    /\ ~job'[a].strict
    /\ job'[a].batch = {} /\ job'[a].current = {} /\ job'[a].last = 0

\* After Finish: a poll keeps the rest of its batch.
FinishResult(a) ==
    /\ pc' \in [Agents -> Pcs] /\ job' \in [Agents -> Jobs]
    /\ \A b \in Agents \ {a} : job'[b] = job[b] /\ pc'[b] = pc[b]
    /\ ~job'[a].strict
    /\ job'[a].current = {}
    /\ \/ pc'[a] = "idle" /\ job'[a].batch = {} /\ job'[a].last = 0
       \/ /\ pc'[a] = "event"
          /\ job'[a].batch = job[a].batch /\ job'[a].last = job[a].last
    /\ handled' = handled \cup {r.id : r \in job[a].current}
    /\ handled' \subseteq Ids
    /\ late' = late

\* NoJob is a job.
LEMMA NoJobType == NoJob \in Jobs
  BY SchedulerAssumption DEF NoJob, Jobs

\* Idle ends as IdleResult says.
LEMMA IdleFacts ==
    ASSUME TypeOK, NEW a \in Agents, Idle(a)
    PROVE  IdleResult(a)
<1>1. NoJob \in Jobs
  BY NoJobType
<1>2. job' \in [Agents -> Jobs] /\ job'[a] = NoJob
  BY <1>1 DEF TypeOK, AgentTypeOK, Idle
<1> QED
  BY <1>2 DEF TypeOK, AgentTypeOK, Idle, IdleResult, NoJob, Pcs

\* Finish ends as FinishResult says.
LEMMA FinishFacts ==
    ASSUME TypeOK, NEW a \in Agents, Finish(a)
    PROVE  FinishResult(a)
<1>1. job[a] \in Jobs
  BY DEF TypeOK, AgentTypeOK
<1> DEFINE more == job[a].seen \cup
              UNION {IF r.kind = "group" THEN Kinds ELSE {} : r \in job[a].current}
           next == IF job[a].mode # "poll" THEN NoJob
                   ELSE [NoJob EXCEPT !.mode = "poll", !.last = job[a].last,
                                      !.batch = job[a].batch, !.seen = more]
<1>2. more \in SUBSET Kinds
  BY <1>1 DEF Jobs
<1>3. next \in Jobs
  <2>1. NoJob \in Jobs
    BY NoJobType
  <2> HIDE DEF more
  <2> QED
    BY <2>1, <1>1, <1>2 DEF Jobs, NoJob
<1>4. job' = [job EXCEPT ![a] = next]
  BY DEF Finish
<1>5. job' \in [Agents -> Jobs] /\ job'[a] = next
      /\ \A b \in Agents \ {a} : job'[b] = job[b]
  <2> HIDE DEF next
  <2> QED
    BY <1>3, <1>4 DEF TypeOK, AgentTypeOK
<1>6. /\ ~next.strict /\ next.current = {}
      /\ IF job[a].mode = "poll" THEN next.batch = job[a].batch /\ next.last = job[a].last
                                 ELSE next.batch = {} /\ next.last = 0
  <2> HIDE DEF more
  <2> QED
    BY DEF NoJob
<1>7. /\ pc' \in [Agents -> Pcs]
      /\ pc'[a] = IF job[a].mode = "poll" THEN "event" ELSE "idle"
      /\ \A b \in Agents \ {a} : pc'[b] = pc[b]
  BY DEF Finish, TypeOK, AgentTypeOK, Pcs
<1>8. /\ handled' = handled \cup {r.id : r \in job[a].current}
      /\ handled' \subseteq Ids
      /\ late' = late
  BY <1>1 DEF Finish, TypeOK, DatabaseTypeOK, Jobs, Rows
<1> HIDE DEF next
<1> QED
  BY <1>5, <1>6, <1>7, <1>8 DEF FinishResult

-----------------------------------------------------------------------------
(* The steps.                                                              *)

\* Held is kept when it holds for the agent that moved and nothing that was
\* settled is unsettled.
LEMMA HeldKept ==
    ASSUME Held, NEW w \in Agents,
           \A b \in Agents \ {w} : job'[b] = job[b] /\ pc'[b] = pc[b],
           \A i \in Int : Settled(i) => Settled(i)',
           \A i \in 1 .. job'[w].last :
              Settled(i)' \/ \E r \in job'[w].batch \cup job'[w].current : r.id = i,
           pc'[w] \in {"idle", "list"} =>
              job'[w].batch = {} /\ job'[w].current = {},
           pc'[w] = "event" => job'[w].current = {}
    PROVE  Held'
<1>1. ASSUME NEW a \in Agents, NEW i \in 1 .. job'[a].last
      PROVE  Settled(i)' \/ \E r \in job'[a].batch \cup job'[a].current : r.id = i
  <2>1. CASE a = w
    BY <2>1, <1>1
  <2>2. CASE a # w
    <3>1. job'[a] = job[a]
      BY <2>2
    <3>2. Settled(i) \/ \E r \in job[a].batch \cup job[a].current : r.id = i
      BY <3>1 DEF Held
    <3> QED
      BY <3>1, <3>2
  <2> QED
    BY <2>1, <2>2
<1>2. \A a \in Agents :
         pc'[a] \in {"idle", "list"} => job'[a].batch = {} /\ job'[a].current = {}
  BY DEF Held
<1>3. \A a \in Agents : pc'[a] = "event" => job'[a].current = {}
  BY DEF Held
<1> QED
  BY <1>1, <1>2, <1>3 DEF Held

\* ChangeAccount keeps the invariant.
LEMMA ChangeAccountStep ==
    ASSUME IInv, ChangeAccount
    PROVE  IInv'
<1>b. TypeOK /\ Numbered /\ Fenced /\ Leased /\ Passed /\ Listed /\ Held
  BY DEF IInv, Covered
<1>1. CacheTypeOK'
  BY <1>b, SchedulerAssumption
     DEF ChangeAccount, NewId, cacheVars, fenceVars, versionVars, histories,
         historyVars, NoTx, NoRow, NoSnapshot, Agents, Workers, TypeOK,
         CacheTypeOK
<1>2. DatabaseTypeOK'
  BY <1>b, SchedulerAssumption, AgentsAssumption
     DEF ChangeAccount, NewId, cacheVars, fenceVars, versionVars, histories,
         historyVars, Jobs, Rows, Kinds, Ids, Pcs, NoTx, NoRow, NoSnapshot,
         Agents, Workers, TypeOK, CacheTypeOK, DatabaseTypeOK, AgentTypeOK,
         Numbered
<1>3. AgentTypeOK'
  BY <1>b, SchedulerAssumption
     DEF ChangeAccount, NewId, cacheVars, fenceVars, versionVars, histories,
         historyVars, Jobs, Rows, Kinds, Ids, Pcs, NoTx, NoRow, Agents, Workers,
         TypeOK, AgentTypeOK
<1>4. Numbered'
  BY <1>b, SchedulerAssumption, AgentsAssumption
     DEF ChangeAccount, NewId, cacheVars, fenceVars, versionVars, histories,
         historyVars, Jobs, Rows, Kinds, Ids, Pcs, NoTx, NoRow, NoSnapshot,
         Agents, Workers, TypeOK, CacheTypeOK, DatabaseTypeOK, AgentTypeOK,
         Numbered
<1>5. Fenced'
  BY <1>b, SchedulerAssumption
     DEF ChangeAccount, NewId, cacheVars, fenceVars, versionVars, histories,
         historyVars, NoTx, NoRow, NoSnapshot, Agents, Workers, TypeOK,
         CacheTypeOK, AgentTypeOK, Fenced, HasToken
<1>6. Leased'
  BY <1>b, AgentsAssumption
     DEF ChangeAccount, NewId, cacheVars, fenceVars, versionVars, histories,
         historyVars, NoTx, NoRow, Agents, Workers, LeasePcs, TypeOK,
         AgentTypeOK, Leased
<1>7. Passed'
  BY <1>b
     DEF ChangeAccount, NewId, cacheVars, fenceVars, versionVars, histories,
         historyVars, NoTx, NoRow, TypeOK, DatabaseTypeOK, Passed, Settled
<1>8. Listed'
  BY <1>b
     DEF ChangeAccount, NewId, cacheVars, fenceVars, versionVars, histories,
         historyVars, NoTx, NoRow, TypeOK, DatabaseTypeOK, Listed, Settled
<1>9. Held'
  BY <1>b
     DEF ChangeAccount, NewId, cacheVars, fenceVars, versionVars, histories,
         historyVars, NoTx, NoRow, Agents, Workers, TypeOK, AgentTypeOK, Held,
         Settled
<1> QED
  BY <1>1, <1>2, <1>3, <1>4, <1>5, <1>6, <1>7, <1>8, <1>9
     DEF IInv, Covered, TypeOK

\* CommitAccount keeps the invariant.
LEMMA CommitAccountStep ==
    ASSUME IInv, CommitAccount
    PROVE  IInv'
<1>b. TypeOK /\ Numbered /\ Fenced /\ Leased /\ Passed /\ Listed /\ Held
  BY DEF IInv, Covered
<1>1. CacheTypeOK'
  BY <1>b, SchedulerAssumption
     DEF CommitAccount, cacheVars, fenceVars, versionVars, NoTx, NoRow,
         NoSnapshot, Agents, Workers, TypeOK, CacheTypeOK
<1>2. DatabaseTypeOK'
  <2>1. rev' \in 0 .. MaxAccountChanges /\ open' = NoTx
    BY <1>b, SchedulerAssumption DEF CommitAccount, Numbered, TypeOK, DatabaseTypeOK
  <2>2. rows' \subseteq Rows /\ keys' \subseteq Ids /\ late' \subseteq Ids
    <3>1. CASE open = NoRow
      BY <1>b, <3>1 DEF CommitAccount, TypeOK, DatabaseTypeOK
    <3>2. CASE open # NoRow
      <4>1. open \in Ids
        BY <1>b, <3>2 DEF CommitAccount, TypeOK, DatabaseTypeOK
      <4>2. [id |-> open, kind |-> "account"] \in Rows
        BY <4>1 DEF Rows, Kinds
      <4>3. late' = late \/ late' = late \cup {open}
        BY <3>2 DEF CommitAccount
      <4> QED
        BY <1>b, <3>2, <4>1, <4>2, <4>3 DEF CommitAccount, TypeOK, DatabaseTypeOK
    <3> QED
      BY <3>1, <3>2
  <2> QED
    BY <1>b, <2>1, <2>2 DEF CommitAccount, TypeOK, DatabaseTypeOK
<1>3. AgentTypeOK'
  BY <1>b, SchedulerAssumption
     DEF CommitAccount, cacheVars, fenceVars, versionVars, Jobs, Rows, Kinds,
         Ids, Pcs, NoTx, NoRow, Agents, Workers, TypeOK, AgentTypeOK
<1>4. Numbered'
  BY <1>b, SchedulerAssumption, AgentsAssumption
     DEF CommitAccount, cacheVars, fenceVars, versionVars, Jobs, Rows, Kinds,
         Ids, Pcs, NoTx, NoRow, NoSnapshot, Agents, Workers, TypeOK,
         CacheTypeOK, DatabaseTypeOK, AgentTypeOK, Numbered
<1>5. Fenced'
  BY <1>b, SchedulerAssumption
     DEF CommitAccount, cacheVars, fenceVars, versionVars, NoTx, NoRow,
         NoSnapshot, Agents, Workers, TypeOK, CacheTypeOK, AgentTypeOK, Fenced,
         HasToken
<1>6. Leased'
  BY <1>b, AgentsAssumption
     DEF CommitAccount, cacheVars, fenceVars, versionVars, NoTx, NoRow, Agents,
         Workers, LeasePcs, TypeOK, AgentTypeOK, Leased
<1>7. Passed'
  BY <1>b
     DEF CommitAccount, cacheVars, fenceVars, versionVars, NoTx, NoRow, Agents,
         Workers, TypeOK, DatabaseTypeOK, Passed, Settled
<1>8. Listed'
  <2>1. lastId' = lastId /\ handled' = handled
    BY DEF CommitAccount
  <2>2. late \subseteq late' /\ rows \subseteq rows'
    BY DEF CommitAccount
  <2>3. open = NoRow \/ \E r \in rows' : r.id = open
    <3>1. CASE open # NoRow
      <4>1. [id |-> open, kind |-> "account"] \in rows'
        BY <3>1 DEF CommitAccount
      <4> QED
        BY <4>1
    <3> QED
      BY <3>1
  <2>4. \A i \in 1 .. lastId : i # NoRow
    BY DEF NoRow
  <2> QED
    BY <1>b, <2>1, <2>2, <2>3, <2>4 DEF Listed, Settled
<1>9. Held'
  BY <1>b
     DEF CommitAccount, cacheVars, fenceVars, versionVars, NoTx, NoRow, Agents,
         Workers, TypeOK, AgentTypeOK, Held, Settled
<1> QED
  BY <1>1, <1>2, <1>3, <1>4, <1>5, <1>6, <1>7, <1>8, <1>9
     DEF IInv, Covered, TypeOK

\* SaveAccount keeps the invariant.
LEMMA SaveAccountStep ==
    ASSUME IInv, SaveAccount
    PROVE  IInv'
<1>b. TypeOK /\ Numbered /\ Fenced /\ Leased /\ Passed /\ Listed /\ Held
  BY DEF IInv, Covered
<1>1. CacheTypeOK'
  BY <1>b, SchedulerAssumption
     DEF SaveAccount, cacheVars, fenceVars, versionVars, outboxVars, histories,
         historyVars, NoSnapshot, Agents, Workers, TypeOK, CacheTypeOK
<1>2. DatabaseTypeOK'
  BY <1>b, SchedulerAssumption
     DEF SaveAccount, cacheVars, fenceVars, versionVars, outboxVars, histories,
         historyVars, Rows, Kinds, Ids, NoTx, NoRow, TypeOK, DatabaseTypeOK
<1>3. AgentTypeOK'
  BY <1>b, SchedulerAssumption
     DEF SaveAccount, cacheVars, fenceVars, versionVars, outboxVars, histories,
         historyVars, Jobs, Rows, Kinds, Ids, Pcs, Agents, Workers, TypeOK,
         AgentTypeOK
<1>4. Numbered'
  BY <1>b, SchedulerAssumption
     DEF SaveAccount, cacheVars, fenceVars, versionVars, outboxVars, histories,
         historyVars, NoTx, TypeOK, DatabaseTypeOK, Numbered
<1>5. Fenced'
  BY <1>b, SchedulerAssumption
     DEF SaveAccount, cacheVars, fenceVars, versionVars, outboxVars, histories,
         historyVars, NoSnapshot, Agents, Workers, TypeOK, CacheTypeOK,
         AgentTypeOK, Fenced, HasToken
<1>6. Leased'
  BY <1>b, SchedulerAssumption, AgentsAssumption
     DEF SaveAccount, cacheVars, fenceVars, versionVars, outboxVars, histories,
         historyVars, Jobs, Rows, Kinds, Ids, Pcs, NoTx, NoRow, NoSnapshot,
         Agents, Workers, LeasePcs, TypeOK, CacheTypeOK, DatabaseTypeOK,
         AgentTypeOK, Leased
<1>7. Passed'
  BY <1>b
     DEF SaveAccount, cacheVars, fenceVars, versionVars, outboxVars, histories,
         historyVars, TypeOK, DatabaseTypeOK, Passed, Settled
<1>8. Listed'
  BY <1>b
     DEF SaveAccount, cacheVars, fenceVars, versionVars, outboxVars, histories,
         historyVars, TypeOK, DatabaseTypeOK, Listed, Settled
<1>9. Held'
  BY <1>b
     DEF SaveAccount, cacheVars, fenceVars, versionVars, outboxVars, histories,
         historyVars, Agents, Workers, TypeOK, AgentTypeOK, Held, Settled
<1> QED
  BY <1>1, <1>2, <1>3, <1>4, <1>5, <1>6, <1>7, <1>8, <1>9
     DEF IInv, Covered, TypeOK

\* ChangeGroup keeps the invariant.
LEMMA ChangeGroupStep ==
    ASSUME IInv, ChangeGroup
    PROVE  IInv'
<1>b. TypeOK /\ Numbered /\ Fenced /\ Leased /\ Passed /\ Listed /\ Held
  BY DEF IInv, Covered
<1>1. CacheTypeOK'
  BY <1>b, SchedulerAssumption
     DEF ChangeGroup, cacheVars, fenceVars, versionVars, outboxVars, histories,
         historyVars, NoSnapshot, Agents, Workers, TypeOK, CacheTypeOK
<1>2. DatabaseTypeOK'
  BY <1>b, SchedulerAssumption
     DEF ChangeGroup, cacheVars, fenceVars, versionVars, outboxVars, histories,
         historyVars, Rows, Kinds, Ids, NoTx, NoRow, TypeOK, DatabaseTypeOK
<1>3. AgentTypeOK'
  BY <1>b, SchedulerAssumption
     DEF ChangeGroup, cacheVars, fenceVars, versionVars, outboxVars, histories,
         historyVars, Jobs, Rows, Kinds, Ids, Pcs, Agents, Workers, TypeOK,
         AgentTypeOK
<1>4. Numbered'
  BY <1>b, SchedulerAssumption
     DEF ChangeGroup, cacheVars, fenceVars, versionVars, outboxVars, histories,
         historyVars, NoTx, TypeOK, DatabaseTypeOK, Numbered
<1>5. Fenced'
  BY <1>b, SchedulerAssumption
     DEF ChangeGroup, cacheVars, fenceVars, versionVars, outboxVars, histories,
         historyVars, NoSnapshot, Agents, Workers, TypeOK, CacheTypeOK,
         AgentTypeOK, Fenced, HasToken
<1>6. Leased'
  BY <1>b, SchedulerAssumption, AgentsAssumption
     DEF ChangeGroup, cacheVars, fenceVars, versionVars, outboxVars, histories,
         historyVars, Jobs, Rows, Kinds, Ids, Pcs, NoTx, NoRow, NoSnapshot,
         Agents, Workers, LeasePcs, TypeOK, CacheTypeOK, DatabaseTypeOK,
         AgentTypeOK, Leased
<1>7. Passed'
  BY <1>b
     DEF ChangeGroup, cacheVars, fenceVars, versionVars, outboxVars, histories,
         historyVars, TypeOK, DatabaseTypeOK, Passed, Settled
<1>8. Listed'
  BY <1>b
     DEF ChangeGroup, cacheVars, fenceVars, versionVars, outboxVars, histories,
         historyVars, TypeOK, DatabaseTypeOK, Listed, Settled
<1>9. Held'
  BY <1>b
     DEF ChangeGroup, cacheVars, fenceVars, versionVars, outboxVars, histories,
         historyVars, Agents, Workers, TypeOK, AgentTypeOK, Held, Settled
<1> QED
  BY <1>1, <1>2, <1>3, <1>4, <1>5, <1>6, <1>7, <1>8, <1>9
     DEF IInv, Covered, TypeOK

\* EnqueueEvent keeps the invariant.
LEMMA EnqueueEventStep ==
    ASSUME IInv, NEW k \in Kinds, EnqueueEvent(k)
    PROVE  IInv'
<1>b. TypeOK /\ Numbered /\ Fenced /\ Leased /\ Passed /\ Listed /\ Held
  BY DEF IInv, Covered
<1>1. CacheTypeOK'
  BY <1>b, SchedulerAssumption
     DEF EnqueueEvent, NewId, NoFault, cacheVars, fenceVars, versionVars,
         outboxVars, histories, historyVars, NoRow, NoSnapshot, Agents, Workers,
         TypeOK, CacheTypeOK
<1>2. DatabaseTypeOK'
  <2> DEFINE new == [id |-> lastId + 1, kind |-> k]
  <2>1. \/ UNCHANGED outboxVars
        \/ /\ k \in owed
           /\ lastId' = lastId + 1 /\ rows' = rows \cup {new}
           /\ keys' = keys \cup {lastId + 1}
    BY DEF EnqueueEvent, NewId
  <2>2. k \in owed => lastId + 1 \in Ids /\ new \in Rows
    <3>1. k \in owed => lastId + 1 \in Ids
      BY <1>b, SchedulerAssumption
         DEF Numbered, Kinds, TypeOK, DatabaseTypeOK, Ids, NoTx, NoRow
    <3> QED
      BY <3>1 DEF Rows, Kinds
  <2>3. lastId' \in {0} \cup Ids /\ rows' \subseteq Rows /\ keys' \subseteq Ids
    <3> HIDE DEF new
    <3> QED
      BY <1>b, <2>1, <2>2 DEF TypeOK, DatabaseTypeOK, outboxVars
  <2> QED
    BY <1>b, <2>3 DEF EnqueueEvent, TypeOK, DatabaseTypeOK, histories, historyVars
<1>3. AgentTypeOK'
  BY <1>b, SchedulerAssumption
     DEF EnqueueEvent, NewId, NoFault, cacheVars, fenceVars, versionVars,
         outboxVars, histories, historyVars, Jobs, Rows, Kinds, Ids, Pcs, NoRow,
         Agents, Workers, TypeOK, AgentTypeOK
<1>4. Numbered'
  BY <1>b, SchedulerAssumption, AgentsAssumption
     DEF EnqueueEvent, NewId, NoFault, cacheVars, fenceVars, versionVars,
         outboxVars, histories, historyVars, Jobs, Rows, Kinds, Ids, Pcs, NoTx,
         NoRow, NoSnapshot, Agents, Workers, TypeOK, CacheTypeOK,
         DatabaseTypeOK, AgentTypeOK, Numbered
<1>5. Fenced'
  BY <1>b, SchedulerAssumption
     DEF EnqueueEvent, NewId, NoFault, cacheVars, fenceVars, versionVars,
         outboxVars, histories, historyVars, NoRow, NoSnapshot, Agents, Workers,
         TypeOK, CacheTypeOK, AgentTypeOK, Fenced, HasToken
<1>6. Leased'
  BY <1>b, AgentsAssumption
     DEF EnqueueEvent, NewId, NoFault, cacheVars, fenceVars, versionVars,
         outboxVars, histories, historyVars, NoRow, Agents, Workers, LeasePcs,
         TypeOK, AgentTypeOK, Leased
<1>7. Passed'
  BY <1>b
     DEF EnqueueEvent, NewId, NoFault, cacheVars, fenceVars, versionVars,
         outboxVars, histories, historyVars, NoRow, TypeOK, DatabaseTypeOK,
         Passed, Settled
<1>8. Listed'
  <2> DEFINE new == [id |-> lastId + 1, kind |-> k]
  <2>1. \/ UNCHANGED outboxVars
        \/ /\ k \in owed
           /\ lastId' = lastId + 1 /\ rows' = rows \cup {new}
           /\ keys' = keys \cup {lastId + 1}
    BY DEF EnqueueEvent, NewId
  <2>2. UNCHANGED <<handled, late, open>>
    BY DEF EnqueueEvent, histories, historyVars
  <2>3. CASE UNCHANGED outboxVars
    BY <1>b, <2>2, <2>3 DEF Listed, Settled, outboxVars
  <2>4. CASE ~UNCHANGED outboxVars
    <3>1. new.id = lastId + 1 /\ lastId \in Int
      BY <1>b, SchedulerAssumption DEF TypeOK, DatabaseTypeOK, Ids
    <3>2. lastId' = lastId + 1 /\ rows' = rows \cup {new}
      BY <2>1, <2>4
    <3>3. \A i \in 1 .. lastId + 1 : i \in 1 .. lastId \/ i = lastId + 1
      BY <3>1
    <3> HIDE DEF new
    <3> QED
      BY <1>b, <2>2, <3>1, <3>2, <3>3 DEF Listed, Settled
  <2> QED
    BY <2>3, <2>4
<1>9. Held'
  BY <1>b
     DEF EnqueueEvent, NewId, NoFault, cacheVars, fenceVars, versionVars,
         outboxVars, histories, historyVars, NoRow, Agents, Workers, TypeOK,
         AgentTypeOK, Held, Settled
<1> QED
  BY <1>1, <1>2, <1>3, <1>4, <1>5, <1>6, <1>7, <1>8, <1>9
     DEF IInv, Covered, TypeOK

\* BeginPoll keeps the invariant.
LEMMA BeginPollStep ==
    ASSUME IInv, NEW w \in Workers, BeginPoll(w)
    PROVE  IInv'
<1>a. w \in Agents
  BY DEF Agents, Workers
<1>b. TypeOK /\ Numbered /\ Fenced /\ Leased /\ Passed /\ Listed /\ Held
  BY DEF IInv, Covered
<1>1. CacheTypeOK'
  BY <1>a, <1>b, SchedulerAssumption
     DEF BeginPoll, Begin, Goto, cacheVars, fenceVars, versionVars, dbVars,
         outboxVars, histories, historyVars, NoSnapshot, Agents, Workers,
         TypeOK, CacheTypeOK
<1>2. DatabaseTypeOK'
  BY <1>a, <1>b, SchedulerAssumption
     DEF BeginPoll, Begin, Goto, cacheVars, fenceVars, versionVars, dbVars,
         outboxVars, histories, historyVars, Rows, Kinds, Ids, NoTx, NoRow,
         Agents, Workers, TypeOK, DatabaseTypeOK
<1>3. AgentTypeOK'
  <2>1. job[w] \in Jobs /\ watermark \in {0} \cup Ids
    BY <1>a, <1>b DEF TypeOK, AgentTypeOK, DatabaseTypeOK
  <2>2. [job[w] EXCEPT !.mode = "poll", !.last = watermark] \in Jobs
    BY <2>1 DEF Jobs
  <2>3. /\ job' = [job EXCEPT ![w] = [job[w] EXCEPT !.mode = "poll",
                                                  !.last = watermark]]
        /\ pc' = [pc EXCEPT ![w] = "list"]
        /\ faults' = faults
    BY DEF BeginPoll, Goto
  <2> QED
    BY <1>b, <2>2, <2>3 DEF TypeOK, AgentTypeOK, Pcs
<1>4. Numbered'
  BY <1>a, <1>b, SchedulerAssumption
     DEF BeginPoll, Begin, Goto, cacheVars, fenceVars, versionVars, dbVars,
         outboxVars, histories, historyVars, NoTx, Agents, Workers, TypeOK,
         DatabaseTypeOK, Numbered
<1>5. Fenced'
  BY <1>a, <1>b, SchedulerAssumption
     DEF BeginPoll, Begin, Goto, cacheVars, fenceVars, versionVars, dbVars,
         outboxVars, histories, historyVars, NoSnapshot, Agents, Workers,
         TypeOK, CacheTypeOK, AgentTypeOK, Fenced, HasToken
<1>6. Leased'
  BY <1>a, <1>b, AgentsAssumption
     DEF BeginPoll, Begin, Goto, cacheVars, fenceVars, versionVars, dbVars,
         outboxVars, histories, historyVars, Agents, Workers, LeasePcs, TypeOK,
         AgentTypeOK, Leased
<1>7. Passed'
  BY <1>a, <1>b
     DEF BeginPoll, Begin, Goto, cacheVars, fenceVars, versionVars, dbVars,
         outboxVars, histories, historyVars, Agents, Workers, TypeOK,
         DatabaseTypeOK, Passed, Settled
<1>8. Listed'
  BY <1>a, <1>b
     DEF BeginPoll, Begin, Goto, cacheVars, fenceVars, versionVars, dbVars,
         outboxVars, histories, historyVars, Agents, Workers, TypeOK,
         DatabaseTypeOK, Listed, Settled
<1>9. Held'
  <2>1. /\ \A b \in Agents \ {w} : job'[b] = job[b] /\ pc'[b] = pc[b]
        /\ pc[w] = "idle" /\ pc'[w] = "list"
        /\ job'[w].last = watermark
        /\ job'[w].batch = job[w].batch /\ job'[w].current = job[w].current
    BY <1>a, <1>b DEF BeginPoll, Begin, Goto, TypeOK, AgentTypeOK, Jobs
  <2>2. \A i \in Int : Settled(i) => Settled(i)'
    BY DEF BeginPoll, Settled, dbVars, historyVars, histories
  <2>3. \A i \in 1 .. job'[w].last :
          Settled(i)' \/ \E r \in job'[w].batch \cup job'[w].current : r.id = i
    BY <1>b, <2>1, <2>2 DEF Passed
  <2> QED
    BY <1>a, <1>b, <2>1, <2>2, <2>3, HeldKept DEF Held
<1> QED
  BY <1>1, <1>2, <1>3, <1>4, <1>5, <1>6, <1>7, <1>8, <1>9
     DEF IInv, Covered, TypeOK

\* BeginFullRebuild keeps the invariant.
LEMMA BeginFullRebuildStep ==
    ASSUME IInv, NEW w \in Workers, BeginFullRebuild(w)
    PROVE  IInv'
<1>a. w \in Agents
  BY DEF Agents, Workers
<1>b. TypeOK /\ Numbered /\ Fenced /\ Leased /\ Passed /\ Listed /\ Held
  BY DEF IInv, Covered
<1>1. CacheTypeOK'
  BY <1>a, <1>b, SchedulerAssumption
     DEF BeginFullRebuild, Begin, Goto, cacheVars, fenceVars, versionVars,
         dbVars, outboxVars, histories, historyVars, NoSnapshot, Agents,
         Workers, TypeOK, CacheTypeOK
<1>2. DatabaseTypeOK'
  BY <1>a, <1>b, SchedulerAssumption
     DEF BeginFullRebuild, Begin, Goto, cacheVars, fenceVars, versionVars,
         dbVars, outboxVars, histories, historyVars, Rows, Kinds, Ids, NoTx,
         NoRow, NoSnapshot, Agents, Workers, TypeOK, DatabaseTypeOK
<1>3. AgentTypeOK'
  BY <1>a, <1>b, SchedulerAssumption
     DEF BeginFullRebuild, Begin, Goto, cacheVars, fenceVars, versionVars,
         dbVars, outboxVars, histories, historyVars, Jobs, Rows, Kinds, Ids,
         Pcs, NoSnapshot, Agents, Workers, TypeOK, AgentTypeOK
<1>4. Numbered'
  BY <1>a, <1>b, SchedulerAssumption
     DEF BeginFullRebuild, Begin, Goto, cacheVars, fenceVars, versionVars,
         dbVars, outboxVars, histories, historyVars, NoTx, NoSnapshot, Agents,
         Workers, TypeOK, DatabaseTypeOK, Numbered
<1>5. Fenced'
  BY <1>a, <1>b, SchedulerAssumption
     DEF BeginFullRebuild, Begin, Goto, cacheVars, fenceVars, versionVars,
         dbVars, outboxVars, histories, historyVars, NoSnapshot, Agents,
         Workers, TypeOK, CacheTypeOK, AgentTypeOK, Fenced, HasToken
<1>6. Leased'
  BY <1>a, <1>b, AgentsAssumption
     DEF BeginFullRebuild, Begin, Goto, cacheVars, fenceVars, versionVars,
         dbVars, outboxVars, histories, historyVars, NoSnapshot, Agents,
         Workers, LeasePcs, TypeOK, AgentTypeOK, Leased
<1>7. Passed'
  BY <1>a, <1>b
     DEF BeginFullRebuild, Begin, Goto, cacheVars, fenceVars, versionVars,
         dbVars, outboxVars, histories, historyVars, NoSnapshot, Agents,
         Workers, TypeOK, DatabaseTypeOK, Passed, Settled
<1>8. Listed'
  BY <1>a, <1>b
     DEF BeginFullRebuild, Begin, Goto, cacheVars, fenceVars, versionVars,
         dbVars, outboxVars, histories, historyVars, NoSnapshot, Agents,
         Workers, TypeOK, DatabaseTypeOK, Listed, Settled
<1>9. Held'
  BY <1>a, <1>b
     DEF BeginFullRebuild, Begin, Goto, cacheVars, fenceVars, versionVars,
         dbVars, outboxVars, histories, historyVars, NoSnapshot, Agents,
         Workers, TypeOK, AgentTypeOK, Held, Settled
<1> QED
  BY <1>1, <1>2, <1>3, <1>4, <1>5, <1>6, <1>7, <1>8, <1>9
     DEF IInv, Covered, TypeOK

\* ListAfterAndReleaseDedup keeps the invariant.
LEMMA ListAfterAndReleaseDedupStep ==
    ASSUME IInv, NEW w \in Workers, ListAfterAndReleaseDedup(w)
    PROVE  IInv'
<1>a. w \in Agents
  BY DEF Agents, Workers
<1>b. TypeOK /\ Numbered /\ Fenced /\ Leased /\ Passed /\ Listed /\ Held
  BY DEF IInv, Covered
<1>i. Idle(w) => IdleResult(w)
  BY <1>a, IdleFacts DEF IInv
<1>1. CacheTypeOK'
  BY <1>a, <1>i, <1>b, SchedulerAssumption
     DEF ListAfterAndReleaseDedup, Goto, IdleResult, cacheVars, fenceVars,
         versionVars, dbVars, histories, historyVars, Jobs, Rows, Kinds, Ids,
         Pcs, NoSnapshot, Agents, Workers, TypeOK, CacheTypeOK
<1>2. DatabaseTypeOK'
  BY <1>a, <1>i, <1>b, SchedulerAssumption
     DEF ListAfterAndReleaseDedup, Goto, IdleResult, cacheVars, fenceVars,
         versionVars, dbVars, histories, historyVars, Jobs, Rows, Kinds, Ids,
         Pcs, NoTx, NoRow, Agents, Workers, TypeOK, DatabaseTypeOK
<1>3. AgentTypeOK'
  BY <1>a, <1>i, <1>b, SchedulerAssumption
     DEF ListAfterAndReleaseDedup, Goto, IdleResult, cacheVars, fenceVars,
         versionVars, dbVars, histories, historyVars, Jobs, Rows, Kinds, Ids,
         Pcs, Agents, Workers, TypeOK, AgentTypeOK
<1>4. Numbered'
  BY <1>a, <1>i, <1>b, SchedulerAssumption
     DEF ListAfterAndReleaseDedup, Goto, IdleResult, cacheVars, fenceVars,
         versionVars, dbVars, histories, historyVars, Jobs, Rows, Kinds, Ids,
         Pcs, NoTx, Agents, Workers, TypeOK, DatabaseTypeOK, Numbered
<1>5. Fenced'
  BY <1>a, <1>i, <1>b, SchedulerAssumption
     DEF ListAfterAndReleaseDedup, Goto, IdleResult, cacheVars, fenceVars,
         versionVars, dbVars, histories, historyVars, Jobs, Rows, Kinds, Ids,
         Pcs, NoSnapshot, Agents, Workers, TypeOK, CacheTypeOK, AgentTypeOK,
         Fenced, HasToken
<1>6. Leased'
  BY <1>a, <1>i, <1>b, AgentsAssumption
     DEF ListAfterAndReleaseDedup, Goto, IdleResult, cacheVars, fenceVars,
         versionVars, dbVars, histories, historyVars, Jobs, Rows, Kinds, Ids,
         Pcs, Agents, Workers, LeasePcs, TypeOK, AgentTypeOK, Leased
<1>7. Passed'
  BY <1>a, <1>i, <1>b
     DEF ListAfterAndReleaseDedup, Goto, IdleResult, cacheVars, fenceVars,
         versionVars, dbVars, histories, historyVars, Jobs, Rows, Kinds, Ids,
         Pcs, Agents, Workers, TypeOK, DatabaseTypeOK, Passed, Settled
<1>8. Listed'
  BY <1>a, <1>i, <1>b
     DEF ListAfterAndReleaseDedup, Goto, IdleResult, cacheVars, fenceVars,
         versionVars, dbVars, histories, historyVars, Jobs, Rows, Kinds, Ids,
         Pcs, Agents, Workers, TypeOK, DatabaseTypeOK, Listed, Settled
<1>9. Held'
  <2>1. \A i \in Int : Settled(i) => Settled(i)'
    BY DEF ListAfterAndReleaseDedup, Settled, dbVars, historyVars, histories
  <2>2. CASE Idle(w)
    BY <1>a, <1>b, <1>i, <2>1, <2>2, HeldKept DEF IdleResult
  <2>3. CASE ~Idle(w)
    <3> DEFINE listed == {r \in rows : r.id > job[w].last}
    <3>1. PICK r \in listed :
            /\ \A s \in listed : s.id <= r.id
            /\ pc' = [pc EXCEPT ![w] = "event"]
            /\ job' = [job EXCEPT ![w].batch = listed, ![w].last = r.id]
            /\ pc[w] = "list"
      BY <2>3 DEF ListAfterAndReleaseDedup, Goto
    <3>2. /\ \A b \in Agents \ {w} : job'[b] = job[b] /\ pc'[b] = pc[b]
          /\ pc'[w] = "event"
          /\ job'[w].last = r.id
          /\ job'[w].batch = listed /\ job'[w].current = job[w].current
      <4> HIDE DEF listed
      <4> QED
        BY <1>a, <1>b, <3>1 DEF TypeOK, AgentTypeOK, Jobs
    <3>3. job[w].current = {} /\ job[w].batch = {}
      BY <1>a, <1>b, <3>1 DEF Held
    <3>4. r.id <= lastId /\ r.id \in Int /\ job[w].last \in Int /\ lastId \in Int
      BY <1>a, <1>b, <3>1, SchedulerAssumption
         DEF Numbered, TypeOK, DatabaseTypeOK, AgentTypeOK, Jobs, Rows, Ids
    <3>5. ASSUME NEW i \in 1 .. job'[w].last
          PROVE  Settled(i)' \/ \E s \in job'[w].batch : s.id = i
      <4>1. CASE i <= job[w].last
        BY <1>a, <1>b, <2>1, <3>2, <3>3, <3>4, <4>1 DEF Held
      <4>2. CASE i > job[w].last
        <5>1. Settled(i) \/ \E s \in rows : s.id = i
          BY <1>b, <3>2, <3>4, <3>5 DEF Listed
        <5>2. CASE \E s \in rows : s.id = i
          BY <3>2, <4>2, <5>2
        <5> QED
          BY <2>1, <5>1, <5>2
      <4> QED
        BY <3>2, <3>4, <4>1, <4>2
    <3> QED
      BY <1>a, <1>b, <2>1, <3>2, <3>3, <3>5, HeldKept
  <2> QED
    BY <2>2, <2>3
<1> QED
  BY <1>1, <1>2, <1>3, <1>4, <1>5, <1>6, <1>7, <1>8, <1>9
     DEF IInv, Covered, TypeOK

\* HandleAccountEvent keeps the invariant.
LEMMA HandleAccountEventStep ==
    ASSUME IInv, NEW w \in Workers, HandleAccountEvent(w)
    PROVE  IInv'
<1>a. w \in Agents
  BY DEF Agents, Workers
<1>b. TypeOK /\ Numbered /\ Fenced /\ Leased /\ Passed /\ Listed /\ Held
  BY DEF IInv, Covered
<1>1. CacheTypeOK'
  BY <1>a, <1>b, SchedulerAssumption
     DEF HandleAccountEvent, NextEvent, Goto, cacheVars, fenceVars, versionVars,
         dbVars, outboxVars, histories, historyVars, NoSnapshot, Agents,
         Workers, TypeOK, CacheTypeOK
<1>2. DatabaseTypeOK'
  BY <1>a, <1>b, SchedulerAssumption
     DEF HandleAccountEvent, NextEvent, Goto, cacheVars, fenceVars, versionVars,
         dbVars, outboxVars, histories, historyVars, Rows, Kinds, Ids, NoTx,
         NoRow, TypeOK, DatabaseTypeOK
<1>3. AgentTypeOK'
  <2>1. PICK r \in job[w].batch :
          /\ pc' = [pc EXCEPT ![w] = "setaccount"]
          /\ job' = [job EXCEPT ![w] = [job[w] EXCEPT !.batch = @ \ {r},
                                          !.current = {r}, !.data = rev]]
          /\ faults' = faults
          /\ pc[w] = "event"
    BY <1>a, <1>b DEF HandleAccountEvent, NextEvent, Goto, TypeOK, AgentTypeOK
  <2>2. job[w] \in Jobs /\ rev \in 0 .. MaxAccountChanges
    BY <1>a, <1>b DEF TypeOK, AgentTypeOK, DatabaseTypeOK
  <2>3. [job[w] EXCEPT !.batch = @ \ {r}, !.current = {r}, !.data = rev] \in Jobs
    BY <2>1, <2>2 DEF Jobs
  <2> QED
    BY <1>a, <1>b, <2>1, <2>3 DEF TypeOK, AgentTypeOK, Pcs
<1>4. Numbered'
  BY <1>a, <1>b, SchedulerAssumption
     DEF HandleAccountEvent, NextEvent, Goto, cacheVars, fenceVars, versionVars,
         dbVars, outboxVars, histories, historyVars, NoTx, TypeOK,
         DatabaseTypeOK, Numbered
<1>5. Fenced'
  BY <1>a, <1>b, SchedulerAssumption
     DEF HandleAccountEvent, NextEvent, Goto, cacheVars, fenceVars, versionVars,
         dbVars, outboxVars, histories, historyVars, NoSnapshot, Agents,
         Workers, TypeOK, CacheTypeOK, AgentTypeOK, Fenced, HasToken
<1>6. Leased'
  BY <1>a, <1>b, AgentsAssumption
     DEF HandleAccountEvent, NextEvent, Goto, cacheVars, fenceVars, versionVars,
         dbVars, outboxVars, histories, historyVars, Agents, Workers, LeasePcs,
         TypeOK, AgentTypeOK, Leased
<1>7. Passed'
  BY <1>a, <1>b
     DEF HandleAccountEvent, NextEvent, Goto, cacheVars, fenceVars, versionVars,
         dbVars, outboxVars, histories, historyVars, TypeOK, DatabaseTypeOK,
         Passed, Settled
<1>8. Listed'
  BY <1>a, <1>b
     DEF HandleAccountEvent, NextEvent, Goto, cacheVars, fenceVars, versionVars,
         dbVars, outboxVars, histories, historyVars, TypeOK, DatabaseTypeOK,
         Listed, Settled
<1>9. Held'
  <2>1. PICK r \in job[w].batch :
          /\ pc' = [pc EXCEPT ![w] = "setaccount"]
          /\ job' = [job EXCEPT ![w] = [job[w] EXCEPT !.batch = @ \ {r},
                                          !.current = {r}, !.data = rev]]
          /\ faults' = faults
          /\ pc[w] = "event"
    BY <1>a, <1>b DEF HandleAccountEvent, NextEvent, Goto, TypeOK, AgentTypeOK
  <2>2. job[w] \in Jobs /\ rev \in 0 .. MaxAccountChanges
    BY <1>a, <1>b DEF TypeOK, AgentTypeOK, DatabaseTypeOK
  <2>3. /\ \A b \in Agents \ {w} : job'[b] = job[b] /\ pc'[b] = pc[b]
        /\ pc'[w] = "setaccount"
        /\ job'[w].last = job[w].last
        /\ job'[w].batch = job[w].batch \ {r} /\ job'[w].current = {r}
    BY <1>a, <1>b, <2>1, <2>2 DEF TypeOK, AgentTypeOK, Jobs
  <2>4. \A i \in Int : Settled(i) => Settled(i)'
    BY DEF HandleAccountEvent, Settled, dbVars, historyVars, histories
  <2>5. job[w].current = {}
    BY <1>a, <1>b, <2>1 DEF Held
  <2>6. job'[w].batch \cup job'[w].current = job[w].batch \cup job[w].current
    BY <2>1, <2>3, <2>5
  <2>7. \A i \in 1 .. job'[w].last :
          Settled(i)' \/ \E s \in job'[w].batch \cup job'[w].current : s.id = i
    BY <1>a, <1>b, <2>3, <2>4, <2>6 DEF Held
  <2> QED
    BY <1>a, <1>b, <2>3, <2>4, <2>7, HeldKept
<1> QED
  BY <1>1, <1>2, <1>3, <1>4, <1>5, <1>6, <1>7, <1>8, <1>9
     DEF IInv, Covered, TypeOK

\* HandleGroupEvent keeps the invariant.
LEMMA HandleGroupEventStep ==
    ASSUME IInv, NEW w \in Workers, HandleGroupEvent(w)
    PROVE  IInv'
<1>a. w \in Agents
  BY DEF Agents, Workers
<1>b. TypeOK /\ Numbered /\ Fenced /\ Leased /\ Passed /\ Listed /\ Held
  BY DEF IInv, Covered
<1>1. CacheTypeOK'
  BY <1>a, <1>b, SchedulerAssumption
     DEF HandleGroupEvent, NextEvent, Goto, cacheVars, fenceVars, versionVars,
         dbVars, outboxVars, NoSnapshot, Agents, Workers, TypeOK, CacheTypeOK
<1>2. DatabaseTypeOK'
  BY <1>a, <1>b, SchedulerAssumption, AgentsAssumption
     DEF HandleGroupEvent, NextEvent, Goto, cacheVars, fenceVars, versionVars,
         dbVars, outboxVars, Jobs, Rows, Kinds, Ids, Pcs, NoTx, NoRow,
         NoSnapshot, Agents, Workers, TypeOK, CacheTypeOK, DatabaseTypeOK,
         AgentTypeOK, Numbered
<1>3. AgentTypeOK'
  BY <1>a, <1>b, SchedulerAssumption
     DEF HandleGroupEvent, NextEvent, Goto, cacheVars, fenceVars, versionVars,
         dbVars, outboxVars, Jobs, Rows, Kinds, Ids, Pcs, Agents, Workers,
         TypeOK, AgentTypeOK
<1>4. Numbered'
  BY <1>a, <1>b, SchedulerAssumption
     DEF HandleGroupEvent, NextEvent, Goto, cacheVars, fenceVars, versionVars,
         dbVars, outboxVars, NoTx, TypeOK, DatabaseTypeOK, Numbered
<1>5. Fenced'
  BY <1>a, <1>b, SchedulerAssumption, AgentsAssumption
     DEF HandleGroupEvent, NextEvent, Goto, cacheVars, fenceVars, versionVars,
         dbVars, outboxVars, Jobs, Rows, Kinds, Ids, Pcs, NoTx, NoRow,
         NoSnapshot, Agents, Workers, TypeOK, CacheTypeOK, DatabaseTypeOK,
         AgentTypeOK, Fenced, HasToken
<1>6. Leased'
  BY <1>a, <1>b, AgentsAssumption
     DEF HandleGroupEvent, NextEvent, Goto, cacheVars, fenceVars, versionVars,
         dbVars, outboxVars, Agents, Workers, LeasePcs, TypeOK, AgentTypeOK,
         Leased
<1>7. Passed'
  BY <1>a, <1>b
     DEF HandleGroupEvent, NextEvent, Goto, cacheVars, fenceVars, versionVars,
         dbVars, outboxVars, TypeOK, DatabaseTypeOK, Passed, Settled
<1>8. Listed'
  BY <1>a, <1>b
     DEF HandleGroupEvent, NextEvent, Goto, cacheVars, fenceVars, versionVars,
         dbVars, outboxVars, TypeOK, DatabaseTypeOK, Listed, Settled
<1>9. Held'
  <2>1. PICK r \in job[w].batch :
           /\ pc[w] = "event"
           /\ \/ /\ pc' = [pc EXCEPT ![w] = "lease"]
                 /\ job' = [job EXCEPT ![w] = [job[w] EXCEPT
                                !.batch = job[w].batch \ {r}, !.current = {r}]]
                 /\ handled' = handled
              \/ /\ pc' = pc
                 /\ job' = [job EXCEPT ![w] = [job[w] EXCEPT
                                                  !.batch = job[w].batch \ {r}]]
                 /\ handled' = handled \cup {r.id}
    BY DEF HandleGroupEvent, NextEvent, Goto
  <2>2. job[w] \in Jobs /\ job[w].current = {}
    BY <1>a, <1>b, <2>1 DEF TypeOK, AgentTypeOK, Held
  <2>3. \A b \in Agents \ {w} : job'[b] = job[b] /\ pc'[b] = pc[b]
    BY <1>a, <1>b, <2>1 DEF TypeOK, AgentTypeOK
  <2>4. /\ job'[w].last = job[w].last
        /\ job'[w].batch = job[w].batch \ {r}
        /\ \/ pc'[w] = "lease" /\ job'[w].current = {r}
           \/ pc'[w] = "event" /\ job'[w].current = {} /\ r.id \in handled'
    <3> DEFINE taken == [job[w] EXCEPT !.batch = job[w].batch \ {r}, !.current = {r}]
               skipped == [job[w] EXCEPT !.batch = job[w].batch \ {r}]
    <3>1. /\ taken.last = job[w].last /\ taken.batch = job[w].batch \ {r}
          /\ taken.current = {r}
          /\ skipped.last = job[w].last /\ skipped.batch = job[w].batch \ {r}
          /\ skipped.current = {}
      BY <2>2 DEF Jobs
    <3>2. \/ job'[w] = taken /\ pc'[w] = "lease"
          \/ job'[w] = skipped /\ pc'[w] = "event" /\ r.id \in handled'
      BY <1>a, <1>b, <2>1 DEF TypeOK, AgentTypeOK
    <3> HIDE DEF taken, skipped
    <3> QED
      BY <3>1, <3>2
  <2>5. \A i \in Int : Settled(i) => Settled(i)'
    <3>1. open' = open /\ late' = late /\ handled \subseteq handled'
      BY <2>1 DEF HandleGroupEvent, dbVars
    <3> QED
      BY <3>1 DEF Settled
  <2>6. \A i \in 1 .. job'[w].last :
           Settled(i)' \/ \E q \in job'[w].batch \cup job'[w].current : q.id = i
    <3> SUFFICES ASSUME NEW i \in 1 .. job[w].last
                 PROVE  Settled(i)' \/
                        \E q \in job'[w].batch \cup job'[w].current : q.id = i
      BY <2>4
    <3>1. Settled(i) \/ \E q \in job[w].batch : q.id = i
      BY <1>a, <1>b, <2>2 DEF Held
    <3>2. CASE Settled(i)
      BY <2>5, <3>2
    <3>3. CASE i = r.id
      BY <2>4, <3>3 DEF Settled
    <3>4. CASE \E q \in job[w].batch : q.id = i /\ q # r
      BY <2>4, <3>4
    <3> QED
      BY <3>1, <3>2, <3>3, <3>4
  <2> QED
    BY <1>a, <1>b, <2>3, <2>4, <2>5, <2>6, HeldKept
<1> QED
  BY <1>1, <1>2, <1>3, <1>4, <1>5, <1>6, <1>7, <1>8, <1>9
     DEF IInv, Covered, TypeOK

\* SetAccount keeps the invariant.
LEMMA SetAccountStep ==
    ASSUME IInv, NEW w \in Workers, SetAccount(w)
    PROVE  IInv'
<1>a. w \in Agents
  BY DEF Agents, Workers
<1>b. TypeOK /\ Numbered /\ Fenced /\ Leased /\ Passed /\ Listed /\ Held
  BY DEF IInv, Covered
<1>f. Finish(w) => FinishResult(w)
  BY <1>a, FinishFacts DEF IInv
<1>1. CacheTypeOK'
  BY <1>a, <1>f, <1>b, SchedulerAssumption, AgentsAssumption
     DEF SetAccount, WriteAccounts, Goto, FinishResult, fenceVars, versionVars,
         dbVars, outboxVars, historyVars, Jobs, Rows, Kinds, Ids, Pcs, NoTx,
         NoRow, NoSnapshot, Agents, Workers, TypeOK, CacheTypeOK,
         DatabaseTypeOK, AgentTypeOK
<1>2. DatabaseTypeOK'
  BY <1>a, <1>f, <1>b, SchedulerAssumption
     DEF SetAccount, WriteAccounts, Goto, FinishResult, fenceVars, versionVars,
         dbVars, outboxVars, historyVars, Jobs, Rows, Kinds, Ids, Pcs, NoTx,
         NoRow, Agents, Workers, TypeOK, DatabaseTypeOK
<1>3. AgentTypeOK'
  BY <1>a, <1>f, <1>b, SchedulerAssumption
     DEF SetAccount, WriteAccounts, Goto, FinishResult, fenceVars, versionVars,
         dbVars, outboxVars, historyVars, Jobs, Rows, Kinds, Ids, Pcs, Agents,
         Workers, TypeOK, AgentTypeOK
<1>4. Numbered'
  BY <1>a, <1>f, <1>b, SchedulerAssumption
     DEF SetAccount, WriteAccounts, Goto, FinishResult, fenceVars, versionVars,
         dbVars, outboxVars, historyVars, Jobs, Rows, Kinds, Ids, Pcs, NoTx,
         Agents, Workers, TypeOK, DatabaseTypeOK, Numbered
<1>5. Fenced'
  BY <1>a, <1>f, <1>b, SchedulerAssumption
     DEF SetAccount, WriteAccounts, Goto, FinishResult, fenceVars, versionVars,
         dbVars, outboxVars, historyVars, Jobs, Rows, Kinds, Ids, Pcs,
         NoSnapshot, Agents, Workers, TypeOK, CacheTypeOK, AgentTypeOK, Fenced,
         HasToken
<1>6. Leased'
  BY <1>a, <1>f, <1>b, AgentsAssumption
     DEF SetAccount, WriteAccounts, Goto, FinishResult, fenceVars, versionVars,
         dbVars, outboxVars, historyVars, Jobs, Rows, Kinds, Ids, Pcs, Agents,
         Workers, LeasePcs, TypeOK, AgentTypeOK, Leased
<1>7. Passed'
  BY <1>a, <1>f, <1>b
     DEF SetAccount, WriteAccounts, Goto, FinishResult, fenceVars, versionVars,
         dbVars, outboxVars, historyVars, Jobs, Rows, Kinds, Ids, Pcs, Agents,
         Workers, TypeOK, DatabaseTypeOK, Passed, Settled
<1>8. Listed'
  BY <1>a, <1>f, <1>b
     DEF SetAccount, WriteAccounts, Goto, FinishResult, fenceVars, versionVars,
         dbVars, outboxVars, historyVars, Jobs, Rows, Kinds, Ids, Pcs, Agents,
         Workers, TypeOK, DatabaseTypeOK, Listed, Settled
<1>9. Held'
  <2>1. CASE Finish(w)
    <3>1. \A i \in Int : Settled(i) => Settled(i)'
      BY <1>f, <2>1 DEF FinishResult, Settled, SetAccount, dbVars
    <3>2. \A i \in 1 .. job'[w].last :
            Settled(i)' \/ \E r \in job'[w].batch \cup job'[w].current : r.id = i
      <4> SUFFICES ASSUME NEW i \in 1 .. job'[w].last
                   PROVE  Settled(i)' \/ \E r \in job'[w].batch : r.id = i
        OBVIOUS
      <4>1. job'[w].last = job[w].last /\ job'[w].batch = job[w].batch
        BY <1>f, <2>1 DEF FinishResult
      <4>2. Settled(i) \/ \E r \in job[w].batch \cup job[w].current : r.id = i
        BY <1>a, <1>b, <4>1 DEF Held
      <4>3. (\E r \in job[w].current : r.id = i) => Settled(i)'
        BY <1>f, <2>1 DEF FinishResult, Settled
      <4> QED
        BY <3>1, <4>1, <4>2, <4>3
    <3> QED
      BY <1>a, <1>b, <1>f, <2>1, <3>1, <3>2, HeldKept DEF FinishResult
  <2>2. CASE ~Finish(w)
    <3>1. /\ \A b \in Agents \ {w} : job'[b] = job[b] /\ pc'[b] = pc[b]
          /\ pc'[w] = "capture"
          /\ job'[w].last = job[w].last
          /\ job'[w].batch = job[w].batch /\ job'[w].current = job[w].current
      BY <1>a, <1>b, <2>2 DEF SetAccount, Goto, TypeOK, AgentTypeOK, Jobs
    <3>2. \A i \in Int : Settled(i) => Settled(i)'
      BY <2>2 DEF SetAccount, Settled, dbVars, historyVars
    <3>3. \A i \in 1 .. job'[w].last :
            Settled(i)' \/ \E r \in job'[w].batch \cup job'[w].current : r.id = i
      BY <1>a, <1>b, <3>1, <3>2 DEF Held
    <3> QED
      BY <1>a, <1>b, <3>1, <3>2, <3>3, HeldKept
  <2> QED
    BY <2>1, <2>2
<1> QED
  BY <1>1, <1>2, <1>3, <1>4, <1>5, <1>6, <1>7, <1>8, <1>9
     DEF IInv, Covered, TypeOK

\* AdvanceWatermark keeps the invariant.
LEMMA AdvanceWatermarkStep ==
    ASSUME IInv, NEW w \in Workers, AdvanceWatermark(w)
    PROVE  IInv'
<1>a. w \in Agents
  BY DEF Agents, Workers
<1>b. TypeOK /\ Numbered /\ Fenced /\ Leased /\ Passed /\ Listed /\ Held
  BY DEF IInv, Covered
<1>i. Idle(w) => IdleResult(w)
  BY <1>a, IdleFacts DEF IInv
<1>1. CacheTypeOK'
  BY <1>a, <1>i, <1>b, SchedulerAssumption
     DEF AdvanceWatermark, IdleResult, cacheVars, fenceVars, versionVars,
         dbVars, histories, historyVars, Jobs, Rows, Kinds, Ids, Pcs,
         NoSnapshot, Agents, Workers, TypeOK, CacheTypeOK
<1>2. DatabaseTypeOK'
  BY <1>a, <1>i, <1>b, SchedulerAssumption, AgentsAssumption
     DEF AdvanceWatermark, IdleResult, cacheVars, fenceVars, versionVars,
         dbVars, histories, historyVars, Jobs, Rows, Kinds, Ids, Pcs, NoTx,
         NoRow, NoSnapshot, Agents, Workers, TypeOK, CacheTypeOK,
         DatabaseTypeOK, AgentTypeOK, Numbered
<1>3. AgentTypeOK'
  BY <1>a, <1>i, <1>b, SchedulerAssumption
     DEF AdvanceWatermark, IdleResult, cacheVars, fenceVars, versionVars,
         dbVars, histories, historyVars, Jobs, Rows, Kinds, Ids, Pcs, Agents,
         Workers, TypeOK, AgentTypeOK
<1>4. Numbered'
  BY <1>a, <1>i, <1>b, SchedulerAssumption
     DEF AdvanceWatermark, IdleResult, cacheVars, fenceVars, versionVars,
         dbVars, histories, historyVars, Jobs, Rows, Kinds, Ids, Pcs, NoTx,
         Agents, Workers, TypeOK, DatabaseTypeOK, Numbered
<1>5. Fenced'
  BY <1>a, <1>i, <1>b, SchedulerAssumption
     DEF AdvanceWatermark, IdleResult, cacheVars, fenceVars, versionVars,
         dbVars, histories, historyVars, Jobs, Rows, Kinds, Ids, Pcs,
         NoSnapshot, Agents, Workers, TypeOK, CacheTypeOK, AgentTypeOK, Fenced,
         HasToken
<1>6. Leased'
  BY <1>a, <1>i, <1>b, AgentsAssumption
     DEF AdvanceWatermark, IdleResult, cacheVars, fenceVars, versionVars,
         dbVars, histories, historyVars, Jobs, Rows, Kinds, Ids, Pcs, Agents,
         Workers, LeasePcs, TypeOK, AgentTypeOK, Leased
<1>7. Passed'
  BY <1>a, <1>i, <1>b, SchedulerAssumption, AgentsAssumption
     DEF AdvanceWatermark, IdleResult, cacheVars, fenceVars, versionVars,
         dbVars, histories, historyVars, Jobs, Rows, Kinds, Ids, Pcs, NoTx,
         NoRow, NoSnapshot, Agents, Workers, TypeOK, CacheTypeOK,
         DatabaseTypeOK, AgentTypeOK, Numbered, Passed, Held, Settled
<1>8. Listed'
  BY <1>a, <1>i, <1>b, SchedulerAssumption, AgentsAssumption
     DEF AdvanceWatermark, IdleResult, cacheVars, fenceVars, versionVars,
         dbVars, histories, historyVars, Jobs, Rows, Kinds, Ids, Pcs, NoTx,
         NoRow, NoSnapshot, Agents, Workers, TypeOK, CacheTypeOK,
         DatabaseTypeOK, AgentTypeOK, Numbered, Passed, Listed, Held, Settled
<1>9. Held'
  BY <1>a, <1>i, <1>b
     DEF AdvanceWatermark, IdleResult, cacheVars, fenceVars, versionVars,
         dbVars, histories, historyVars, Jobs, Rows, Kinds, Ids, Pcs, Agents,
         Workers, TypeOK, AgentTypeOK, Held, Settled
<1> QED
  BY <1>1, <1>2, <1>3, <1>4, <1>5, <1>6, <1>7, <1>8, <1>9
     DEF IInv, Covered, TypeOK

\* AcquireLease keeps the invariant.
LEMMA AcquireLeaseStep ==
    ASSUME IInv, NEW w \in Workers, AcquireLease(w)
    PROVE  IInv'
<1>a. w \in Agents
  BY DEF Agents, Workers
<1>b. TypeOK /\ Numbered /\ Fenced /\ Leased /\ Passed /\ Listed /\ Held
  BY DEF IInv, Covered
<1>i. Idle(w) => IdleResult(w)
  BY <1>a, IdleFacts DEF IInv
<1>1. CacheTypeOK'
  BY <1>a, <1>i, <1>b, SchedulerAssumption
     DEF AcquireLease, TryAcquireGroupLifecycleLease, Goto, IdleResult,
         cacheVars, fenceVars, versionVars, dbVars, outboxVars, histories,
         historyVars, Jobs, Rows, Kinds, Ids, Pcs, NoSnapshot, Agents, Workers,
         TypeOK, CacheTypeOK
<1>2. DatabaseTypeOK'
  BY <1>a, <1>i, <1>b, SchedulerAssumption
     DEF AcquireLease, TryAcquireGroupLifecycleLease, Goto, IdleResult,
         cacheVars, fenceVars, versionVars, dbVars, outboxVars, histories,
         historyVars, Jobs, Rows, Kinds, Ids, Pcs, NoTx, NoRow, Agents, Workers,
         TypeOK, DatabaseTypeOK
<1>3. AgentTypeOK'
  BY <1>a, <1>i, <1>b, SchedulerAssumption
     DEF AcquireLease, TryAcquireGroupLifecycleLease, Goto, IdleResult,
         cacheVars, fenceVars, versionVars, dbVars, outboxVars, histories,
         historyVars, Jobs, Rows, Kinds, Ids, Pcs, Agents, Workers, TypeOK,
         AgentTypeOK
<1>4. Numbered'
  BY <1>a, <1>i, <1>b, SchedulerAssumption
     DEF AcquireLease, TryAcquireGroupLifecycleLease, Goto, IdleResult,
         cacheVars, fenceVars, versionVars, dbVars, outboxVars, histories,
         historyVars, Jobs, Rows, Kinds, Ids, Pcs, NoTx, Agents, Workers,
         TypeOK, DatabaseTypeOK, Numbered
<1>5. Fenced'
  BY <1>a, <1>i, <1>b, SchedulerAssumption
     DEF AcquireLease, TryAcquireGroupLifecycleLease, Goto, IdleResult,
         cacheVars, fenceVars, versionVars, dbVars, outboxVars, histories,
         historyVars, Jobs, Rows, Kinds, Ids, Pcs, NoSnapshot, Agents, Workers,
         TypeOK, CacheTypeOK, AgentTypeOK, Fenced, HasToken
<1>6. Leased'
  <2>1. decided' = decided /\ groupRev' = groupRev
    BY DEF AcquireLease, dbVars, histories
  <2>2. CASE TryAcquireGroupLifecycleLease(w) /\ Goto(w, "authority") /\ UNCHANGED job
    <3>1. \A b \in Agents : pc[b] \notin LeasePcs \/ b = w
      <4>1. pc[w] = "lease"
        BY DEF AcquireLease
      <4>2. \A b \in Agents : pc[b] \in LeasePcs => b = Free
        BY <1>b, <2>2 DEF Leased, TryAcquireGroupLifecycleLease
      <4> QED
        BY <4>2, AgentsAssumption DEF Agents, Workers
    <3>2. \A b \in Agents : pc'[b] = IF b = w THEN "authority" ELSE pc[b]
      BY <1>a, <1>b, <2>2 DEF Goto, TypeOK, AgentTypeOK
    <3>3. lease' = w /\ job' = job
      BY <2>2 DEF TryAcquireGroupLifecycleLease
    <3> QED
      BY <1>b, <2>1, <3>1, <3>2, <3>3 DEF Leased, LeasePcs
  <2>3. CASE Idle(w) /\ UNCHANGED cacheVars
    <3>1. lease' = lease
      BY <2>3 DEF cacheVars
    <3> QED
      BY <1>a, <1>b, <1>i, <2>1, <2>3, <3>1 DEF IdleResult, Leased, LeasePcs
  <2> QED
    BY <2>2, <2>3 DEF AcquireLease
<1>7. Passed'
  BY <1>a, <1>i, <1>b
     DEF AcquireLease, TryAcquireGroupLifecycleLease, Goto, IdleResult,
         cacheVars, fenceVars, versionVars, dbVars, outboxVars, histories,
         historyVars, Jobs, Rows, Kinds, Ids, Pcs, Agents, Workers, TypeOK,
         DatabaseTypeOK, Passed, Settled
<1>8. Listed'
  BY <1>a, <1>i, <1>b
     DEF AcquireLease, TryAcquireGroupLifecycleLease, Goto, IdleResult,
         cacheVars, fenceVars, versionVars, dbVars, outboxVars, histories,
         historyVars, Jobs, Rows, Kinds, Ids, Pcs, Agents, Workers, TypeOK,
         DatabaseTypeOK, Listed, Settled
<1>9. Held'
  BY <1>a, <1>i, <1>b
     DEF AcquireLease, TryAcquireGroupLifecycleLease, Goto, IdleResult,
         cacheVars, fenceVars, versionVars, dbVars, outboxVars, histories,
         historyVars, Jobs, Rows, Kinds, Ids, Pcs, Agents, Workers, TypeOK,
         AgentTypeOK, Held, Settled
<1> QED
  BY <1>1, <1>2, <1>3, <1>4, <1>5, <1>6, <1>7, <1>8, <1>9
     DEF IInv, Covered, TypeOK

\* ReadGroup keeps the invariant.
LEMMA ReadGroupStep ==
    ASSUME IInv, NEW w \in Workers, ReadGroup(w)
    PROVE  IInv'
<1>a. w \in Agents
  BY DEF Agents, Workers
<1>b. TypeOK /\ Numbered /\ Fenced /\ Leased /\ Passed /\ Listed /\ Held
  BY DEF IInv, Covered
<1>1. CacheTypeOK'
  BY <1>a, <1>b, SchedulerAssumption
     DEF ReadGroup, Goto, cacheVars, fenceVars, versionVars, dbVars, outboxVars,
         histories, historyVars, NoSnapshot, Agents, Workers, TypeOK,
         CacheTypeOK
<1>2. DatabaseTypeOK'
  BY <1>a, <1>b, SchedulerAssumption
     DEF ReadGroup, Goto, cacheVars, fenceVars, versionVars, dbVars, outboxVars,
         histories, historyVars, Rows, Kinds, Ids, NoTx, NoRow, TypeOK,
         DatabaseTypeOK
<1>3. AgentTypeOK'
  BY <1>a, <1>b, SchedulerAssumption, AgentsAssumption
     DEF ReadGroup, Goto, cacheVars, fenceVars, versionVars, dbVars, outboxVars,
         histories, historyVars, Jobs, Rows, Kinds, Ids, Pcs, NoTx, NoRow,
         NoSnapshot, Agents, Workers, TypeOK, CacheTypeOK, DatabaseTypeOK,
         AgentTypeOK
<1>4. Numbered'
  BY <1>a, <1>b, SchedulerAssumption
     DEF ReadGroup, Goto, cacheVars, fenceVars, versionVars, dbVars, outboxVars,
         histories, historyVars, NoTx, TypeOK, DatabaseTypeOK, Numbered
<1>5. Fenced'
  BY <1>a, <1>b, SchedulerAssumption
     DEF ReadGroup, Goto, cacheVars, fenceVars, versionVars, dbVars, outboxVars,
         histories, historyVars, NoSnapshot, Agents, Workers, TypeOK,
         CacheTypeOK, AgentTypeOK, Fenced, HasToken
<1>6. Leased'
  BY <1>a, <1>b, SchedulerAssumption, AgentsAssumption
     DEF ReadGroup, Goto, cacheVars, fenceVars, versionVars, dbVars, outboxVars,
         histories, historyVars, Jobs, Rows, Kinds, Ids, Pcs, NoTx, NoRow,
         NoSnapshot, Agents, Workers, LeasePcs, TypeOK, CacheTypeOK,
         DatabaseTypeOK, AgentTypeOK, Leased
<1>7. Passed'
  BY <1>a, <1>b
     DEF ReadGroup, Goto, cacheVars, fenceVars, versionVars, dbVars, outboxVars,
         histories, historyVars, TypeOK, DatabaseTypeOK, Passed, Settled
<1>8. Listed'
  BY <1>a, <1>b
     DEF ReadGroup, Goto, cacheVars, fenceVars, versionVars, dbVars, outboxVars,
         histories, historyVars, TypeOK, DatabaseTypeOK, Listed, Settled
<1>9. Held'
  <2>1. /\ \A b \in Agents \ {w} : job'[b] = job[b] /\ pc'[b] = pc[b]
        /\ pc'[w] = "lifecycle"
        /\ job'[w].last = job[w].last
        /\ job'[w].batch = job[w].batch /\ job'[w].current = job[w].current
    BY <1>a, <1>b DEF ReadGroup, Goto, TypeOK, AgentTypeOK, Jobs
  <2>2. \A i \in Int : Settled(i) => Settled(i)'
    BY DEF ReadGroup, Settled, dbVars, historyVars, histories
  <2>3. \A i \in 1 .. job'[w].last :
          Settled(i)' \/ \E r \in job'[w].batch \cup job'[w].current : r.id = i
    BY <1>a, <1>b, <2>1, <2>2 DEF Held, TypeOK, AgentTypeOK, Jobs
  <2> QED
    BY <1>a, <1>b, <2>1, <2>2, <2>3, HeldKept DEF Held
<1> QED
  BY <1>1, <1>2, <1>3, <1>4, <1>5, <1>6, <1>7, <1>8, <1>9
     DEF IInv, Covered, TypeOK

\* DecideLifecycle keeps the invariant.
LEMMA DecideLifecycleStep ==
    ASSUME IInv, NEW w \in Workers, DecideLifecycle(w)
    PROVE  IInv'
<1>a. w \in Agents
  BY DEF Agents, Workers
<1>b. TypeOK /\ Numbered /\ Fenced /\ Leased /\ Passed /\ Listed /\ Held
  BY DEF IInv, Covered
<1>1. CacheTypeOK'
  <2>1. CASE ReopenBucket
    BY <1>b, <2>1 DEF ReopenBucket, Epoch, TypeOK, CacheTypeOK
  <2>2. CASE RetireBucket
    BY <1>b, <2>2 DEF RetireBucket, TypeOK, CacheTypeOK
  <2> QED
    BY <2>1, <2>2 DEF DecideLifecycle
<1>2. DatabaseTypeOK'
  BY <1>a, <1>b, SchedulerAssumption, AgentsAssumption
     DEF DecideLifecycle, ReopenBucket, RetireBucket, Epoch, Goto, dbVars,
         outboxVars, historyVars, Jobs, Rows, Kinds, Ids, Pcs, NoTx, NoRow,
         NoSnapshot, Agents, Workers, TypeOK, CacheTypeOK, DatabaseTypeOK,
         AgentTypeOK, Numbered
<1>3. AgentTypeOK'
  BY <1>a, <1>b, SchedulerAssumption, AgentsAssumption
     DEF DecideLifecycle, ReopenBucket, RetireBucket, Epoch, Goto, dbVars,
         outboxVars, historyVars, Jobs, Rows, Kinds, Ids, Pcs, NoTx, NoRow,
         NoSnapshot, Agents, Workers, TypeOK, CacheTypeOK, DatabaseTypeOK,
         AgentTypeOK
<1>4. Numbered'
  BY <1>a, <1>b, SchedulerAssumption
     DEF DecideLifecycle, ReopenBucket, RetireBucket, Epoch, Goto, dbVars,
         outboxVars, historyVars, NoTx, NoSnapshot, TypeOK, DatabaseTypeOK,
         Numbered
<1>5. Fenced'
  BY <1>a, <1>b, SchedulerAssumption, AgentsAssumption
     DEF DecideLifecycle, ReopenBucket, RetireBucket, Epoch, Goto, dbVars,
         outboxVars, historyVars, Jobs, Rows, Kinds, Ids, Pcs, NoTx, NoRow,
         NoSnapshot, Agents, Workers, TypeOK, CacheTypeOK, DatabaseTypeOK,
         AgentTypeOK, Fenced, HasToken
<1>6. Leased'
  BY <1>a, <1>b, AgentsAssumption
     DEF DecideLifecycle, ReopenBucket, RetireBucket, Epoch, Goto, dbVars,
         outboxVars, historyVars, NoSnapshot, Agents, Workers, LeasePcs, TypeOK,
         AgentTypeOK, Leased
<1>7. Passed'
  BY <1>a, <1>b
     DEF DecideLifecycle, ReopenBucket, RetireBucket, Epoch, Goto, dbVars,
         outboxVars, historyVars, NoSnapshot, TypeOK, DatabaseTypeOK, Passed,
         Settled
<1>8. Listed'
  BY <1>a, <1>b
     DEF DecideLifecycle, ReopenBucket, RetireBucket, Epoch, Goto, dbVars,
         outboxVars, historyVars, NoSnapshot, TypeOK, DatabaseTypeOK, Listed,
         Settled
<1>9. Held'
  <2>1. /\ \A b \in Agents \ {w} : job'[b] = job[b] /\ pc'[b] = pc[b]
        /\ pc'[w] = "release"
    BY <1>a, <1>b DEF DecideLifecycle, Goto, TypeOK, AgentTypeOK
  <2>2. /\ job'[w].batch = job[w].batch /\ job'[w].current = job[w].current
        /\ job'[w].last = job[w].last
    BY <1>a, <1>b DEF DecideLifecycle, TypeOK, AgentTypeOK, Jobs
  <2>3. \A i \in Int : Settled(i) <=> Settled(i)'
    BY DEF DecideLifecycle, dbVars, historyVars, Settled
  <2>4. \A i \in 1 .. job'[w].last :
           Settled(i)' \/ \E r \in job'[w].batch \cup job'[w].current : r.id = i
    BY <1>a, <1>b, <2>2, <2>3 DEF Held
  <2> QED
    BY <1>a, <1>b, <2>1, <2>3, <2>4, HeldKept
<1> QED
  BY <1>1, <1>2, <1>3, <1>4, <1>5, <1>6, <1>7, <1>8, <1>9
     DEF IInv, Covered, TypeOK

\* ReleaseLease keeps the invariant.
LEMMA ReleaseLeaseStep ==
    ASSUME IInv, NEW w \in Workers, ReleaseLease(w)
    PROVE  IInv'
<1>a. w \in Agents
  BY DEF Agents, Workers
<1>b. TypeOK /\ Numbered /\ Fenced /\ Leased /\ Passed /\ Listed /\ Held
  BY DEF IInv, Covered
<1>f. Finish(w) => FinishResult(w)
  BY <1>a, FinishFacts DEF IInv
<1>i. Idle(w) => IdleResult(w)
  BY <1>a, IdleFacts DEF IInv
<1>1. CacheTypeOK'
  BY <1>a, <1>f, <1>i, <1>b, SchedulerAssumption
     DEF ReleaseLease, ReleaseGroupLifecycleLease, Goto, FinishResult,
         IdleResult, fenceVars, versionVars, dbVars, outboxVars, historyVars,
         Jobs, Rows, Kinds, Ids, Pcs, NoSnapshot, Agents, Workers, TypeOK,
         CacheTypeOK
<1>2. DatabaseTypeOK'
  BY <1>a, <1>f, <1>i, <1>b, SchedulerAssumption
     DEF ReleaseLease, ReleaseGroupLifecycleLease, Goto, FinishResult,
         IdleResult, fenceVars, versionVars, dbVars, outboxVars, historyVars,
         Jobs, Rows, Kinds, Ids, Pcs, NoTx, NoRow, Agents, Workers, TypeOK,
         DatabaseTypeOK
<1>3. AgentTypeOK'
  BY <1>a, <1>f, <1>i, <1>b, SchedulerAssumption
     DEF ReleaseLease, ReleaseGroupLifecycleLease, Goto, FinishResult,
         IdleResult, fenceVars, versionVars, dbVars, outboxVars, historyVars,
         Jobs, Rows, Kinds, Ids, Pcs, Agents, Workers, TypeOK, AgentTypeOK
<1>4. Numbered'
  BY <1>a, <1>f, <1>i, <1>b, SchedulerAssumption
     DEF ReleaseLease, ReleaseGroupLifecycleLease, Goto, FinishResult,
         IdleResult, fenceVars, versionVars, dbVars, outboxVars, historyVars,
         Jobs, Rows, Kinds, Ids, Pcs, NoTx, Agents, Workers, TypeOK,
         DatabaseTypeOK, Numbered
<1>5. Fenced'
  BY <1>a, <1>f, <1>i, <1>b, SchedulerAssumption
     DEF ReleaseLease, ReleaseGroupLifecycleLease, Goto, FinishResult,
         IdleResult, fenceVars, versionVars, dbVars, outboxVars, historyVars,
         Jobs, Rows, Kinds, Ids, Pcs, NoSnapshot, Agents, Workers, TypeOK,
         CacheTypeOK, AgentTypeOK, Fenced, HasToken
<1>6. Leased'
  BY <1>a, <1>f, <1>i, <1>b, AgentsAssumption
     DEF ReleaseLease, ReleaseGroupLifecycleLease, Goto, FinishResult,
         IdleResult, fenceVars, versionVars, dbVars, outboxVars, historyVars,
         Jobs, Rows, Kinds, Ids, Pcs, Agents, Workers, LeasePcs, TypeOK,
         AgentTypeOK, Leased
<1>7. Passed'
  BY <1>a, <1>f, <1>i, <1>b
     DEF ReleaseLease, ReleaseGroupLifecycleLease, Goto, FinishResult,
         IdleResult, fenceVars, versionVars, dbVars, outboxVars, historyVars,
         Jobs, Rows, Kinds, Ids, Pcs, Agents, Workers, TypeOK, DatabaseTypeOK,
         Passed, Settled
<1>8. Listed'
  BY <1>a, <1>f, <1>i, <1>b
     DEF ReleaseLease, ReleaseGroupLifecycleLease, Goto, FinishResult,
         IdleResult, fenceVars, versionVars, dbVars, outboxVars, historyVars,
         Jobs, Rows, Kinds, Ids, Pcs, Agents, Workers, TypeOK, DatabaseTypeOK,
         Listed, Settled
<1>9. Held'
  <2>1. CASE Finish(w)
    <3>1. \A i \in Int : Settled(i) => Settled(i)'
      BY <1>f, <2>1 DEF FinishResult, Settled, ReleaseLease, dbVars
    <3>2. \A i \in 1 .. job'[w].last :
            Settled(i)' \/ \E r \in job'[w].batch \cup job'[w].current : r.id = i
      <4> SUFFICES ASSUME NEW i \in 1 .. job'[w].last
                   PROVE  Settled(i)' \/ \E r \in job'[w].batch : r.id = i
        OBVIOUS
      <4>1. job'[w].last = job[w].last /\ job'[w].batch = job[w].batch
        BY <1>f, <2>1 DEF FinishResult
      <4>2. Settled(i) \/ \E r \in job[w].batch \cup job[w].current : r.id = i
        BY <1>a, <1>b, <4>1 DEF Held
      <4>3. (\E r \in job[w].current : r.id = i) => Settled(i)'
        BY <1>f, <2>1 DEF FinishResult, Settled
      <4> QED
        BY <3>1, <4>1, <4>2, <4>3
    <3> QED
      BY <1>a, <1>b, <1>f, <2>1, <3>1, <3>2, HeldKept DEF FinishResult
  <2>2. CASE Idle(w) /\ UNCHANGED historyVars
    <3>1. \A i \in Int : Settled(i) => Settled(i)'
      BY <2>2 DEF ReleaseLease, Settled, dbVars, historyVars
    <3> QED
      BY <1>a, <1>b, <1>i, <2>2, <3>1, HeldKept DEF IdleResult
  <2>3. CASE /\ Goto(w, "lock")
             /\ job' = [job EXCEPT ![w].group = 0, ![w].alive = FALSE]
             /\ UNCHANGED historyVars
    <3>1. /\ \A b \in Agents \ {w} : job'[b] = job[b] /\ pc'[b] = pc[b]
          /\ pc'[w] = "lock"
          /\ job'[w].last = job[w].last
          /\ job'[w].batch = job[w].batch /\ job'[w].current = job[w].current
      BY <1>a, <1>b, <2>3 DEF Goto, TypeOK, AgentTypeOK, Jobs
    <3>2. \A i \in Int : Settled(i) => Settled(i)'
      BY <2>3 DEF ReleaseLease, Settled, dbVars, historyVars
    <3>3. \A i \in 1 .. job'[w].last :
            Settled(i)' \/ \E r \in job'[w].batch \cup job'[w].current : r.id = i
      BY <1>a, <1>b, <3>1, <3>2 DEF Held
    <3> QED
      BY <1>a, <1>b, <3>1, <3>2, <3>3, HeldKept
  <2> QED
    BY <2>1, <2>2, <2>3 DEF ReleaseLease
<1> QED
  BY <1>1, <1>2, <1>3, <1>4, <1>5, <1>6, <1>7, <1>8, <1>9
     DEF IInv, Covered, TypeOK

\* ListActiveGroups keeps the invariant.
LEMMA ListActiveGroupsStep ==
    ASSUME IInv, NEW w \in Workers, ListActiveGroups(w)
    PROVE  IInv'
<1>a. w \in Agents
  BY DEF Agents, Workers
<1>b. TypeOK /\ Numbered /\ Fenced /\ Leased /\ Passed /\ Listed /\ Held
  BY DEF IInv, Covered
<1>i. Idle(w) => IdleResult(w)
  BY <1>a, IdleFacts DEF IInv
<1>1. CacheTypeOK'
  BY <1>a, <1>i, <1>b, SchedulerAssumption
     DEF ListActiveGroups, Goto, IdleResult, cacheVars, fenceVars, versionVars,
         dbVars, outboxVars, histories, historyVars, Jobs, Rows, Kinds, Ids,
         Pcs, NoSnapshot, Agents, Workers, TypeOK, CacheTypeOK
<1>2. DatabaseTypeOK'
  BY <1>a, <1>i, <1>b, SchedulerAssumption
     DEF ListActiveGroups, Goto, IdleResult, cacheVars, fenceVars, versionVars,
         dbVars, outboxVars, histories, historyVars, Jobs, Rows, Kinds, Ids,
         Pcs, NoTx, NoRow, Agents, Workers, TypeOK, DatabaseTypeOK
<1>3. AgentTypeOK'
  <2>1. CASE Idle(w)
    BY <1>b, <1>i, <2>1 DEF ListActiveGroups, TypeOK, AgentTypeOK, IdleResult
  <2>2. CASE ~Idle(w)
    <3>1. job[w] \in Jobs
      BY <1>a, <1>b DEF TypeOK, AgentTypeOK
    <3>2. [job[w] EXCEPT !.registered = FALSE] \in Jobs
      BY <3>1 DEF Jobs
    <3>3. /\ job' = [job EXCEPT ![w] = [job[w] EXCEPT !.registered = FALSE]]
          /\ pc' = [pc EXCEPT ![w] = IF alive THEN "capture" ELSE "lease"]
          /\ faults' = faults
      BY <2>2 DEF ListActiveGroups, Goto
    <3> QED
      BY <1>a, <1>b, <3>2, <3>3 DEF TypeOK, AgentTypeOK, Pcs
  <2> QED
    BY <2>1, <2>2
<1>4. Numbered'
  BY <1>a, <1>i, <1>b, SchedulerAssumption
     DEF ListActiveGroups, Goto, IdleResult, cacheVars, fenceVars, versionVars,
         dbVars, outboxVars, histories, historyVars, Jobs, Rows, Kinds, Ids,
         Pcs, NoTx, Agents, Workers, TypeOK, DatabaseTypeOK, Numbered
<1>5. Fenced'
  BY <1>a, <1>i, <1>b, SchedulerAssumption
     DEF ListActiveGroups, Goto, IdleResult, cacheVars, fenceVars, versionVars,
         dbVars, outboxVars, histories, historyVars, Jobs, Rows, Kinds, Ids,
         Pcs, NoSnapshot, Agents, Workers, TypeOK, CacheTypeOK, AgentTypeOK,
         Fenced, HasToken
<1>6. Leased'
  BY <1>a, <1>i, <1>b, AgentsAssumption
     DEF ListActiveGroups, Goto, IdleResult, cacheVars, fenceVars, versionVars,
         dbVars, outboxVars, histories, historyVars, Jobs, Rows, Kinds, Ids,
         Pcs, Agents, Workers, LeasePcs, TypeOK, AgentTypeOK, Leased
<1>7. Passed'
  BY <1>a, <1>i, <1>b
     DEF ListActiveGroups, Goto, IdleResult, cacheVars, fenceVars, versionVars,
         dbVars, outboxVars, histories, historyVars, Jobs, Rows, Kinds, Ids,
         Pcs, Agents, Workers, TypeOK, DatabaseTypeOK, Passed, Settled
<1>8. Listed'
  BY <1>a, <1>i, <1>b
     DEF ListActiveGroups, Goto, IdleResult, cacheVars, fenceVars, versionVars,
         dbVars, outboxVars, histories, historyVars, Jobs, Rows, Kinds, Ids,
         Pcs, Agents, Workers, TypeOK, DatabaseTypeOK, Listed, Settled
<1>9. Held'
  <2>1. \A i \in Int : Settled(i) => Settled(i)'
    BY DEF ListActiveGroups, Settled, dbVars, historyVars, histories
  <2>2. CASE Idle(w)
    BY <1>a, <1>b, <1>i, <2>1, <2>2, HeldKept DEF IdleResult
  <2>3. CASE ~Idle(w)
    <3>1. /\ \A b \in Agents \ {w} : job'[b] = job[b] /\ pc'[b] = pc[b]
          /\ pc'[w] \in {"capture", "lease"}
          /\ job'[w].last = job[w].last
          /\ job'[w].batch = job[w].batch /\ job'[w].current = job[w].current
      BY <1>a, <1>b, <2>3 DEF ListActiveGroups, Goto, TypeOK, AgentTypeOK, Jobs
    <3>2. \A i \in 1 .. job'[w].last :
            Settled(i)' \/ \E r \in job'[w].batch \cup job'[w].current : r.id = i
      BY <1>a, <1>b, <2>1, <3>1 DEF Held
    <3> QED
      BY <1>a, <1>b, <2>1, <3>1, <3>2, HeldKept
  <2> QED
    BY <2>2, <2>3
<1> QED
  BY <1>1, <1>2, <1>3, <1>4, <1>5, <1>6, <1>7, <1>8, <1>9
     DEF IInv, Covered, TypeOK

\* MissSnapshot keeps the invariant.
LEMMA MissSnapshotStep ==
    ASSUME IInv, NEW a \in Agents, MissSnapshot(a)
    PROVE  IInv'
<1>b. TypeOK /\ Numbered /\ Fenced /\ Leased /\ Passed /\ Listed /\ Held
  BY DEF IInv, Covered
<1>1. CacheTypeOK'
  BY <1>b, SchedulerAssumption
     DEF MissSnapshot, Begin, NoFault, Goto, cacheVars, fenceVars, versionVars,
         dbVars, outboxVars, histories, historyVars, NoSnapshot, Agents,
         Workers, TypeOK, CacheTypeOK
<1>2. DatabaseTypeOK'
  BY <1>b, SchedulerAssumption
     DEF MissSnapshot, Begin, NoFault, Goto, cacheVars, fenceVars, versionVars,
         dbVars, outboxVars, histories, historyVars, Rows, Kinds, Ids, NoTx,
         NoRow, NoSnapshot, Agents, Workers, TypeOK, DatabaseTypeOK
<1>3. AgentTypeOK'
  BY <1>b, SchedulerAssumption
     DEF MissSnapshot, Begin, NoFault, Goto, cacheVars, fenceVars, versionVars,
         dbVars, outboxVars, histories, historyVars, Jobs, Rows, Kinds, Ids,
         Pcs, NoSnapshot, Agents, Workers, TypeOK, AgentTypeOK
<1>4. Numbered'
  BY <1>b, SchedulerAssumption
     DEF MissSnapshot, Begin, NoFault, Goto, cacheVars, fenceVars, versionVars,
         dbVars, outboxVars, histories, historyVars, NoTx, NoSnapshot, Agents,
         Workers, TypeOK, DatabaseTypeOK, Numbered
<1>5. Fenced'
  BY <1>b, SchedulerAssumption
     DEF MissSnapshot, Begin, NoFault, Goto, cacheVars, fenceVars, versionVars,
         dbVars, outboxVars, histories, historyVars, NoSnapshot, Agents,
         Workers, TypeOK, CacheTypeOK, AgentTypeOK, Fenced, HasToken
<1>6. Leased'
  BY <1>b, AgentsAssumption
     DEF MissSnapshot, Begin, NoFault, Goto, cacheVars, fenceVars, versionVars,
         dbVars, outboxVars, histories, historyVars, NoSnapshot, Agents,
         Workers, LeasePcs, TypeOK, AgentTypeOK, Leased
<1>7. Passed'
  BY <1>b
     DEF MissSnapshot, Begin, NoFault, Goto, cacheVars, fenceVars, versionVars,
         dbVars, outboxVars, histories, historyVars, NoSnapshot, Agents,
         Workers, TypeOK, DatabaseTypeOK, Passed, Settled
<1>8. Listed'
  BY <1>b
     DEF MissSnapshot, Begin, NoFault, Goto, cacheVars, fenceVars, versionVars,
         dbVars, outboxVars, histories, historyVars, NoSnapshot, Agents,
         Workers, TypeOK, DatabaseTypeOK, Listed, Settled
<1>9. Held'
  BY <1>b
     DEF MissSnapshot, Begin, NoFault, Goto, cacheVars, fenceVars, versionVars,
         dbVars, outboxVars, histories, historyVars, NoSnapshot, Agents,
         Workers, TypeOK, AgentTypeOK, Held, Settled
<1> QED
  BY <1>1, <1>2, <1>3, <1>4, <1>5, <1>6, <1>7, <1>8, <1>9
     DEF IInv, Covered, TypeOK

\* CaptureToken keeps the invariant.
LEMMA CaptureTokenStep ==
    ASSUME IInv, NEW a \in Agents, CaptureToken(a)
    PROVE  IInv'
<1>b. TypeOK /\ Numbered /\ Fenced /\ Leased /\ Passed /\ Listed /\ Held
  BY DEF IInv, Covered
<1>f. Finish(a) => FinishResult(a)
  BY FinishFacts DEF IInv
<1>1. CacheTypeOK'
  BY <1>f, <1>b, SchedulerAssumption
     DEF CaptureToken, CaptureBucketWriteToken, Epoch, Goto, FinishResult,
         cacheVars, fenceVars, versionVars, dbVars, outboxVars, historyVars,
         Jobs, Rows, Kinds, Ids, Pcs, NoSnapshot, Agents, Workers, TypeOK,
         CacheTypeOK
<1>2. DatabaseTypeOK'
  BY <1>f, <1>b, SchedulerAssumption
     DEF CaptureToken, CaptureBucketWriteToken, Epoch, Goto, FinishResult,
         cacheVars, fenceVars, versionVars, dbVars, outboxVars, historyVars,
         Jobs, Rows, Kinds, Ids, Pcs, NoTx, NoRow, Agents, Workers, TypeOK,
         DatabaseTypeOK
<1>3. AgentTypeOK'
  BY <1>f, <1>b, SchedulerAssumption, AgentsAssumption
     DEF CaptureToken, CaptureBucketWriteToken, Epoch, Goto, FinishResult,
         cacheVars, fenceVars, versionVars, dbVars, outboxVars, historyVars,
         Jobs, Rows, Kinds, Ids, Pcs, NoTx, NoRow, NoSnapshot, Agents, Workers,
         TypeOK, CacheTypeOK, DatabaseTypeOK, AgentTypeOK
<1>4. Numbered'
  BY <1>f, <1>b, SchedulerAssumption
     DEF CaptureToken, CaptureBucketWriteToken, Epoch, Goto, FinishResult,
         cacheVars, fenceVars, versionVars, dbVars, outboxVars, historyVars,
         Jobs, Rows, Kinds, Ids, Pcs, NoTx, Agents, Workers, TypeOK,
         DatabaseTypeOK, Numbered
<1>5. Fenced'
  BY <1>f, <1>b, SchedulerAssumption
     DEF CaptureToken, CaptureBucketWriteToken, Epoch, Goto, FinishResult,
         cacheVars, fenceVars, versionVars, dbVars, outboxVars, historyVars,
         Jobs, Rows, Kinds, Ids, Pcs, NoSnapshot, Agents, Workers, TypeOK,
         CacheTypeOK, AgentTypeOK, Fenced, HasToken
<1>6. Leased'
  BY <1>f, <1>b, AgentsAssumption
     DEF CaptureToken, CaptureBucketWriteToken, Epoch, Goto, FinishResult,
         cacheVars, fenceVars, versionVars, dbVars, outboxVars, historyVars,
         Jobs, Rows, Kinds, Ids, Pcs, Agents, Workers, LeasePcs, TypeOK,
         AgentTypeOK, Leased
<1>7. Passed'
  BY <1>f, <1>b
     DEF CaptureToken, CaptureBucketWriteToken, Epoch, Goto, FinishResult,
         cacheVars, fenceVars, versionVars, dbVars, outboxVars, historyVars,
         Jobs, Rows, Kinds, Ids, Pcs, Agents, Workers, TypeOK, DatabaseTypeOK,
         Passed, Settled
<1>8. Listed'
  BY <1>f, <1>b
     DEF CaptureToken, CaptureBucketWriteToken, Epoch, Goto, FinishResult,
         cacheVars, fenceVars, versionVars, dbVars, outboxVars, historyVars,
         Jobs, Rows, Kinds, Ids, Pcs, Agents, Workers, TypeOK, DatabaseTypeOK,
         Listed, Settled
<1>9. Held'
  <2>1. CASE Finish(a)
    <3>1. \A i \in Int : Settled(i) => Settled(i)'
      BY <1>f, <2>1 DEF FinishResult, Settled, CaptureToken, dbVars
    <3>2. \A i \in 1 .. job'[a].last :
            Settled(i)' \/ \E r \in job'[a].batch \cup job'[a].current : r.id = i
      <4> SUFFICES ASSUME NEW i \in 1 .. job'[a].last
                   PROVE  Settled(i)' \/ \E r \in job'[a].batch : r.id = i
        OBVIOUS
      <4>1. job'[a].last = job[a].last /\ job'[a].batch = job[a].batch
        BY <1>f, <2>1 DEF FinishResult
      <4>2. Settled(i) \/ \E r \in job[a].batch \cup job[a].current : r.id = i
        BY <1>b, <4>1 DEF Held
      <4>3. (\E r \in job[a].current : r.id = i) => Settled(i)'
        BY <1>f, <2>1 DEF FinishResult, Settled
      <4> QED
        BY <3>1, <4>1, <4>2, <4>3
    <3> QED
      BY <1>b, <1>f, <2>1, <3>1, <3>2, HeldKept DEF FinishResult
  <2>2. CASE ~Finish(a)
    <3>1. /\ \A b \in Agents \ {a} : job'[b] = job[b] /\ pc'[b] = pc[b]
          /\ pc'[a] \in {"load", "lock", "lease"}
          /\ job'[a].last = job[a].last
          /\ job'[a].batch = job[a].batch /\ job'[a].current = job[a].current
      BY <1>b, <2>2 DEF CaptureToken, Goto, TypeOK, AgentTypeOK, Jobs
    <3>2. \A i \in Int : Settled(i) => Settled(i)'
      BY <2>2 DEF CaptureToken, Settled, dbVars, historyVars
    <3>3. \A i \in 1 .. job'[a].last :
            Settled(i)' \/ \E r \in job'[a].batch \cup job'[a].current : r.id = i
      BY <1>b, <3>1, <3>2 DEF Held
    <3> QED
      BY <1>b, <3>1, <3>2, <3>3, HeldKept
  <2> QED
    BY <2>1, <2>2
<1> QED
  BY <1>1, <1>2, <1>3, <1>4, <1>5, <1>6, <1>7, <1>8, <1>9
     DEF IInv, Covered, TypeOK

\* LockBucket keeps the invariant.
LEMMA LockBucketStep ==
    ASSUME IInv, NEW w \in Workers, LockBucket(w)
    PROVE  IInv'
<1>a. w \in Agents
  BY DEF Agents, Workers
<1>b. TypeOK /\ Numbered /\ Fenced /\ Leased /\ Passed /\ Listed /\ Held
  BY DEF IInv, Covered
<1>f. Finish(w) => FinishResult(w)
  BY <1>a, FinishFacts DEF IInv
<1>i. Idle(w) => IdleResult(w)
  BY <1>a, IdleFacts DEF IInv
<1>1. CacheTypeOK'
  BY <1>a, <1>f, <1>i, <1>b, SchedulerAssumption
     DEF LockBucket, TryLockBucket, Goto, FinishResult, IdleResult, cacheVars,
         fenceVars, versionVars, dbVars, outboxVars, historyVars, Jobs, Rows,
         Kinds, Ids, Pcs, NoSnapshot, Agents, Workers, TypeOK, CacheTypeOK
<1>2. DatabaseTypeOK'
  BY <1>a, <1>f, <1>i, <1>b, SchedulerAssumption
     DEF LockBucket, TryLockBucket, Goto, FinishResult, IdleResult, cacheVars,
         fenceVars, versionVars, dbVars, outboxVars, historyVars, Jobs, Rows,
         Kinds, Ids, Pcs, NoTx, NoRow, Agents, Workers, TypeOK, DatabaseTypeOK
<1>3. AgentTypeOK'
  BY <1>a, <1>f, <1>i, <1>b, SchedulerAssumption
     DEF LockBucket, TryLockBucket, Goto, FinishResult, IdleResult, cacheVars,
         fenceVars, versionVars, dbVars, outboxVars, historyVars, Jobs, Rows,
         Kinds, Ids, Pcs, Agents, Workers, TypeOK, AgentTypeOK
<1>4. Numbered'
  BY <1>a, <1>f, <1>i, <1>b, SchedulerAssumption
     DEF LockBucket, TryLockBucket, Goto, FinishResult, IdleResult, cacheVars,
         fenceVars, versionVars, dbVars, outboxVars, historyVars, Jobs, Rows,
         Kinds, Ids, Pcs, NoTx, Agents, Workers, TypeOK, DatabaseTypeOK,
         Numbered
<1>5. Fenced'
  BY <1>a, <1>f, <1>i, <1>b, SchedulerAssumption
     DEF LockBucket, TryLockBucket, Goto, FinishResult, IdleResult, cacheVars,
         fenceVars, versionVars, dbVars, outboxVars, historyVars, Jobs, Rows,
         Kinds, Ids, Pcs, NoSnapshot, Agents, Workers, TypeOK, CacheTypeOK,
         AgentTypeOK, Fenced, HasToken
<1>6. Leased'
  BY <1>a, <1>f, <1>i, <1>b, AgentsAssumption
     DEF LockBucket, TryLockBucket, Goto, FinishResult, IdleResult, cacheVars,
         fenceVars, versionVars, dbVars, outboxVars, historyVars, Jobs, Rows,
         Kinds, Ids, Pcs, Agents, Workers, LeasePcs, TypeOK, AgentTypeOK, Leased
<1>7. Passed'
  BY <1>a, <1>f, <1>i, <1>b
     DEF LockBucket, TryLockBucket, Goto, FinishResult, IdleResult, cacheVars,
         fenceVars, versionVars, dbVars, outboxVars, historyVars, Jobs, Rows,
         Kinds, Ids, Pcs, Agents, Workers, TypeOK, DatabaseTypeOK, Passed,
         Settled
<1>8. Listed'
  BY <1>a, <1>f, <1>i, <1>b
     DEF LockBucket, TryLockBucket, Goto, FinishResult, IdleResult, cacheVars,
         fenceVars, versionVars, dbVars, outboxVars, historyVars, Jobs, Rows,
         Kinds, Ids, Pcs, Agents, Workers, TypeOK, DatabaseTypeOK, Listed,
         Settled
<1>9. Held'
  BY <1>a, <1>f, <1>i, <1>b
     DEF LockBucket, TryLockBucket, Goto, FinishResult, IdleResult, cacheVars,
         fenceVars, versionVars, dbVars, outboxVars, historyVars, Jobs, Rows,
         Kinds, Ids, Pcs, Agents, Workers, TypeOK, AgentTypeOK, Held, Settled
<1> QED
  BY <1>1, <1>2, <1>3, <1>4, <1>5, <1>6, <1>7, <1>8, <1>9
     DEF IInv, Covered, TypeOK

\* LoadAccounts keeps the invariant.
LEMMA LoadAccountsStep ==
    ASSUME IInv, NEW a \in Agents, LoadAccounts(a)
    PROVE  IInv'
<1>b. TypeOK /\ Numbered /\ Fenced /\ Leased /\ Passed /\ Listed /\ Held
  BY DEF IInv, Covered
<1>1. CacheTypeOK'
  BY <1>b, SchedulerAssumption
     DEF LoadAccounts, Goto, cacheVars, fenceVars, versionVars, dbVars,
         outboxVars, histories, historyVars, NoSnapshot, Agents, Workers,
         TypeOK, CacheTypeOK
<1>2. DatabaseTypeOK'
  BY <1>b, SchedulerAssumption
     DEF LoadAccounts, Goto, cacheVars, fenceVars, versionVars, dbVars,
         outboxVars, histories, historyVars, Rows, Kinds, Ids, NoTx, NoRow,
         TypeOK, DatabaseTypeOK
<1>3. AgentTypeOK'
  <2>1. job[a] \in Jobs /\ rev \in 0 .. MaxAccountChanges
    BY <1>b DEF TypeOK, AgentTypeOK, DatabaseTypeOK
  <2>2. [job[a] EXCEPT !.data = rev] \in Jobs
    BY <2>1 DEF Jobs
  <2>3. /\ job' = [job EXCEPT ![a] = [job[a] EXCEPT !.data = rev]]
        /\ pc' = [pc EXCEPT ![a] = "write"]
        /\ faults' = faults
    BY DEF LoadAccounts, Goto
  <2> QED
    BY <1>b, <2>2, <2>3 DEF TypeOK, AgentTypeOK, Pcs
<1>4. Numbered'
  BY <1>b, SchedulerAssumption
     DEF LoadAccounts, Goto, cacheVars, fenceVars, versionVars, dbVars,
         outboxVars, histories, historyVars, NoTx, TypeOK, DatabaseTypeOK,
         Numbered
<1>5. Fenced'
  BY <1>b, SchedulerAssumption
     DEF LoadAccounts, Goto, cacheVars, fenceVars, versionVars, dbVars,
         outboxVars, histories, historyVars, NoSnapshot, Agents, Workers,
         TypeOK, CacheTypeOK, AgentTypeOK, Fenced, HasToken
<1>6. Leased'
  BY <1>b, AgentsAssumption
     DEF LoadAccounts, Goto, cacheVars, fenceVars, versionVars, dbVars,
         outboxVars, histories, historyVars, Agents, Workers, LeasePcs, TypeOK,
         AgentTypeOK, Leased
<1>7. Passed'
  BY <1>b
     DEF LoadAccounts, Goto, cacheVars, fenceVars, versionVars, dbVars,
         outboxVars, histories, historyVars, TypeOK, DatabaseTypeOK, Passed,
         Settled
<1>8. Listed'
  BY <1>b
     DEF LoadAccounts, Goto, cacheVars, fenceVars, versionVars, dbVars,
         outboxVars, histories, historyVars, TypeOK, DatabaseTypeOK, Listed,
         Settled
<1>9. Held'
  BY <1>b
     DEF LoadAccounts, Goto, cacheVars, fenceVars, versionVars, dbVars,
         outboxVars, histories, historyVars, Agents, Workers, TypeOK,
         AgentTypeOK, Held, Settled
<1> QED
  BY <1>1, <1>2, <1>3, <1>4, <1>5, <1>6, <1>7, <1>8, <1>9
     DEF IInv, Covered, TypeOK

\* WriteSnapshotVersion keeps the invariant.
LEMMA WriteSnapshotVersionStep ==
    ASSUME IInv, NEW a \in Agents, WriteSnapshotVersion(a)
    PROVE  IInv'
<1>b. TypeOK /\ Numbered /\ Fenced /\ Leased /\ Passed /\ Listed /\ Held
  BY DEF IInv, Covered
<1>f. Finish(a) => FinishResult(a)
  BY FinishFacts DEF IInv
<1>i. Idle(a) => IdleResult(a)
  BY IdleFacts DEF IInv
<1>1. CacheTypeOK'
  <2>1. CASE AllocateSnapshotVersion(a)
    BY <1>b, <2>1 DEF AllocateSnapshotVersion, fenceVars, TypeOK, CacheTypeOK
  <2>2. CASE UnlockBucket
    BY <1>b, <2>2 DEF UnlockBucket, fenceVars, versionVars, TypeOK, CacheTypeOK
  <2>3. CASE UNCHANGED cacheVars
    BY <1>b, <2>3 DEF cacheVars, fenceVars, versionVars, TypeOK, CacheTypeOK
  <2> QED
    BY <2>1, <2>2, <2>3 DEF WriteSnapshotVersion, LeaveFenced
<1>2. DatabaseTypeOK'
  BY <1>f, <1>i, <1>b, SchedulerAssumption
     DEF WriteSnapshotVersion, Writable, AllocateSnapshotVersion,
         LeaveFenced, UnlockBucket, Goto, FinishResult, IdleResult, cacheVars, fenceVars,
         versionVars, dbVars, outboxVars, historyVars, Jobs, Rows, Kinds, Ids,
         Pcs, NoTx, NoRow, Agents, Workers, TypeOK, DatabaseTypeOK
<1>3. AgentTypeOK'
  BY <1>f, <1>i, <1>b, SchedulerAssumption
     DEF WriteSnapshotVersion, Writable, AllocateSnapshotVersion,
         LeaveFenced, UnlockBucket, Goto, FinishResult, IdleResult, cacheVars, fenceVars,
         versionVars, dbVars, outboxVars, historyVars, Jobs, Rows, Kinds, Ids,
         Pcs, Agents, Workers, TypeOK, AgentTypeOK
<1>4. Numbered'
  BY <1>f, <1>i, <1>b, SchedulerAssumption
     DEF WriteSnapshotVersion, Writable, AllocateSnapshotVersion,
         LeaveFenced, UnlockBucket, Goto, FinishResult, IdleResult, cacheVars, fenceVars,
         versionVars, dbVars, outboxVars, historyVars, Jobs, Rows, Kinds, Ids,
         Pcs, NoTx, Agents, Workers, TypeOK, DatabaseTypeOK, Numbered
<1>5. Fenced'
  BY <1>f, <1>i, <1>b, SchedulerAssumption
     DEF WriteSnapshotVersion, Writable, AllocateSnapshotVersion,
         LeaveFenced, UnlockBucket, Goto, FinishResult, IdleResult, cacheVars, fenceVars,
         versionVars, dbVars, outboxVars, historyVars, Jobs, Rows, Kinds, Ids,
         Pcs, NoSnapshot, Agents, Workers, TypeOK, CacheTypeOK, AgentTypeOK,
         Fenced, HasToken
<1>6. Leased'
  BY <1>f, <1>i, <1>b, AgentsAssumption
     DEF WriteSnapshotVersion, Writable, AllocateSnapshotVersion,
         LeaveFenced, UnlockBucket, Goto, FinishResult, IdleResult, cacheVars, fenceVars,
         versionVars, dbVars, outboxVars, historyVars, Jobs, Rows, Kinds, Ids,
         Pcs, Agents, Workers, LeasePcs, TypeOK, AgentTypeOK, Leased
<1>7. Passed'
  BY <1>f, <1>i, <1>b
     DEF WriteSnapshotVersion, Writable, AllocateSnapshotVersion,
         LeaveFenced, UnlockBucket, Goto, FinishResult, IdleResult, cacheVars, fenceVars,
         versionVars, dbVars, outboxVars, historyVars, Jobs, Rows, Kinds, Ids,
         Pcs, Agents, Workers, TypeOK, DatabaseTypeOK, Passed, Settled
<1>8. Listed'
  BY <1>f, <1>i, <1>b
     DEF WriteSnapshotVersion, Writable, AllocateSnapshotVersion,
         LeaveFenced, UnlockBucket, Goto, FinishResult, IdleResult, cacheVars, fenceVars,
         versionVars, dbVars, outboxVars, historyVars, Jobs, Rows, Kinds, Ids,
         Pcs, Agents, Workers, TypeOK, DatabaseTypeOK, Listed, Settled
<1>9. Held'
  BY <1>f, <1>i, <1>b
     DEF WriteSnapshotVersion, Writable, AllocateSnapshotVersion,
         LeaveFenced, UnlockBucket, Goto, FinishResult, IdleResult, cacheVars, fenceVars,
         versionVars, dbVars, outboxVars, historyVars, Jobs, Rows, Kinds, Ids,
         Pcs, Agents, Workers, TypeOK, AgentTypeOK, Held, Settled
<1> QED
  BY <1>1, <1>2, <1>3, <1>4, <1>5, <1>6, <1>7, <1>8, <1>9
     DEF IInv, Covered, TypeOK

\* WriteSnapshotAccounts keeps the invariant.
LEMMA WriteSnapshotAccountsStep ==
    ASSUME IInv, NEW a \in Agents, WriteSnapshotAccounts(a)
    PROVE  IInv'
<1>b. TypeOK /\ Numbered /\ Fenced /\ Leased /\ Passed /\ Listed /\ Held
  BY DEF IInv, Covered
<1>c. /\ UNCHANGED <<fenceVars, versionVars, locked, lease>>
      /\ accounts' = accounts \/ accounts' = job[a].data
  BY DEF WriteSnapshotAccounts, FillSnapshotVersion, WriteAccounts, cacheVars
<1>d. /\ UNCHANGED <<dbVars, outboxVars, watermark, job, faults, histories>>
      /\ pc[a] = "fill"
      /\ pc' = [pc EXCEPT ![a] = "activate"]
  BY DEF WriteSnapshotAccounts, Goto
<1>1. CacheTypeOK'
  <2>1. job[a].data \in 0 .. MaxAccountChanges
    BY <1>b DEF TypeOK, AgentTypeOK, Jobs
  <2> QED
    BY <1>b, <1>c, <2>1 DEF fenceVars, versionVars, TypeOK, CacheTypeOK
<1>2. DatabaseTypeOK'
  BY <1>b, <1>d
     DEF dbVars, outboxVars, histories, historyVars, TypeOK, DatabaseTypeOK
<1>3. AgentTypeOK'
  BY <1>b, <1>d DEF Pcs, TypeOK, AgentTypeOK
<1>4. Numbered'
  BY <1>b, <1>d DEF dbVars, outboxVars, Numbered
<1>5. Fenced'
  BY <1>b, <1>c, <1>d
     DEF fenceVars, versionVars, TypeOK, AgentTypeOK, Fenced, HasToken
<1>6. Leased'
  BY <1>b, <1>c, <1>d
     DEF dbVars, histories, LeasePcs, TypeOK, AgentTypeOK, Leased
<1>7. Passed' /\ Listed'
  BY <1>b, <1>d
     DEF dbVars, outboxVars, histories, historyVars, Passed, Listed, Settled
<1>8. Held'
  BY <1>b, <1>d
     DEF dbVars, histories, historyVars, TypeOK, AgentTypeOK, Held, Settled
<1> QED
  BY <1>1, <1>2, <1>3, <1>4, <1>5, <1>6, <1>7, <1>8 DEF IInv, Covered, TypeOK

\* ActivateSnapshotVersion keeps the invariant.
LEMMA ActivateSnapshotVersionStep ==
    ASSUME IInv, NEW a \in Agents, ActivateSnapshotVersion(a)
    PROVE  IInv'
<1>b. TypeOK /\ Numbered /\ Fenced /\ Leased /\ Passed /\ Listed /\ Held
  BY DEF IInv, Covered
<1>f. Finish(a) => FinishResult(a)
  BY FinishFacts DEF IInv
<1>i. Idle(a) => IdleResult(a)
  BY IdleFacts DEF IInv
<1>1. CacheTypeOK'
  BY <1>f, <1>i, <1>b, SchedulerAssumption, AgentsAssumption
     DEF ActivateSnapshotVersion, Writable, Activate, Drop, FinishResult,
         IdleResult, fenceVars, dbVars, outboxVars, historyVars, Jobs, Rows,
         Kinds, Ids, Pcs, NoTx, NoRow, NoSnapshot, Agents, Workers, TypeOK,
         CacheTypeOK, DatabaseTypeOK, AgentTypeOK
<1>2. DatabaseTypeOK'
  BY <1>f, <1>i, <1>b, SchedulerAssumption
     DEF ActivateSnapshotVersion, Writable, Activate, Drop, FinishResult,
         IdleResult, fenceVars, dbVars, outboxVars, historyVars, Jobs, Rows,
         Kinds, Ids, Pcs, NoTx, NoRow, Agents, Workers, TypeOK, DatabaseTypeOK
<1>3. AgentTypeOK'
  BY <1>f, <1>i, <1>b, SchedulerAssumption
     DEF ActivateSnapshotVersion, Writable, Activate, Drop, FinishResult,
         IdleResult, fenceVars, dbVars, outboxVars, historyVars, Jobs, Rows,
         Kinds, Ids, Pcs, Agents, Workers, TypeOK, AgentTypeOK
<1>4. Numbered'
  BY <1>f, <1>i, <1>b, SchedulerAssumption
     DEF ActivateSnapshotVersion, Writable, Activate, Drop, FinishResult,
         IdleResult, fenceVars, dbVars, outboxVars, historyVars, Jobs, Rows,
         Kinds, Ids, Pcs, NoTx, Agents, Workers, TypeOK, DatabaseTypeOK,
         Numbered
<1>5. Fenced'
  BY <1>f, <1>i, <1>b, SchedulerAssumption
     DEF ActivateSnapshotVersion, Writable, Activate, Drop, FinishResult,
         IdleResult, fenceVars, dbVars, outboxVars, historyVars, Jobs, Rows,
         Kinds, Ids, Pcs, NoSnapshot, Agents, Workers, TypeOK, CacheTypeOK,
         AgentTypeOK, Fenced, HasToken
<1>6. Leased'
  BY <1>f, <1>i, <1>b, AgentsAssumption
     DEF ActivateSnapshotVersion, Writable, Activate, Drop, FinishResult,
         IdleResult, fenceVars, dbVars, outboxVars, historyVars, Jobs, Rows,
         Kinds, Ids, Pcs, Agents, Workers, LeasePcs, TypeOK, AgentTypeOK, Leased
<1>7. Passed'
  BY <1>f, <1>i, <1>b
     DEF ActivateSnapshotVersion, Writable, Activate, Drop, FinishResult,
         IdleResult, fenceVars, dbVars, outboxVars, historyVars, Jobs, Rows,
         Kinds, Ids, Pcs, Agents, Workers, TypeOK, DatabaseTypeOK, Passed,
         Settled
<1>8. Listed'
  BY <1>f, <1>i, <1>b
     DEF ActivateSnapshotVersion, Writable, Activate, Drop, FinishResult,
         IdleResult, fenceVars, dbVars, outboxVars, historyVars, Jobs, Rows,
         Kinds, Ids, Pcs, Agents, Workers, TypeOK, DatabaseTypeOK, Listed,
         Settled
<1>9. Held'
  <2>1. CASE Finish(a)
    <3>1. \A i \in Int : Settled(i) => Settled(i)'
      BY <1>f, <2>1 DEF FinishResult, Settled, ActivateSnapshotVersion, dbVars
    <3>2. \A i \in 1 .. job'[a].last :
            Settled(i)' \/ \E r \in job'[a].batch \cup job'[a].current : r.id = i
      <4> SUFFICES ASSUME NEW i \in 1 .. job'[a].last
                   PROVE  Settled(i)' \/ \E r \in job'[a].batch : r.id = i
        OBVIOUS
      <4>1. job'[a].last = job[a].last /\ job'[a].batch = job[a].batch
        BY <1>f, <2>1 DEF FinishResult
      <4>2. Settled(i) \/ \E r \in job[a].batch \cup job[a].current : r.id = i
        BY <1>b, <4>1 DEF Held
      <4>3. (\E r \in job[a].current : r.id = i) => Settled(i)'
        BY <1>f, <2>1 DEF FinishResult, Settled
      <4> QED
        BY <3>1, <4>1, <4>2, <4>3
    <3> QED
      BY <1>b, <1>f, <2>1, <3>1, <3>2, HeldKept DEF FinishResult
  <2>2. CASE Idle(a) /\ UNCHANGED historyVars
    <3>1. \A i \in Int : Settled(i) => Settled(i)'
      BY <2>2 DEF ActivateSnapshotVersion, Settled, dbVars, historyVars
    <3> QED
      BY <1>b, <1>i, <2>2, <3>1, HeldKept DEF IdleResult
  <2> QED
    BY <2>1, <2>2 DEF ActivateSnapshotVersion
<1> QED
  BY <1>1, <1>2, <1>3, <1>4, <1>5, <1>6, <1>7, <1>8, <1>9
     DEF IInv, Covered, TypeOK

\* Fail keeps the invariant.
LEMMA FailStep ==
    ASSUME IInv, NEW a \in Agents, Fail(a)
    PROVE  IInv'
<1>b. TypeOK /\ Numbered /\ Fenced /\ Leased /\ Passed /\ Listed /\ Held
  BY DEF IInv, Covered
<1>i. Idle(a) => IdleResult(a)
  BY IdleFacts DEF IInv
<1>1. CacheTypeOK'
  BY <1>i, <1>b, SchedulerAssumption
     DEF Fail, Drop, IdleResult, fenceVars, dbVars, outboxVars, histories,
         historyVars, Jobs, Rows, Kinds, Ids, Pcs, NoSnapshot, Agents, Workers,
         LockPcs, TypeOK, CacheTypeOK
<1>2. DatabaseTypeOK'
  BY <1>i, <1>b, SchedulerAssumption
     DEF Fail, Drop, IdleResult, fenceVars, dbVars, outboxVars, histories,
         historyVars, Jobs, Rows, Kinds, Ids, Pcs, NoTx, NoRow, Agents, Workers,
         LockPcs, TypeOK, DatabaseTypeOK
<1>3. AgentTypeOK'
  BY <1>i, <1>b, SchedulerAssumption
     DEF Fail, Drop, IdleResult, fenceVars, dbVars, outboxVars, histories,
         historyVars, Jobs, Rows, Kinds, Ids, Pcs, Agents, Workers, LockPcs,
         TypeOK, AgentTypeOK
<1>4. Numbered'
  BY <1>i, <1>b, SchedulerAssumption
     DEF Fail, Drop, IdleResult, fenceVars, dbVars, outboxVars, histories,
         historyVars, Jobs, Rows, Kinds, Ids, Pcs, NoTx, Agents, Workers,
         LockPcs, TypeOK, DatabaseTypeOK, Numbered
<1>5. Fenced'
  BY <1>i, <1>b, SchedulerAssumption
     DEF Fail, Drop, IdleResult, fenceVars, dbVars, outboxVars, histories,
         historyVars, Jobs, Rows, Kinds, Ids, Pcs, NoSnapshot, Agents, Workers,
         LockPcs, TypeOK, CacheTypeOK, AgentTypeOK, Fenced, HasToken
<1>6. Leased'
  BY <1>i, <1>b, AgentsAssumption
     DEF Fail, Drop, IdleResult, fenceVars, dbVars, outboxVars, histories,
         historyVars, Jobs, Rows, Kinds, Ids, Pcs, Agents, Workers, LeasePcs,
         LockPcs, TypeOK, AgentTypeOK, Leased
<1>7. Passed'
  BY <1>i, <1>b
     DEF Fail, Drop, IdleResult, fenceVars, dbVars, outboxVars, histories,
         historyVars, Jobs, Rows, Kinds, Ids, Pcs, Agents, Workers, LockPcs,
         TypeOK, DatabaseTypeOK, Passed, Settled
<1>8. Listed'
  BY <1>i, <1>b
     DEF Fail, Drop, IdleResult, fenceVars, dbVars, outboxVars, histories,
         historyVars, Jobs, Rows, Kinds, Ids, Pcs, Agents, Workers, LockPcs,
         TypeOK, DatabaseTypeOK, Listed, Settled
<1>9. Held'
  <2>1. \A i \in Int : Settled(i) => Settled(i)'
    BY DEF Fail, Settled, dbVars, historyVars, histories
  <2> QED
    BY <1>b, <1>i, <2>1, HeldKept DEF Fail, IdleResult
<1> QED
  BY <1>1, <1>2, <1>3, <1>4, <1>5, <1>6, <1>7, <1>8, <1>9
     DEF IInv, Covered, TypeOK

\* LockExpires keeps the invariant.
LEMMA LockExpiresStep ==
    ASSUME IInv, LockExpires
    PROVE  IInv'
<1>b. TypeOK /\ Numbered /\ Fenced /\ Leased /\ Passed /\ Listed /\ Held
  BY DEF IInv, Covered
<1>1. CacheTypeOK'
  BY <1>b, SchedulerAssumption
     DEF LockExpires, UnlockBucket, fenceVars, versionVars, dbVars, outboxVars,
         histories, historyVars, NoSnapshot, Agents, Workers, TypeOK,
         CacheTypeOK
<1>2. DatabaseTypeOK'
  BY <1>b, SchedulerAssumption
     DEF LockExpires, UnlockBucket, fenceVars, versionVars, dbVars, outboxVars,
         histories, historyVars, Rows, Kinds, Ids, NoTx, NoRow, TypeOK,
         DatabaseTypeOK
<1>3. AgentTypeOK'
  BY <1>b, SchedulerAssumption
     DEF LockExpires, UnlockBucket, fenceVars, versionVars, dbVars, outboxVars,
         histories, historyVars, Jobs, Rows, Kinds, Ids, Pcs, Agents, Workers,
         TypeOK, AgentTypeOK
<1>4. Numbered'
  BY <1>b, SchedulerAssumption
     DEF LockExpires, UnlockBucket, fenceVars, versionVars, dbVars, outboxVars,
         histories, historyVars, NoTx, TypeOK, DatabaseTypeOK, Numbered
<1>5. Fenced'
  BY <1>b, SchedulerAssumption
     DEF LockExpires, UnlockBucket, fenceVars, versionVars, dbVars, outboxVars,
         histories, historyVars, NoSnapshot, Agents, Workers, TypeOK,
         CacheTypeOK, AgentTypeOK, Fenced, HasToken
<1>6. Leased'
  BY <1>b, AgentsAssumption
     DEF LockExpires, UnlockBucket, fenceVars, versionVars, dbVars, outboxVars,
         histories, historyVars, Agents, Workers, LeasePcs, TypeOK, AgentTypeOK,
         Leased
<1>7. Passed'
  BY <1>b
     DEF LockExpires, UnlockBucket, fenceVars, versionVars, dbVars, outboxVars,
         histories, historyVars, TypeOK, DatabaseTypeOK, Passed, Settled
<1>8. Listed'
  BY <1>b
     DEF LockExpires, UnlockBucket, fenceVars, versionVars, dbVars, outboxVars,
         histories, historyVars, TypeOK, DatabaseTypeOK, Listed, Settled
<1>9. Held'
  BY <1>b
     DEF LockExpires, UnlockBucket, fenceVars, versionVars, dbVars, outboxVars,
         histories, historyVars, Agents, Workers, TypeOK, AgentTypeOK, Held,
         Settled
<1> QED
  BY <1>1, <1>2, <1>3, <1>4, <1>5, <1>6, <1>7, <1>8, <1>9
     DEF IInv, Covered, TypeOK

\* LeaseExpires keeps the invariant.
LEMMA LeaseExpiresStep ==
    ASSUME IInv, LeaseExpires
    PROVE  IInv'
<1>b. TypeOK /\ Numbered /\ Fenced /\ Leased /\ Passed /\ Listed /\ Held
  BY DEF IInv, Covered
<1>1. CacheTypeOK'
  BY <1>b, SchedulerAssumption
     DEF LeaseExpires, ExpireLease, fenceVars, versionVars, dbVars, outboxVars,
         histories, historyVars, NoSnapshot, Agents, Workers, LeasePcs, TypeOK,
         CacheTypeOK
<1>2. DatabaseTypeOK'
  BY <1>b, SchedulerAssumption
     DEF LeaseExpires, ExpireLease, fenceVars, versionVars, dbVars, outboxVars,
         histories, historyVars, Rows, Kinds, Ids, NoTx, NoRow, LeasePcs,
         TypeOK, DatabaseTypeOK
<1>3. AgentTypeOK'
  BY <1>b, SchedulerAssumption
     DEF LeaseExpires, ExpireLease, fenceVars, versionVars, dbVars, outboxVars,
         histories, historyVars, Jobs, Rows, Kinds, Ids, Pcs, Agents, Workers,
         LeasePcs, TypeOK, AgentTypeOK
<1>4. Numbered'
  BY <1>b, SchedulerAssumption
     DEF LeaseExpires, ExpireLease, fenceVars, versionVars, dbVars, outboxVars,
         histories, historyVars, NoTx, LeasePcs, TypeOK, DatabaseTypeOK,
         Numbered
<1>5. Fenced'
  BY <1>b, SchedulerAssumption
     DEF LeaseExpires, ExpireLease, fenceVars, versionVars, dbVars, outboxVars,
         histories, historyVars, NoSnapshot, Agents, Workers, LeasePcs, TypeOK,
         CacheTypeOK, AgentTypeOK, Fenced, HasToken
<1>6. Leased'
  BY <1>b, AgentsAssumption
     DEF LeaseExpires, ExpireLease, fenceVars, versionVars, dbVars, outboxVars,
         histories, historyVars, Agents, Workers, LeasePcs, TypeOK, AgentTypeOK,
         Leased
<1>7. Passed'
  BY <1>b
     DEF LeaseExpires, ExpireLease, fenceVars, versionVars, dbVars, outboxVars,
         histories, historyVars, LeasePcs, TypeOK, DatabaseTypeOK, Passed,
         Settled
<1>8. Listed'
  BY <1>b
     DEF LeaseExpires, ExpireLease, fenceVars, versionVars, dbVars, outboxVars,
         histories, historyVars, LeasePcs, TypeOK, DatabaseTypeOK, Listed,
         Settled
<1>9. Held'
  BY <1>b, SchedulerAssumption, AgentsAssumption
     DEF LeaseExpires, ExpireLease, cacheVars, fenceVars, versionVars, dbVars,
         outboxVars, histories, historyVars, Jobs, Rows, Kinds, Ids, Pcs, NoTx,
         NoRow, NoSnapshot, Agents, Workers, LeasePcs, LockPcs, TypeOK,
         CacheTypeOK, DatabaseTypeOK, AgentTypeOK, Numbered, Passed, Listed,
         Held, Settled
<1> QED
  BY <1>1, <1>2, <1>3, <1>4, <1>5, <1>6, <1>7, <1>8, <1>9
     DEF IInv, Covered, TypeOK

-----------------------------------------------------------------------------
(* The theorems.                                                           *)

\* The initial state satisfies the invariant.
LEMMA InitInv == Init => IInv
<1> SUFFICES ASSUME Init
             PROVE  IInv
  OBVIOUS
<1>1. NoJob \in Jobs
  BY NoJobType
<1>2. job \in [Agents -> Jobs] /\ pc \in [Agents -> Pcs]
  BY <1>1 DEF Init, Pcs
<1>3. \A a \in Agents : pc[a] = "idle" /\ ~job[a].strict /\ job[a].last = 0
                        /\ job[a].batch = {} /\ job[a].current = {}
  BY DEF Init, NoJob
<1>4. TypeOK
  <2>1. CacheTypeOK
    <3>1. older \in [Agents -> SUBSET Agents]
      BY DEF Init, CacheInit
    <3>2. retired \in BOOLEAN /\ locked \in BOOLEAN
      BY DEF Init, CacheInit
    <3> QED
      BY <3>1, <3>2, SchedulerAssumption DEF Init, CacheInit, CacheTypeOK
  <2>2. DatabaseTypeOK
    <3>1. alive \in BOOLEAN /\ owed \subseteq Kinds
      BY DEF Init
    <3>2. /\ rev \in 0 .. MaxAccountChanges
          /\ groupRev \in 0 .. MaxGroupChanges
          /\ decided \in 0 .. MaxGroupChanges
      BY SchedulerAssumption DEF Init
    <3> QED
      BY <3>1, <3>2 DEF Init, DatabaseTypeOK
  <2>3. AgentTypeOK
    BY <1>2, SchedulerAssumption DEF Init, AgentTypeOK
  <2> QED
    BY <2>1, <2>2, <2>3 DEF TypeOK
<1>5. Numbered
  BY DEF Init, Numbered, NoTx
<1>6. Fenced
  BY <1>3 DEF Init, CacheInit, Fenced, HasToken
<1>7. Leased
  BY <1>3, SchedulerAssumption DEF Init, Leased, LeasePcs
<1>8. Covered
  BY <1>3 DEF Init, Covered, Passed, Listed, Held
<1> QED
  BY <1>4, <1>5, <1>6, <1>7, <1>8 DEF IInv

\* A step that changes nothing keeps the invariant.
LEMMA StutterStep ==
    ASSUME IInv, UNCHANGED vars
    PROVE  IInv'
<1>1. TypeOK'
  BY DEF vars, cacheVars, fenceVars, versionVars, dbVars, outboxVars, histories,
         historyVars, IInv, TypeOK, CacheTypeOK, DatabaseTypeOK, AgentTypeOK
<1>2. Numbered' /\ Leased'
  BY DEF vars, cacheVars, dbVars, outboxVars, histories, IInv, Numbered, Leased
<1>3. Fenced'
  BY DEF vars, cacheVars, fenceVars, versionVars, IInv, Fenced, HasToken
<1>4. Covered'
  BY DEF vars, dbVars, outboxVars, histories, historyVars, IInv, Covered, Passed,
         Listed, Held, Settled
<1> QED
  BY <1>1, <1>2, <1>3, <1>4 DEF IInv

\* So does every step of Publish ...
LEMMA PublishStep ==
    ASSUME IInv, NEW a \in Agents, Publish(a)
    PROVE  IInv'
  BY CaptureTokenStep, LoadAccountsStep, WriteSnapshotVersionStep,
     WriteSnapshotAccountsStep, ActivateSnapshotVersionStep DEF Publish

\* ... and of Work.
LEMMA WorkStep ==
    ASSUME IInv, NEW w \in Workers, Work(w)
    PROVE  IInv'
<1>1. CASE Publish(w)
  BY <1>1, PublishStep DEF Agents
<1> QED
  BY <1>1, ListAfterAndReleaseDedupStep, HandleAccountEventStep, SetAccountStep,
     HandleGroupEventStep, AdvanceWatermarkStep, AcquireLeaseStep, ReadGroupStep,
     DecideLifecycleStep, ReleaseLeaseStep, ListActiveGroupsStep, LockBucketStep
     DEF Work

\* IInv is inductive.
LEMMA NextInv == IInv /\ [Next]_vars => IInv'
<1> SUFFICES ASSUME IInv, [Next]_vars
             PROVE  IInv'
  OBVIOUS
<1>1. CASE \E w \in Pollers : BeginPoll(w)
  BY <1>1, BeginPollStep DEF Workers
<1>2. CASE \E w \in Rebuilders : BeginFullRebuild(w)
  BY <1>2, BeginFullRebuildStep DEF Workers
<1>3. CASE \E w \in Workers : Work(w)
  BY <1>3, WorkStep
<1>4. CASE \E r \in Readers : MissSnapshot(r) \/ Publish(r)
  BY <1>4, MissSnapshotStep, PublishStep DEF Agents
<1>5. CASE \E a \in Agents : Fail(a)
  BY <1>5, FailStep
<1>6. CASE UNCHANGED vars
  BY <1>6, StutterStep
<1>7. CASE \E k \in Kinds : EnqueueEvent(k)
  BY <1>7, EnqueueEventStep
<1> QED
  BY <1>1, <1>2, <1>3, <1>4, <1>5, <1>6, <1>7, ChangeAccountStep,
     CommitAccountStep, SaveAccountStep, ChangeGroupStep, LockExpiresStep,
     LeaseExpiresStep DEF Next

\* The invariant holds in every reachable state.
THEOREM Invariance == Spec => []IInv
<1>1. Init => IInv
  BY InitInv
<1>2. IInv /\ [Next]_vars => IInv'
  BY NextInv
<1> QED
  BY <1>1, <1>2, PTL DEF Spec

\* Types: the outbox gets at most one row for each change (enqueueSchedulerOutbox),
\* whatever the polls, the faults and the timing of the commits.
THEOREM TypeCorrect == Spec => []TypeOK
<1>1. IInv => TypeOK
  BY DEF IInv
<1> QED
  BY <1>1, Invariance, PTL

\* No snapshot becomes or stays active that was written with a token from before
\* the last retirement of the bucket (RetireBucket, ReopenBucket and the fencing
\* checks of SetSnapshot).
THEOREM NothingPublishedFromBeforeRetirement ==
    Spec => []NothingFromBeforeRetirement
<1>1. IInv => NothingFromBeforeRetirement
  BY DEF IInv, Fenced, NothingFromBeforeRetirement
<1> QED
  BY <1>1, Invariance, PTL

\* The watermark passes no event that was not handled, except those of
\* transactions that committed late (pollOutbox), even when several processes poll
\* and set the watermark back.
THEOREM EveryPassedEventIsHandled == Spec => []ConsumedIsHandled
<1>1. IInv => ConsumedIsHandled
  BY DEF IInv, Covered, Passed, Settled, ConsumedIsHandled
<1> QED
  BY <1>1, Invariance, PTL

\* Retirements and reopenings happen in the order of the group states they were
\* decided from (prepareGroupLifecycle under its lease).
THEOREM LifecycleIsOrdered == Spec => LifecycleNeverGoesBack
<1>1. ASSUME IInv, [Next]_vars
      PROVE  [decided' >= decided]_vars
  <2> SUFFICES ASSUME Next
               PROVE  decided' >= decided
    BY <1>1
  <2>1. decided \in Int
    BY <1>1, SchedulerAssumption DEF IInv, TypeOK, DatabaseTypeOK
  <2>2. CASE decided' = decided
    BY <2>1, <2>2
  <2>3. CASE \E w \in Workers : DecideLifecycle(w)
    <3>1. PICK w \in Workers : DecideLifecycle(w)
      BY <2>3
    <3>2. decided <= job[w].group
      BY <1>1, <3>1 DEF IInv, Leased, DecideLifecycle, Agents
    <3>3. decided' = job[w].group /\ job[w].group \in Int
      BY <1>1, <3>1, SchedulerAssumption
         DEF DecideLifecycle, IInv, TypeOK, AgentTypeOK, Jobs, Agents
    <3> QED
      BY <2>1, <3>2, <3>3
  <2>4. decided' = decided \/ \E w \in Workers : DecideLifecycle(w)
    <3>1. ASSUME NEW a, Publish(a)
          PROVE  decided' = decided
      BY <3>1 DEF Publish, CaptureToken, LoadAccounts, WriteSnapshotVersion,
                  WriteSnapshotAccounts, ActivateSnapshotVersion, histories
    <3>2. ASSUME NEW w \in Workers, Work(w)
          PROVE  decided' = decided \/ DecideLifecycle(w)
      BY <3>1, <3>2 DEF Work, ListAfterAndReleaseDedup, HandleAccountEvent,
             SetAccount, HandleGroupEvent, AdvanceWatermark, AcquireLease,
             ReadGroup, ReleaseLease, ListActiveGroups, LockBucket, histories
    <3>3. ASSUME NEW a, BeginPoll(a) \/ BeginFullRebuild(a) \/ MissSnapshot(a)
                        \/ Fail(a)
          PROVE  decided' = decided
      BY <3>3 DEF BeginPoll, BeginFullRebuild, MissSnapshot, Fail, histories
    <3>4. ASSUME ChangeAccount \/ CommitAccount \/ SaveAccount \/ ChangeGroup
                 \/ (\E k \in Kinds : EnqueueEvent(k))
                 \/ LockExpires \/ LeaseExpires
          PROVE  decided' = decided
      BY <3>4 DEF ChangeAccount, CommitAccount, SaveAccount, ChangeGroup,
                  EnqueueEvent, LockExpires, LeaseExpires, histories
    <3> QED
      BY <3>1, <3>2, <3>3, <3>4 DEF Next
  <2> QED
    BY <2>2, <2>3, <2>4
<1> QED
  BY <1>1, Invariance, PTL DEF Spec, LifecycleNeverGoesBack
=============================================================================
