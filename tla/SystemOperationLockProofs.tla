---------------------- MODULE SystemOperationLockProofs ----------------------
(***************************************************************************)
(* Proofs about SystemOperationLock, for any operations, however long they *)
(* run, and any times within its assumptions.                              *)
(***************************************************************************)
EXTENDS SystemOperationLock, TLAPS

\* Ids come from the sequence; 0 is none.
IdInv ==
    /\ nextId >= 1
    /\ row.id < nextId
    /\ row.id = 0 => row = NoRow
    /\ \A o \in Operations :
          /\ saw[o].id < nextId
          /\ pc[o] = "reclaim" => saw[o].id >= 1
          /\ Held(o) => mine[o] >= 1 /\ mine[o] < nextId

\* Calls keep the times that Tick grants them.
ClockInv ==
    \A o \in Operations :
        /\ start[o] \leq now
        /\ since[o] \leq now
        /\ pc[o] \in ClaimPcs => now \leq start[o] + MaxClaim
        /\ renewing[o] => Held(o) /\ now \leq start[o] + RenewInterval

\* The row does not name an operation that has not inserted it.
FreshInv ==
    \A o \in Operations : pc[o] \in {"idle"} \cup ClaimPcs => row.print # o

\* By how much failed renewals have delayed the lock.
Delay == faults * RenewInterval

\* o inserted the row that is there and renews its lock.
Renews(o) ==
    Held(o) /\ renewing[o] /\ row.id = mine[o] /\ row.print = o

\* The lock of such an operation is at most the failed renewals behind, and
\* nobody else can have the row.
RenewInv ==
    \A o \in Operations : Renews(o) =>
        /\ row.status = "processing"
        /\ row.lock + MaxClaim + Delay >= start[o] + Lease
        /\ row.expires >= row.lock
        /\ \A q \in Operations : Held(q) /\ mine[q] = row.id => q = o

\* The row is locked for whoever holds the lock.
HolderInv ==
    \A o \in Operations : Held(o) =>
        /\ row.id = mine[o]
        /\ row.status = "processing"
        /\ row.lock > now
        /\ row.expires >= row.lock
        /\ row.lock + MaxClaim >= since[o] + Lease
        /\ renewing[o] /\ row.print # o => start[o] \leq since[o] + Delay
        /\ ~renewing[o] => now + MaxClaim < since[o] + Lease

OneHolder == \A o, p \in Operations : Held(o) /\ Held(p) => o = p

Exclusive == outlasted \/ (OneHolder /\ HolderInv)

\* The inductive invariant.
LockInv == TypeOK /\ IdInv /\ ClockInv /\ FreshInv /\ RenewInv /\ Exclusive
-----------------------------------------------------------------------------
(* Statements on the row.                                                  *)

LEMMA LeaseIsNat == Lease \in Nat \ {0} /\ TTL \in Nat
  BY TimesAssumption DEF Lease

\* The row that CreateProcessing inserts.
LEMMA CreatedRow ==
    ASSUME nextId \in Nat, NEW o \in Operations, NEW l \in Nat, NEW e \in Nat,
           CreateProcessing(o, l, e)
    PROVE  /\ row' \in LockRows
           /\ row'.id = nextId /\ row'.print = o /\ row'.status = "processing"
           /\ row'.lock = l /\ row'.expires = e
           /\ row = NoRow
           /\ nextId' = nextId + 1
  BY DEF CreateProcessing, LockRows, RecordStatuses

\* What TryReclaim leaves of the row.
LEMMA ReclaimedRow ==
    ASSUME row \in LockRows, NEW l \in Nat, NEW e \in Nat, TryReclaim(l, e)
    PROVE  /\ row' \in LockRows
           /\ row'.id = row.id /\ row'.print = row.print
           /\ row'.status = "processing"
           /\ row'.lock = l /\ row'.expires = e
           /\ nextId' = nextId
  BY DEF TryReclaim, LockRows, RecordStatuses

\* What ExtendProcessingLock leaves of the row.
LEMMA ExtendedRow ==
    ASSUME row \in LockRows, NEW l \in Nat, NEW e \in Nat,
           ExtendProcessingLock(l, e)
    PROVE  /\ row' \in LockRows
           /\ row'.id = row.id /\ row'.print = row.print
           /\ row'.status = row.status
           /\ row'.lock = l /\ row'.expires = e
           /\ nextId' = nextId
  BY DEF ExtendProcessingLock, LockRows

\* What MarkSucceeded and MarkFailedRetryable leave of the row.
LEMMA MarkedRow ==
    ASSUME row \in LockRows, NEW o \in Operations, NEW i \in Nat, NEW l \in Nat,
           NEW e \in Nat,
           MarkSucceeded(i, o, e) \/ MarkFailedRetryable(i, l, e)
    PROVE  /\ row' \in LockRows
           /\ row'.id = row.id /\ row'.print = row.print
           /\ row.id # i => row' = row
           /\ nextId' = nextId
  <1>1. CASE MarkSucceeded(i, o, e)
    BY <1>1 DEF MarkSucceeded, LockRows, RecordStatuses
  <1>2. CASE MarkFailedRetryable(i, l, e)
    BY <1>2 DEF MarkFailedRetryable, LockRows, RecordStatuses
  <1> QED
    BY <1>1, <1>2

\* An id of 0 is no row.
LEMMA NoRowFields ==
    /\ NoRow \in LockRows
    /\ NoRow.id = 0
    /\ NoRow.print \notin Operations
  BY LockAssumption DEF NoRow, LockRows, RecordStatuses

-----------------------------------------------------------------------------
(* Every step keeps the types.                                             *)

LEMMA FaultTyped ==
    ASSUME TypeOK, Fault \/ NoFault
    PROVE  faults' \in 0 .. MaxFaults
  BY LockAssumption DEF TypeOK, Fault, NoFault

LEMMA EndTyped ==
    ASSUME TypeOK, NEW o \in Operations, End(o), row' \in LockRows,
           nextId' \in Nat, Fault \/ NoFault, UNCHANGED outlasted
    PROVE  TypeOK'
  <1>1. pc' \in [Operations -> Pcs]
    BY DEF TypeOK, End, Pcs
  <1>2. renewing' \in [Operations -> BOOLEAN]
    BY DEF TypeOK, End
  <1> QED
    BY <1>1, <1>2, FaultTyped DEF TypeOK, End

LEMMA HoldTyped ==
    ASSUME TypeOK, NEW o \in Operations, NEW i \in Nat, Hold(o, i),
           row' \in LockRows, nextId' \in Nat, UNCHANGED outlasted
    PROVE  TypeOK'
  <1>1. pc' \in [Operations -> Pcs]
    BY DEF TypeOK, Hold, Goto, Pcs
  <1>2. renewing' \in [Operations -> BOOLEAN]
    BY DEF TypeOK, Hold
  <1>3. /\ mine' \in [Operations -> Nat]
        /\ since' \in [Operations -> Nat]
        /\ start' \in [Operations -> Nat]
    BY DEF TypeOK, Hold
  <1> QED
    BY <1>1, <1>2, <1>3 DEF TypeOK, Hold, NoFault

LEMMA MoveTyped ==
    ASSUME TypeOK, NEW o \in Operations, NEW p \in Pcs, Goto(o, p)
    PROVE  pc' \in [Operations -> Pcs]
  BY DEF TypeOK, Goto

LEMMA TypeStep ==
    ASSUME TypeOK, [Next]_vars
    PROVE  TypeOK'
  <1> USE LeaseIsNat
  <1>0. \A o \in Operations : /\ start[o] \in Nat /\ mine[o] \in Nat
                              /\ saw[o] \in LockRows /\ saw[o].id \in Nat
    BY DEF TypeOK, LockRows
  <1>1. ASSUME NEW o \in Operations, BeginAcquire(o), UNCHANGED outlasted
        PROVE  TypeOK'
    <2>1. pc' \in [Operations -> Pcs]
      BY <1>1, MoveTyped DEF BeginAcquire, Pcs
    <2> QED
      BY <1>1, <2>1 DEF BeginAcquire, TypeOK, NoFault, recordVars
  <1>2. ASSUME NEW o \in Operations, AcquireNew(o), UNCHANGED outlasted
        PROVE  TypeOK'
    <2>1. CASE /\ CreateProcessing(o, start[o] + Lease, start[o] + TTL)
               /\ Hold(o, nextId)
      <3>1. row' \in LockRows /\ nextId' \in Nat
        BY <1>0, <2>1, CreatedRow DEF TypeOK
      <3> QED
        BY <1>2, <2>1, <3>1, HoldTyped DEF TypeOK
    <2>2. CASE /\ NoFault
               /\ Goto(o, "get")
               /\ UNCHANGED <<now, recordVars, start, saw, mine, since, renewing>>
      <3>1. pc' \in [Operations -> Pcs]
        BY <2>2, MoveTyped DEF Pcs
      <3> QED
        BY <1>2, <2>2, <3>1 DEF TypeOK, NoFault, recordVars
    <2>3. CASE Lost(o)
      BY <1>2, <2>3, EndTyped DEF Lost, TypeOK, recordVars
    <2> QED
      BY <1>2, <2>1, <2>2, <2>3 DEF AcquireNew
  <1>3. ASSUME NEW o \in Operations, AcquireRead(o), UNCHANGED outlasted
        PROVE  TypeOK'
    <2>1. CASE Busy(o) \/ Lost(o)
      BY <1>3, <2>1, EndTyped DEF Busy, Lost, TypeOK, recordVars
    <2>2. CASE ~(Busy(o) \/ Lost(o))
      <3>1. pc' \in [Operations -> Pcs]
        BY <1>3, <2>2, MoveTyped DEF AcquireRead, Pcs
      <3>2. saw' \in [Operations -> LockRows]
        BY <1>3, <2>2 DEF AcquireRead, TypeOK
      <3> QED
        BY <1>3, <2>2, <3>1, <3>2 DEF AcquireRead, TypeOK, NoFault, recordVars
    <2> QED
      BY <2>1, <2>2
  <1>4. ASSUME NEW o \in Operations, AcquireReclaim(o), UNCHANGED outlasted
        PROVE  TypeOK'
    <2>1. CASE Busy(o) \/ Lost(o)
      BY <1>4, <2>1, EndTyped DEF Busy, Lost, TypeOK, recordVars
    <2>2. CASE /\ TryReclaim(start[o] + Lease, start[o] + TTL)
               /\ Hold(o, saw[o].id)
      <3>1. row' \in LockRows /\ nextId' \in Nat
        BY <1>0, <2>2, ReclaimedRow DEF TypeOK
      <3> QED
        BY <1>0, <1>4, <2>2, <3>1, HoldTyped
    <2> QED
      BY <1>4, <2>1, <2>2 DEF AcquireReclaim
  <1>5. ASSUME NEW o \in Operations, Renew(o), UNCHANGED outlasted
        PROVE  TypeOK'
    <2>1. row' \in LockRows /\ nextId' \in Nat
      BY <1>5, ExtendedRow DEF Renew, TypeOK, recordVars
    <2>2. renewing' \in [Operations -> BOOLEAN]
      BY <1>5 DEF Renew, TypeOK
    <2>3. start' \in [Operations -> Nat]
      BY <1>5 DEF Renew, TypeOK
    <2>4. faults' \in 0 .. MaxFaults
      BY <1>5, FaultTyped DEF Renew
    <2> QED
      BY <1>5, <2>1, <2>2, <2>3, <2>4 DEF Renew, TypeOK
  <1>6. ASSUME NEW o \in Operations, Release(o), UNCHANGED outlasted
        PROVE  TypeOK'
    <2>1. row' \in LockRows /\ nextId' \in Nat
      BY <1>0, <1>6, MarkedRow DEF Release, Lost, TypeOK, recordVars
    <2> QED
      BY <1>6, <2>1, EndTyped DEF Release, Lost
  <1>7. ASSUME NEW o \in Operations, Die(o), UNCHANGED outlasted
        PROVE  TypeOK'
    BY <1>7, EndTyped DEF Die, Lost, TypeOK, recordVars
  <1>8. CASE Cleanup
    BY <1>8, NoRowFields DEF Cleanup, DeleteExpired, TypeOK, NoFault, callVars
  <1>9. CASE Tick
    BY <1>9 DEF Tick, TypeOK, NoFault, callVars, recordVars
  <1>10. CASE UNCHANGED vars
    BY <1>10 DEF vars, TypeOK, callVars, recordVars
  <1> QED
    BY <1>1, <1>2, <1>3, <1>4, <1>5, <1>6, <1>7, <1>8, <1>9, <1>10 DEF Next

-----------------------------------------------------------------------------
(* The lease absorbs the faults.                                           *)

\* A product grows with its first factor.
LEMMA TimesGrows ==
    ASSUME NEW r \in Nat, NEW f \in Nat, NEW g \in Nat, f \leq g
    PROVE  /\ f * r \in Nat
           /\ (f + 1) * r = f * r + r
           /\ f * r \leq g * r
  <1>1. PICK d \in Nat : g = f + d
    BY g - f \in Nat, g = f + (g - f)
  <1>2. d * r \in Nat /\ f * r \in Nat
    OBVIOUS
  <1>3. g * r = f * r + d * r
    BY <1>1
  <1> QED
    BY <1>2, <1>3

\* A fault delays the lock by an interval at most.
LEMMA DelayStep ==
    ASSUME TypeOK
    PROVE  /\ Delay \in Nat
           /\ Fault => Delay' = Delay + RenewInterval
           /\ NoFault => Delay' = Delay
           /\ MaxClaim + Delay + RenewInterval < Lease
  <1>1. /\ faults \in Nat /\ faults \leq MaxFaults
        /\ MaxFaults \in Nat /\ RenewInterval \in Nat /\ MaxClaim \in Nat
        /\ Lease \in Nat
    BY LockAssumption, LeaseIsNat DEF TypeOK
  <1>2. /\ faults * RenewInterval \in Nat
        /\ (faults + 1) * RenewInterval = faults * RenewInterval + RenewInterval
        /\ faults * RenewInterval \leq MaxFaults * RenewInterval
    BY <1>1, TimesGrows
  <1>3. /\ MaxFaults * RenewInterval \in Nat
        /\ (MaxFaults + 1) * RenewInterval =
              MaxFaults * RenewInterval + RenewInterval
    BY <1>1, TimesGrows
  <1>4. MaxClaim + faults * RenewInterval + RenewInterval < Lease
    BY <1>1, <1>2, <1>3, LeaseAssumption
  <1> QED
    BY <1>2, <1>4 DEF Delay, Fault, NoFault

-----------------------------------------------------------------------------
(* Every step keeps the parts of the invariant.                            *)

\* Ids are handed out once, and a record that is there has one.
LEMMA IdStep ==
    ASSUME TypeOK, IdInv, [Next]_vars
    PROVE  IdInv'
  <1>0. /\ \A o \in Operations : /\ start[o] \in Nat /\ mine[o] \in Nat
                                 /\ saw[o] \in LockRows /\ saw[o].id \in Nat
        /\ row \in LockRows /\ row.id \in Nat /\ now \in Nat /\ nextId \in Nat
    BY DEF TypeOK, LockRows
  <1>1. ASSUME NEW o \in Operations, BeginAcquire(o), UNCHANGED outlasted
        PROVE  IdInv'
    BY <1>1, <1>0, LeaseIsNat DEF BeginAcquire, Goto, NoFault, recordVars,
        IdInv, Held, TypeOK
  <1>2. ASSUME NEW o \in Operations, AcquireNew(o), UNCHANGED outlasted
        PROVE  IdInv'
    BY <1>2, <1>0, LeaseIsNat, CreatedRow DEF AcquireNew, Hold, Lost, End,
        Fault, Goto, NoFault, recordVars, IdInv, Held, TypeOK
  <1>3. ASSUME NEW o \in Operations, AcquireRead(o), UNCHANGED outlasted
        PROVE  IdInv'
    BY <1>3, <1>0, LeaseIsNat DEF AcquireRead, IsBusy, Busy, Lost, End,
        Fault, Goto, NoFault, recordVars, IdInv, Held, TypeOK
  <1>4. ASSUME NEW o \in Operations, AcquireReclaim(o), UNCHANGED outlasted
        PROVE  IdInv'
    BY <1>4, <1>0, LeaseIsNat, ReclaimedRow DEF AcquireReclaim, Reclaimable,
        Hold, Busy, Lost, End, Fault, Goto, NoFault, recordVars, IdInv,
        Held, TypeOK
  <1>5. ASSUME NEW o \in Operations, Renew(o), UNCHANGED outlasted
        PROVE  IdInv'
    BY <1>5, <1>0, LeaseIsNat, ExtendedRow DEF Renew, Extendable, Fault,
        NoFault, recordVars, IdInv, Held, TypeOK
  <1>6. ASSUME NEW o \in Operations, Release(o), UNCHANGED outlasted
        PROVE  IdInv'
    BY <1>6, <1>0, LeaseIsNat, MarkedRow DEF Release, Lost, End, Fault,
        NoFault, recordVars, IdInv, Held, TypeOK
  <1>7. ASSUME NEW o \in Operations, Die(o), UNCHANGED outlasted
        PROVE  IdInv'
    BY <1>7, <1>0, LeaseIsNat DEF Die, Lost, End, Fault, recordVars, IdInv,
        Held, TypeOK, ClaimPcs
  <1>8. CASE Cleanup
    BY <1>8, <1>0, LeaseIsNat, NoRowFields DEF Cleanup, DeleteExpired,
        NoFault, callVars, IdInv, Held, TypeOK
  <1>9. CASE Tick
    BY <1>9, <1>0, LeaseIsNat DEF Tick, NoFault, callVars, recordVars,
        IdInv, Held, TypeOK, ClaimPcs
  <1>10. CASE UNCHANGED vars
    BY <1>10 DEF vars, recordVars, callVars, IdInv, Held, TypeOK
  <1> QED
    BY <1>1, <1>2, <1>3, <1>4, <1>5, <1>6, <1>7, <1>8, <1>9, <1>10 DEF Next

\* Tick waits for every call, and for every renewLoop to try.
LEMMA ClockStep ==
    ASSUME TypeOK, ClockInv, [Next]_vars
    PROVE  ClockInv'
  <1>1. ASSUME NEW o \in Operations, BeginAcquire(o), UNCHANGED outlasted
        PROVE  ClockInv'
    BY <1>1, LockAssumption DEF BeginAcquire, Goto, NoFault, recordVars,
        ClockInv, Held, TypeOK, ClaimPcs
  <1>2. ASSUME NEW o \in Operations, AcquireNew(o), UNCHANGED outlasted
        PROVE  ClockInv'
    BY <1>2, LockAssumption DEF AcquireNew, Hold, Lost, End, Fault, Goto,
        NoFault, recordVars, ClockInv, Held, TypeOK, ClaimPcs
  <1>3. ASSUME NEW o \in Operations, AcquireRead(o), UNCHANGED outlasted
        PROVE  ClockInv'
    BY <1>3, LockAssumption DEF AcquireRead, IsBusy, Busy, Lost, End, Fault,
        Goto, NoFault, recordVars, ClockInv, Held, TypeOK, ClaimPcs
  <1>4. ASSUME NEW o \in Operations, AcquireReclaim(o), UNCHANGED outlasted
        PROVE  ClockInv'
    BY <1>4, LockAssumption DEF AcquireReclaim, Reclaimable, Hold, Busy,
        Lost, End, Fault, Goto, NoFault, recordVars, ClockInv, Held, TypeOK,
        ClaimPcs
  <1>5. ASSUME NEW o \in Operations, Renew(o), UNCHANGED outlasted
        PROVE  ClockInv'
    BY <1>5, LockAssumption DEF Renew, Extendable, Fault, NoFault,
        recordVars, ClockInv, Held, TypeOK, ClaimPcs
  <1>6. ASSUME NEW o \in Operations, Release(o), UNCHANGED outlasted
        PROVE  ClockInv'
    BY <1>6, LockAssumption DEF Release, Lost, End, Fault, NoFault,
        recordVars, ClockInv, Held, TypeOK, ClaimPcs
  <1>7. ASSUME NEW o \in Operations, Die(o), UNCHANGED outlasted
        PROVE  ClockInv'
    BY <1>7, LockAssumption DEF Die, Lost, End, Fault, recordVars, ClockInv,
        Held, TypeOK, ClaimPcs
  <1>8. CASE Cleanup
    BY <1>8, LockAssumption DEF Cleanup, DeleteExpired, NoFault, callVars,
        ClockInv, Held, TypeOK, ClaimPcs
  <1>9. CASE Tick
    BY <1>9, LockAssumption DEF Tick, NoFault, callVars, recordVars,
        ClockInv, Held, TypeOK, ClaimPcs
  <1>10. CASE UNCHANGED vars
    BY <1>10 DEF vars, recordVars, callVars, ClockInv, Held, TypeOK,
        ClaimPcs
  <1> QED
    BY <1>1, <1>2, <1>3, <1>4, <1>5, <1>6, <1>7, <1>8, <1>9, <1>10 DEF Next

\* An operation puts its id into the row only with CreateProcessing.
LEMMA FreshStep ==
    ASSUME TypeOK, FreshInv, [Next]_vars
    PROVE  FreshInv'
  <1>0. /\ \A o \in Operations : /\ start[o] \in Nat /\ mine[o] \in Nat
                                 /\ saw[o] \in LockRows /\ saw[o].id \in Nat
        /\ row \in LockRows /\ row.id \in Nat /\ now \in Nat /\ nextId \in Nat
    BY DEF TypeOK, LockRows
  <1>1. ASSUME NEW o \in Operations, BeginAcquire(o), UNCHANGED outlasted
        PROVE  FreshInv'
    BY <1>1, <1>0, LeaseIsNat DEF BeginAcquire, Goto, NoFault, recordVars,
        FreshInv, TypeOK, ClaimPcs
  <1>2. ASSUME NEW o \in Operations, AcquireNew(o), UNCHANGED outlasted
        PROVE  FreshInv'
    BY <1>2, <1>0, LeaseIsNat, CreatedRow DEF AcquireNew, Hold, Lost, End,
        Fault, Goto, NoFault, recordVars, FreshInv, TypeOK, ClaimPcs
  <1>3. ASSUME NEW o \in Operations, AcquireRead(o), UNCHANGED outlasted
        PROVE  FreshInv'
    BY <1>3, <1>0, LeaseIsNat DEF AcquireRead, IsBusy, Busy, Lost, End,
        Fault, Goto, NoFault, recordVars, FreshInv, TypeOK, ClaimPcs
  <1>4. ASSUME NEW o \in Operations, AcquireReclaim(o), UNCHANGED outlasted
        PROVE  FreshInv'
    BY <1>4, <1>0, LeaseIsNat, ReclaimedRow DEF AcquireReclaim, Reclaimable,
        Hold, Busy, Lost, End, Fault, Goto, NoFault, recordVars, FreshInv,
        TypeOK, ClaimPcs
  <1>5. ASSUME NEW o \in Operations, Renew(o), UNCHANGED outlasted
        PROVE  FreshInv'
    BY <1>5, <1>0, LeaseIsNat, ExtendedRow DEF Renew, Extendable, Fault,
        NoFault, recordVars, FreshInv, TypeOK, ClaimPcs
  <1>6. ASSUME NEW o \in Operations, Release(o), UNCHANGED outlasted
        PROVE  FreshInv'
    BY <1>6, <1>0, LeaseIsNat, MarkedRow DEF Release, Lost, End, Fault,
        NoFault, recordVars, FreshInv, TypeOK, ClaimPcs
  <1>7. ASSUME NEW o \in Operations, Die(o), UNCHANGED outlasted
        PROVE  FreshInv'
    BY <1>7, <1>0, LeaseIsNat DEF Die, Lost, End, Fault, recordVars,
        FreshInv, TypeOK, ClaimPcs
  <1>8. CASE Cleanup
    BY <1>8, <1>0, LeaseIsNat, NoRowFields DEF Cleanup, DeleteExpired,
        NoFault, callVars, FreshInv, TypeOK, ClaimPcs
  <1>9. CASE Tick
    BY <1>9, <1>0, LeaseIsNat DEF Tick, NoFault, callVars, recordVars,
        FreshInv, TypeOK, ClaimPcs
  <1>10. CASE UNCHANGED vars
    BY <1>10 DEF vars, recordVars, callVars, FreshInv, TypeOK, ClaimPcs
  <1> QED
    BY <1>1, <1>2, <1>3, <1>4, <1>5, <1>6, <1>7, <1>8, <1>9, <1>10 DEF Next

\* While the inserter renews, the lock has not run out, so nobody reclaims the row
\* and nobody but the inserter marks it.
LEMMA RenewStep ==
    ASSUME TypeOK, IdInv, ClockInv, FreshInv, RenewInv, [Next]_vars
    PROVE  RenewInv'
  <1>0. /\ \A o \in Operations : /\ start[o] \in Nat /\ mine[o] \in Nat
                                 /\ saw[o] \in LockRows /\ saw[o].id \in Nat
        /\ row \in LockRows /\ row.id \in Nat
        /\ row.lock \in Nat /\ row.expires \in Nat /\ now \in Nat
        /\ nextId \in Nat /\ MaxClaim \in Nat /\ RenewInterval \in Nat
        /\ \A o \in Operations : since[o] \in Nat
    BY LockAssumption DEF TypeOK, LockRows
  <1>d. /\ Delay \in Nat
        /\ Fault => Delay' = Delay + RenewInterval
        /\ NoFault => Delay' = Delay
        /\ MaxClaim + Delay + RenewInterval < Lease
    BY DelayStep
  <1>1. ASSUME NEW o \in Operations, BeginAcquire(o), UNCHANGED outlasted
        PROVE  RenewInv'
    BY <1>1, <1>0, <1>d, LeaseIsNat, LeaseAssumption DEF BeginAcquire, Goto,
        recordVars, IdInv, ClockInv, FreshInv, RenewInv, Renews,
        Held, TypeOK, ClaimPcs
  <1>2. ASSUME NEW o \in Operations, AcquireNew(o), UNCHANGED outlasted
        PROVE  RenewInv'
    <2>1. CASE /\ CreateProcessing(o, start[o] + Lease, start[o] + TTL)
               /\ Hold(o, nextId)
      <3>1. /\ row'.id = nextId /\ row'.print = o /\ row'.status = "processing"
            /\ row'.lock = start[o] + Lease /\ row'.expires = start[o] + TTL
        BY <1>0, <2>1, LeaseIsNat, CreatedRow
      <3>2. /\ now \leq start[o] + MaxClaim
            /\ row'.expires >= row'.lock
            /\ row'.lock + MaxClaim + Delay >= now + Lease
        BY <1>2, <1>0, <1>d, <3>1, LeaseIsNat, LeaseAssumption
           DEF AcquireNew, ClockInv, ClaimPcs
      <3>3. /\ pc' = [pc EXCEPT ![o] = "held"]
            /\ mine' = [mine EXCEPT ![o] = nextId]
            /\ start' = [start EXCEPT ![o] = now]
            /\ Delay' = Delay
        BY <1>d, <2>1 DEF Hold, Goto
      <3>4. \A q \in Operations : q # o => (Held(q)' => mine'[q] < nextId)
        BY <3>3 DEF IdInv, Held, TypeOK
      <3>5. \A q \in Operations : Renews(q)' => q = o
        BY <3>1, <3>4, <1>0 DEF Renews, Held
      <3> QED
        BY <1>0, <3>1, <3>2, <3>3, <3>4, <3>5 DEF RenewInv, Held, TypeOK
    <2>2. CASE /\ NoFault
               /\ Goto(o, "get")
               /\ UNCHANGED <<now, recordVars, start, saw, mine, since, renewing>>
      BY <1>2, <1>d, <2>2
         DEF AcquireNew, Goto, recordVars, RenewInv, Renews, Held, TypeOK
    <2>3. CASE Lost(o)
      BY <1>0, <1>d, <2>3, LeaseIsNat
         DEF Lost, End, recordVars, RenewInv, Renews, Held, TypeOK
    <2> QED
      BY <1>2, <2>1, <2>2, <2>3 DEF AcquireNew
  <1>3. ASSUME NEW o \in Operations, AcquireRead(o), UNCHANGED outlasted
        PROVE  RenewInv'
    BY <1>3, <1>0, <1>d, LeaseIsNat, LeaseAssumption DEF AcquireRead,
        IsBusy, Busy, Lost, End, Goto, recordVars, IdInv, ClockInv,
        FreshInv, RenewInv, Renews, Held, TypeOK, ClaimPcs
  <1>4. ASSUME NEW o \in Operations, AcquireReclaim(o), UNCHANGED outlasted
        PROVE  RenewInv'
    BY <1>4, <1>0, <1>d, LeaseIsNat, LeaseAssumption, ReclaimedRow DEF
        AcquireReclaim, Reclaimable, Hold, Busy, Lost, End, Goto,
        recordVars, IdInv, ClockInv, FreshInv, RenewInv, Renews, Held,
        TypeOK, ClaimPcs
  <1>5. ASSUME NEW o \in Operations, Renew(o), UNCHANGED outlasted
        PROVE  RenewInv'
    BY <1>5, <1>0, <1>d, LeaseIsNat, LeaseAssumption, ExtendedRow DEF Renew,
        Extendable, recordVars, IdInv, ClockInv, FreshInv,
        RenewInv, Renews, Held, TypeOK, ClaimPcs
  <1>6. ASSUME NEW o \in Operations, Release(o), UNCHANGED outlasted
        PROVE  RenewInv'
    BY <1>6, <1>0, <1>d, LeaseIsNat, LeaseAssumption, MarkedRow DEF Release,
        Lost, End, recordVars, IdInv, ClockInv, FreshInv, RenewInv,
        Renews, Held, TypeOK, ClaimPcs
  <1>7. ASSUME NEW o \in Operations, Die(o), UNCHANGED outlasted
        PROVE  RenewInv'
    BY <1>7, <1>0, <1>d, LeaseIsNat, LeaseAssumption DEF Die, Lost, End,
        recordVars, IdInv, ClockInv, FreshInv, RenewInv, Renews, Held,
        TypeOK, ClaimPcs
  <1>8. CASE Cleanup
    BY <1>8, <1>0, <1>d, LeaseIsNat, LeaseAssumption, NoRowFields DEF
        Cleanup, DeleteExpired, callVars, IdInv, ClockInv,
        FreshInv, RenewInv, Renews, Held, TypeOK, ClaimPcs
  <1>9. CASE Tick
    BY <1>9, <1>0, <1>d, LeaseIsNat, LeaseAssumption DEF Tick,
        callVars, recordVars, IdInv, ClockInv, FreshInv, RenewInv, Renews,
        Held, TypeOK, ClaimPcs
  <1>10. CASE UNCHANGED vars
    BY <1>10 DEF vars, recordVars, callVars, Delay, IdInv, ClockInv,
        FreshInv, RenewInv, Renews, Held, TypeOK, ClaimPcs
  <1> QED
    BY <1>1, <1>2, <1>3, <1>4, <1>5, <1>6, <1>7, <1>8, <1>9, <1>10 DEF Next

\* A new holder finds no row, or a lock that has run out, so there is no other; the
\* lock of a holder runs out only when Tick says that it outlasted its lease.
LEMMA ExclusiveStep ==
    ASSUME TypeOK, IdInv, ClockInv, FreshInv, RenewInv, Exclusive, [Next]_vars
    PROVE  Exclusive'
  <1>0. /\ \A o \in Operations : /\ start[o] \in Nat /\ mine[o] \in Nat
                                 /\ saw[o] \in LockRows /\ saw[o].id \in Nat
        /\ row \in LockRows /\ row.id \in Nat
        /\ row.lock \in Nat /\ row.expires \in Nat /\ now \in Nat
        /\ nextId \in Nat /\ MaxClaim \in Nat /\ RenewInterval \in Nat
        /\ \A o \in Operations : since[o] \in Nat
    BY LockAssumption DEF TypeOK, LockRows
  <1>d. /\ Delay \in Nat
        /\ Fault => Delay' = Delay + RenewInterval
        /\ NoFault => Delay' = Delay
        /\ MaxClaim + Delay + RenewInterval < Lease
    BY DelayStep
  <1>1. ASSUME NEW o \in Operations, BeginAcquire(o), UNCHANGED outlasted
        PROVE  Exclusive'
    BY <1>1, <1>0, <1>d, LeaseIsNat, LeaseAssumption DEF BeginAcquire, Goto,
        recordVars, IdInv, ClockInv, FreshInv, RenewInv, Renews,
        Exclusive, OneHolder, HolderInv, Held, TypeOK, ClaimPcs
  <1>2. ASSUME NEW o \in Operations, AcquireNew(o), UNCHANGED outlasted
        PROVE  Exclusive'
    <2>1. CASE /\ CreateProcessing(o, start[o] + Lease, start[o] + TTL)
               /\ Hold(o, nextId)
      <3>1. /\ row'.id = nextId /\ row'.print = o /\ row'.status = "processing"
            /\ row'.lock = start[o] + Lease /\ row'.expires = start[o] + TTL
            /\ row.id = 0
        <4>1. /\ nextId \in Nat
              /\ start[o] + Lease \in Nat /\ start[o] + TTL \in Nat
          BY <1>0, LeaseIsNat
        <4>2. CreateProcessing(o, start[o] + Lease, start[o] + TTL)
          BY <2>1
        <4>3. /\ row'.id = nextId /\ row'.print = o /\ row'.status = "processing"
              /\ row'.lock = start[o] + Lease /\ row'.expires = start[o] + TTL
              /\ row = NoRow
          BY <4>1, <4>2, CreatedRow
        <4> QED BY <4>3, NoRowFields
      <3>2. /\ now \leq start[o] + MaxClaim
            /\ row'.expires >= row'.lock
            /\ row'.lock + MaxClaim >= now + Lease
            /\ row'.lock > now
        BY <1>2, <1>0, <1>d, <3>1, LeaseIsNat, LeaseAssumption
           DEF AcquireNew, ClockInv, ClaimPcs
      <3>3. /\ pc' = [pc EXCEPT ![o] = "held"]
            /\ mine' = [mine EXCEPT ![o] = nextId]
            /\ since' = [since EXCEPT ![o] = now]
            /\ renewing' = [renewing EXCEPT ![o] = TRUE]
            /\ now' = now
        BY <2>1 DEF Hold, Goto
      <3>4. outlasted \/ \A q \in Operations : ~Held(q)
        BY <1>0, <3>1 DEF Exclusive, HolderInv, IdInv
      <3>5. outlasted \/ \A q \in Operations : Held(q)' => q = o
        BY <3>3, <3>4 DEF Held, TypeOK
      <3> QED
        BY <1>2, <1>0, <3>1, <3>2, <3>3, <3>5
           DEF Exclusive, OneHolder, HolderInv, TypeOK
    <2>2. CASE /\ NoFault
               /\ Goto(o, "get")
               /\ UNCHANGED <<now, recordVars, start, saw, mine, since, renewing>>
      BY <1>2, <1>d, <2>2
         DEF AcquireNew, Goto, recordVars, Exclusive, OneHolder, HolderInv, Held,
             TypeOK
    <2>3. CASE Lost(o)
      BY <1>2, <1>0, <1>d, <2>3, LeaseIsNat
         DEF Lost, End, recordVars, Exclusive, OneHolder, HolderInv, Held, TypeOK
    <2> QED
      BY <1>2, <2>1, <2>2, <2>3 DEF AcquireNew
  <1>3. ASSUME NEW o \in Operations, AcquireRead(o), UNCHANGED outlasted
        PROVE  Exclusive'
    BY <1>3, <1>0, <1>d, LeaseIsNat, LeaseAssumption DEF AcquireRead,
        IsBusy, Busy, Lost, End, Goto, recordVars, IdInv, ClockInv,
        FreshInv, RenewInv, Renews, Exclusive, OneHolder, HolderInv, Held,
        TypeOK, ClaimPcs
  <1>4. ASSUME NEW o \in Operations, AcquireReclaim(o), UNCHANGED outlasted
        PROVE  Exclusive'
    BY <1>4, <1>0, <1>d, LeaseIsNat, LeaseAssumption, ReclaimedRow DEF
        AcquireReclaim, Reclaimable, Hold, Busy, Lost, End, Goto,
        recordVars, IdInv, ClockInv, FreshInv, RenewInv, Renews, Exclusive,
        OneHolder, HolderInv, Held, TypeOK, ClaimPcs
  <1>5. ASSUME NEW o \in Operations, Renew(o), UNCHANGED outlasted
        PROVE  Exclusive'
    BY <1>5, <1>0, <1>d, LeaseIsNat, LeaseAssumption, ExtendedRow DEF Renew,
        Extendable, recordVars, IdInv, ClockInv, FreshInv,
        RenewInv, Renews, Exclusive, OneHolder, HolderInv, Held, TypeOK,
        ClaimPcs
  <1>6. ASSUME NEW o \in Operations, Release(o), UNCHANGED outlasted
        PROVE  Exclusive'
    BY <1>6, <1>0, <1>d, LeaseIsNat, LeaseAssumption, MarkedRow DEF Release,
        Lost, End, recordVars, IdInv, ClockInv, FreshInv, RenewInv,
        Renews, Exclusive, OneHolder, HolderInv, Held, TypeOK, ClaimPcs
  <1>7. ASSUME NEW o \in Operations, Die(o), UNCHANGED outlasted
        PROVE  Exclusive'
    BY <1>7, <1>0, <1>d, LeaseIsNat, LeaseAssumption DEF Die, Lost, End,
        recordVars, IdInv, ClockInv, FreshInv, RenewInv, Renews, Exclusive,
        OneHolder, HolderInv, Held, TypeOK, ClaimPcs
  <1>8. CASE Cleanup
    BY <1>8, <1>0, <1>d, LeaseIsNat, LeaseAssumption, NoRowFields DEF
        Cleanup, DeleteExpired, callVars, IdInv, ClockInv,
        FreshInv, RenewInv, Renews, Exclusive, OneHolder, HolderInv, Held,
        TypeOK, ClaimPcs
  <1>9. CASE Tick
    <2>1. /\ now' = now + 1
          /\ Delay' = Delay
          /\ UNCHANGED <<row, pc, start, mine, since, renewing>>
      BY <1>9, <1>d DEF Tick, recordVars, callVars
    <2>2. CASE outlasted \/ \E o \in Operations : Outlasts(o)
      BY <1>9, <2>2 DEF Tick, Exclusive
    <2>3. CASE ~outlasted /\ \A o \in Operations : ~Outlasts(o)
      <3>1. OneHolder /\ HolderInv
        BY <2>3 DEF Exclusive
      <3>2. ASSUME NEW o \in Operations, Held(o)
            PROVE  /\ row.lock > now + 1
                   /\ ~renewing[o] => now + 1 + MaxClaim < since[o] + Lease
        <4>1. CASE renewing[o]
          <5>1. now + 1 \leq start[o] + RenewInterval
            BY <1>9, <1>0, <4>1 DEF Tick
          <5>2. CASE row.print = o
            BY <1>0, <1>d, <3>1, <3>2, <4>1, <5>1, <5>2, LeaseIsNat
               DEF HolderInv, RenewInv, Renews
          <5>3. CASE row.print # o
            BY <1>0, <1>d, <3>1, <3>2, <4>1, <5>1, <5>3, LeaseIsNat DEF HolderInv
          <5> QED
            BY <4>1, <5>2, <5>3
        <4>2. CASE ~renewing[o]
          BY <1>0, <2>3, <3>1, <3>2, <4>2, LeaseIsNat
             DEF HolderInv, Outlasts, Held
        <4> QED
          BY <4>1, <4>2
      <3> QED
        BY <1>0, <2>1, <3>1, <3>2 DEF Exclusive, OneHolder, HolderInv, Held
    <2> QED
      BY <2>2, <2>3
  <1>10. CASE UNCHANGED vars
    BY <1>10 DEF vars, recordVars, callVars, Delay, IdInv, ClockInv,
        FreshInv, RenewInv, Renews, Exclusive, OneHolder, HolderInv, Held,
        TypeOK, ClaimPcs
  <1> QED
    BY <1>1, <1>2, <1>3, <1>4, <1>5, <1>6, <1>7, <1>8, <1>9, <1>10 DEF Next

-----------------------------------------------------------------------------
(* Theorems.                                                               *)

\* The inductive invariant holds.
THEOREM AlwaysLocked == Spec => []LockInv
  <1>1. Init => LockInv
    <2> SUFFICES ASSUME Init PROVE LockInv
      OBVIOUS
    <2>1. renewing \in [Operations -> BOOLEAN] /\ outlasted \in BOOLEAN
      BY DEF Init
    <2>2. /\ pc \in [Operations -> Pcs]
          /\ row \in LockRows /\ saw \in [Operations -> LockRows]
      BY NoRowFields DEF Init, Pcs
    <2>3. TypeOK
      BY <2>1, <2>2, LockAssumption DEF Init, TypeOK
    <2> QED
      BY <2>3, NoRowFields
         DEF Init, LockInv, IdInv, ClockInv, FreshInv, RenewInv, Renews, Exclusive,
             OneHolder, HolderInv, Held, ClaimPcs
  <1>2. LockInv /\ [Next]_vars => LockInv'
    BY TypeStep, IdStep, ClockStep, FreshStep, RenewStep, ExclusiveStep
       DEF LockInv
  <1> QED
    BY <1>1, <1>2, PTL DEF Spec

\* Every variable keeps its type.
THEOREM TypeCorrect == Spec => []TypeOK
  <1>1. LockInv => TypeOK
    BY DEF LockInv
  <1> QED
    BY <1>1, AlwaysLocked, PTL

\* Updates, rollbacks and restarts exclude each other until one of them has
\* outlasted a lease that its renewLoop gave up: the row that CreateProcessing
\* and TryReclaim test is locked for the one that runs.
THEOREM OperationsExclude == Spec => []MutualExclusion
  <1>1. LockInv => MutualExclusion
    BY DEF LockInv, Exclusive, OneHolder, MutualExclusion
  <1> QED
    BY <1>1, AlwaysLocked, PTL

\* The operation that inserted the row keeps a lock that has not run out,
\* however long it runs and although renewals fail.
THEOREM InserterStaysLocked == Spec => []InserterKeepsLock
  <1>1. ASSUME LockInv, NEW o \in Operations, Renews(o)
        PROVE  row.status = "processing" /\ row.lock > now
    <2>1. /\ now \leq start[o] + RenewInterval
          /\ row.lock + MaxClaim + Delay >= start[o] + Lease
          /\ row.status = "processing"
      BY <1>1 DEF LockInv, ClockInv, RenewInv, Renews
    <2>2. Delay \in Nat /\ MaxClaim + Delay + RenewInterval < Lease
      BY <1>1, DelayStep DEF LockInv
    <2>3. /\ now \in Nat /\ start[o] \in Nat /\ row.lock \in Nat
          /\ MaxClaim \in Nat /\ RenewInterval \in Nat /\ Lease \in Nat
      BY <1>1, LockAssumption, LeaseIsNat DEF LockInv, TypeOK, LockRows
    <2> QED
      BY <2>1, <2>2, <2>3
  <1>2. LockInv => InserterKeepsLock
    BY <1>1 DEF InserterKeepsLock, Renews
  <1> QED
    BY <1>2, AlwaysLocked, PTL
==============================================================================
