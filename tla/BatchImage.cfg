\* Two workers, a settlement that is given up at the second failure, a price
\* within and one beyond the hold, and other jobs whose money the release could
\* take by mistake.
SPECIFICATION FairSpec
CONSTANTS
    Workers = {w1, w2}
    Free = free
    Orphan = orphan
    HoldAmount = 2
    OtherFrozen = 2
    Costs = {1, 3}
    MaxRetries = 2
    MaxFaults = 2
INVARIANTS
    TypeOK
    CompletedIsPaid
    RefundedIsOver
    EndedIsReleased
PROPERTIES
    NeverReopened
    QueuedIsSettled
\* A settled job needs no further step.
CHECK_DEADLOCK FALSE
