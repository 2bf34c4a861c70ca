\* A poller, a full rebuild and a request without a snapshot, at most two of them
\* at a time, one change of the accounts, one of the group, which may be active
\* or gone at first, and one failed call or crash.
SPECIFICATION FairSpec
CONSTANTS
    Pollers = {p1}
    Rebuilders = {f1}
    Readers = {r1}
    Free = free
    EmptyRevs = {0}
    MaxAccountChanges = 1
    MaxGroupChanges = 1
    MaxBusy = 2
    MaxFaults = 1
INVARIANTS
    TypeOK
    NothingFromBeforeRetirement
    ConsumedIsHandled
PROPERTIES
    LifecycleNeverGoesBack
    Converges
\* A system in which nothing changes any more may rest.
CHECK_DEADLOCK FALSE
