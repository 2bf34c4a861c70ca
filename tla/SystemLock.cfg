\* Operations shorter and longer than their lease.
SPECIFICATION Spec
CONSTANTS
    NoRequest = nobody
    Operations = {o1, o2, o3}
    Timeout = 4
    TTL = 5
    RenewInterval = 1
    MaxClaim = 1
    MaxRun = 6
    MaxTime = 10
    MaxFaults = 1
SYMMETRY OperationSymmetry
INVARIANTS
    TypeOK
    MutualExclusion
    InserterKeepsLock
\* Every call ends.
CHECK_DEADLOCK FALSE
