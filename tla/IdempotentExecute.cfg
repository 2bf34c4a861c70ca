\* Three requests that repeat each other and one with another payload, during a
\* lifetime of the record and the beginning of the next.
SPECIFICATION Spec
SYMMETRY RequestSymmetry
CONSTANTS
    r1 = r1
    r2 = r2
    r3 = r3
    NoRequest = nobody
    Requests = {r1, r2, r3, r4}
    Payload <- MCPayload
    Oversized = {r2}
    Timeout = 2
    TTL = 3
    Backoff = 1
    MaxClaim = 1
    MaxRun = 2
    MaxTime = 5
    MaxFaults = 1
INVARIANTS
    TypeOK
    ReplayIsTrue
    OnceUntilExpiry
    OneAtATime
\* Every request ends.
CHECK_DEADLOCK FALSE
