\* A record that expired is reclaimed twice.
SPECIFICATION Spec
SYMMETRY RequestSymmetry
CONSTANTS
    r1 = r1
    r2 = r2
    r3 = nobody
    NoRequest = nobody
    Requests = {r1, r2, r4}
    Payload <- MCPayload
    Oversized = {}
    Timeout = 2
    TTL = 3
    Backoff = 1
    MaxClaim = 1
    MaxRun = 2
    MaxTime = 7
    MaxFaults = 0
INVARIANT OncePerLifetime
\* Every request ends.
CHECK_DEADLOCK FALSE
