\* A provider that can be asked about a refund, one request at a time, with amounts
\* enough for two pending refunds; audit reads and writes may fail.
SPECIFICATION Spec
CONSTANTS
    Admins = {a1}
    Amount = 3
    MaxBalance = 3
    Queryable = TRUE
    MaxFaults = 2
    SwallowsFaults = TRUE
INVARIANTS
    NeverRefundedUnpaid
PROPERTY NoOverdraft
\* A refunded order, or one left REFUNDING by a crash, needs no further step.
CHECK_DEADLOCK FALSE
