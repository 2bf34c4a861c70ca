\* A provider that cannot be asked about a refund (Alipay, EasyPay).
SPECIFICATION Spec
CONSTANTS
    Admins = {a1, a2}
    Amount = 2
    MaxBalance = 3
    Queryable = FALSE
    MaxFaults = 2
    SwallowsFaults = FALSE
SYMMETRY AdminSymmetry
INVARIANTS
    TypeOK
    TakenOnce
    GivenBackOrMarked
    RefundedIsPaidBack
    OneRefunder
PROPERTIES
    NoOverdraft
    NothingMoreIsTaken
    KeepsRefundPromise
\* A refunded order, or one left REFUNDING by a crash, needs no further step.
CHECK_DEADLOCK FALSE
