\* A pending refund whose rollback failed is finalized.
SPECIFICATION Spec
CONSTANTS
    Admins = {a1}
    Amount = 2
    MaxBalance = 3
    Queryable = TRUE
    MaxFaults = 2
    SwallowsFaults = FALSE
PROPERTY NothingMoreIsTaken
\* A refunded order, or one left REFUNDING by a crash, needs no further step.
CHECK_DEADLOCK FALSE
