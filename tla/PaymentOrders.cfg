\* A balance order or a subscription order and two workers; every provider
\* feature is on and reads whose errors the code drops may fail.
SPECIFICATION Spec
CONSTANTS
    Orders = {balance, sub}
    SubscriptionOrders = {sub}
    Workers = {w1, w2}
    ReportsTradeNo = {balance, sub}
    Cancelable = {balance, sub}
    Polled = {balance, sub}
    MaxFaults = 2
    SwallowsFaults = TRUE
SYMMETRY WorkerSymmetry
CONSTRAINT OneOrder
INVARIANTS
    TypeOK
    Consistent
    DeliveredOnce
    DeliveredOnlyIfPaid
    CompletedMeansDelivered
    PaidIsRemembered
PROPERTIES
    KeepsPromise
    SettledIsFinal
\* An order that failed, expired or was settled needs no further step.
CHECK_DEADLOCK FALSE
