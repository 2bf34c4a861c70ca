\* A worker adopts the lease version of its successor.
SPECIFICATION Spec
CONSTANTS
    Orders = {balance}
    SubscriptionOrders = {}
    Workers = {w1, w2}
    ReportsTradeNo = {balance}
    Cancelable = {balance}
    Polled = {balance}
    MaxFaults = 2
    SwallowsFaults = FALSE
SYMMETRY WorkerSymmetry
PROPERTY StaleWorkerFailsNobody
CHECK_DEADLOCK FALSE
