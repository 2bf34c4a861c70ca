\* A balance order, two workers and one fault under the fairness of the code.
SPECIFICATION FairSpec
CONSTANTS
    Orders = {balance}
    SubscriptionOrders = {}
    Workers = {w1, w2}
    ReportsTradeNo = {balance}
    Cancelable = {balance}
    Polled = {}
    MaxFaults = 1
    SwallowsFaults = FALSE
INVARIANT AckedIsHandled
PROPERTY PaidOrderIsHandled
CHECK_DEADLOCK FALSE
