\* No fault at all: the owner cancels the job between its creation and the hold.
SPECIFICATION Spec
CONSTANTS
    Workers = {w1, w2}
    Free = free
    Orphan = orphan
    HoldAmount = 2
    OtherFrozen = 2
    Costs = {1, 3}
    MaxRetries = 2
    MaxFaults = 0
INVARIANT FailedSubmitReleasesHold
CHECK_DEADLOCK FALSE
