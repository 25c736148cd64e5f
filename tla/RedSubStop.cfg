CONSTANTS
    Cap = 4
    MaxMsg = 4
    MaxFail = 2
SPECIFICATION Spec
INVARIANTS TypeOK OneSubscription
PROPERTIES Resubscribes StopReturns
CHECK_DEADLOCK FALSE
