CONSTANTS
    Cap = 1
    MaxMsg = 3
    MaxFail = 0
SPECIFICATION Spec
PROPERTIES StopReturns
CHECK_DEADLOCK FALSE
