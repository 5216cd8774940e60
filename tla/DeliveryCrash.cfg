SPECIFICATION Spec
CONSTANTS
    Event = {e1, e2}
    MaxQueue = 2
    WalMax = 2
    Budget <- CrashFault
INVARIANT LoggedPreserved
CHECK_DEADLOCK FALSE
