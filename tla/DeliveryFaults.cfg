SPECIFICATION FairSpec
CONSTANTS
    Event = {e1, e2}
    MaxQueue = 1
    WalMax = 2
    Budget <- AllFaults
INVARIANTS TypeOK Accounted CleanStop
PROPERTIES EventuallyDelivered ImplementsChannel
CHECK_DEADLOCK FALSE
