SPECIFICATION Spec
CONSTANTS
    A = A
    B = B
    Path = {A, B}
    Consumer = {c1}
    Partition = {p1}
    NoOne = NoOne
    Message <- MCMessage
    BatchSize = 2
    BatchTimeout = 1
    MaxLog = 3
    Budget <- AllFaults
CHECK_DEADLOCK FALSE
INVARIANTS TypeOK LossExplained MarkersExact
