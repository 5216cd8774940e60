SPECIFICATION FairSpec
CONSTANTS
    A = A
    B = B
    Path = {A, B}
    Consumer = {c1, c2}
    Partition = {p1}
    NoOne = NoOne
    Message <- MCFewMessages
    BatchSize = 2
    BatchTimeout = 1
    MaxLog = 2
    Budget <- ProcessFaults
CHECK_DEADLOCK FALSE
INVARIANT LossExplained
PROPERTY EventuallyApplied
