SPECIFICATION Spec
CONSTANTS
    A = A
    B = B
    Path = {A, B}
    Consumer = {c1}
    Partition = {p1}
    NoOne = NoOne
    Message <- MCFewMessages
    BatchSize = 2
    BatchTimeout = 1
    MaxLog = 3
    Budget <- RedisFault
CHECK_DEADLOCK FALSE
INVARIANT AtLeastOnce
