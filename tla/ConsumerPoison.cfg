SPECIFICATION FairSpec
CONSTANTS
    A = A
    B = B
    Path = {A, B}
    Consumer = {c1}
    Partition = {p1}
    NoOne = NoOne
    Message <- MCUndecodable
    BatchSize = 2
    BatchTimeout = 1
    MaxLog = 2
    Budget <- NoFaults
CHECK_DEADLOCK FALSE
PROPERTY EventuallyApplied
