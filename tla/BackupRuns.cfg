SPECIFICATION FairSpec
CONSTANTS
    A = A
    B = B
    U = U
    R1 = R1
    R2 = R2
    Path = {A, B, U}
    Repo = {R1, R2}
    NoRepo = NoRepo
    RepoOf <- MCRepoOf
    Node = {n1, n2}
    Pruner = {pr}
    Free = Free
    Workers = 2
    MaxRetries = 2
    Overrun = FALSE
    Budget <- RunLimits
INVARIANTS TypeOK MutualExclusion NoLostMarker Accounting
PROPERTIES EventuallyStored ImplementsService
