SPECIFICATION FairAgentSpec
CONSTANTS
    Path = {p}
    Outside = {o}
    Dir <- Own
    Device <- OneDevice
    Inode = {i}
    NoInode = NoInode
    Cpu = {c1, c2}
    QuietPeriod = 2
    MaxWait = 2
    TickGap = 1
    DedupInterval = 1
    CallTime = 1
    RingSize = 2
    Budget = 1
INVARIANTS AgentTypeOK ChangesCovered BoundedDelay NothingForgotten
PROPERTIES RateLimit EventuallyReported
