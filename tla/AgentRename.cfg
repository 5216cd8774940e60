SPECIFICATION AgentSpec
CONSTANTS
    Path <- TwoNames
    Outside = {}
    Dir <- FirstName
    Device <- OneDevice
    Inode = {i1, i2}
    NoInode = NoInode
    Cpu = {c1, c2}
    QuietPeriod = 2
    MaxWait = 4
    TickGap = 1
    DedupInterval = 1
    CallTime = 1
    RingSize = 4
    Budget = 2
INVARIANT RenamesPaired
