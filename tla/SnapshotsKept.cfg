SPECIFICATION Spec
CONSTANTS
    File <- MCFile
    Base <- MCBase
    Depth = 2
    Node = {n1}
    KeepDays = 2
    MaxTime = 3
    Unreadable = 1
INVARIANTS TypeOK NewestKept RecentKept StatusTrue
