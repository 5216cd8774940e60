SPECIFICATION Spec
CONSTANTS
    File <- MCTwoFiles
    Base <- MCBase
    Depth = 2
    Node = {n1}
    KeepDays = 1
    MaxTime = 3
    Unreadable = 0
INVARIANT RestoreFinds
