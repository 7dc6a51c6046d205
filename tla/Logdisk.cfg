SPECIFICATION LogdiskSpec
CONSTANTS
    PendingMax <- MCPendingMax
    LineMax <- MCLineMax
    MaxBytes <- MCMaxBytes
    MaxLines = 5
    Ticking = TRUE
INVARIANTS
    CursorsInOrder
    FirstInFirstOut
    FileWithinCap
PROPERTY PendingIsDrained
CHECK_DEADLOCK FALSE
