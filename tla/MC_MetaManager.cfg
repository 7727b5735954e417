\* Two valid partition directories on disk, one partition Start that
\* fails, one handler running createPartition, one Start, no crash.
CONSTANTS
    p1 = p1
    p2 = p2
    h1 = h1
    s1 = s1
    u1 = u1
    IDs <- MCIDs
    UnparsedDirs = {}
    InitDisk <- MCIDs
    Handlers <- MCHandlers
    MaxStartFails = 1
    MaxStarts = 1
    MaxCrashes = 0
SPECIFICATION Spec
PROPERTY StartReportsLoad
