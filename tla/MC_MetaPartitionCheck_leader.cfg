\* Two replica records flagged leader after a leader change.
CONSTANTS
    m1 = m1
    m2 = m2
    m3 = m3
    m4 = m4
    Addrs <- MCAddrs
    InitHosts <- MCInitHosts
    ReplicaNum = 3
    ReadWrite = ReadWrite
    ReadOnly = ReadOnly
    Unavailable = Unavailable
    ReportStatuses = {ReadWrite, Unavailable}
    TimeOutSec = 2
    WarnInterval = 1
    MaxOfflines = 0
    MaxStepDowns = 1
    OpCreate = OpCreate
    OpDelete = OpDelete
    NoNode = NoNode
SPECIFICATION Spec
INVARIANT AtMostOneLeaderRecord
