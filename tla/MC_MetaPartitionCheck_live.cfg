\* Convergence of one meta partition after one offline.
CONSTANTS
    m1 = m1
    m2 = m2
    m3 = m3
    m4 = m4
    Addrs <- MCAddrs
    InitHosts <- MCInitHosts
    ReplicaNum = 3
    ReadWrite = ReadWrite
    ReadOnly = ReadOnly
    Unavailable = Unavailable
    ReportStatuses = {ReadWrite}
    TimeOutSec = 2
    WarnInterval = 1
    MaxOfflines = 1
    MaxStepDowns = 0
    OpCreate = OpCreate
    OpDelete = OpDelete
    NoNode = NoNode
SPECIFICATION Spec

PROPERTY Convergence
