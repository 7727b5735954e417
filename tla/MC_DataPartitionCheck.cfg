\* Every reconciler property of one data partition; a2 may be lost for good.
CONSTANTS
    a1 = a1
    a2 = a2
    a3 = a3
    Addrs <- MCAddrs
    PersistenceHosts <- MCPersistenceHosts
    ReplicaNum = 2
    ReadWrite = ReadWrite
    ReadOnly = ReadOnly
    Unavailable = Unavailable
    ReportStatuses = {ReadWrite, ReadOnly, Unavailable}
    TimeOutSec = 2
    MissSec = 2
    WarnInterval = 1
    MaxCrashes = 1
    Permanent = {a2}
    OpCreate = OpCreate
    OpDelete = OpDelete
SPECIFICATION Spec
INVARIANT TypeOK
PROPERTY DownHostDemotes
PROPERTY Convergence
PROPERTY MissedHostWarned
