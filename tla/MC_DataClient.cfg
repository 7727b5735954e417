\* Two goroutines reading one extent through the same ExtentReader; one
\* read each, no crash or view change needed.  The reads are bounded, so
\* the model stops.
CONSTANTS
    d1 = d1
    d2 = d2
    a1 = a1
    a2 = a2
    a3 = a3
    t1 = t1
    t2 = t2
    Partitions <- MCPartitions
    Addrs <- MCAddrs
    PartHosts <- MCPartHosts
    InitPartitions <- MCPartitions
    MinWritable = 1
    KeyPartition = d1
    Threads <- MCThreads2
    MaxReads = 1
    MaxCrashes = 0
    MaxViewChanges = 0
    ReadWrite = ReadWrite
    ReadOnly = ReadOnly
SPECIFICATION Spec
INVARIANT ReadTriesEveryReplica
CHECK_DEADLOCK FALSE
