\* Splits of a volume's meta partitions, with failed raft writes and lost tasks.
CONSTANTS
    MaxInodeID = 5
    Step = 1
    MaxParts = 2
    MaxFails = 1
    MaxLost = 1
SPECIFICATION Spec
INVARIANT TypeOK
PROPERTY MaxPartitionOpen
