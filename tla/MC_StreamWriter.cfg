\* One writer of one- and two-unit writes, two data partitions of which one may
\* fail, extents of two units; the MetaNode stays reachable, may restart
\* and may apply a retried key again; another client may delete the inode.
CONSTANTS
    Start = 1
    End = 2
    Keys <- MCKeys
    DPs = {1, 2}
    ExtentCap = 2
    MaxWrite = 3
    MaxSelectDataPartionForWrite = 2
    MaxStreamInitRetry = 1
    MaxExtents = 3
    MaxDPFailures = 1
    MaxMetaOutages = 0
    WriteSizes = {1, 2}
    NoWriter = NoWriter
SPECIFICATION Spec
INVARIANT TypeOK
INVARIANT FlushedDurable
INVARIANT SizeMatchesContent
PROPERTY ImplementsInodeMap
