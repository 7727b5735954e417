\* The main configuration with one period in which the MetaNode is
\* unreachable: a flush may then report success for data whose extent key
\* never reached the MetaNode (recoverExtent ignores the failed update).
CONSTANTS
    Start = 1
    End = 2
    Keys <- MCKeys
    DPs = {1, 2}
    ExtentCap = 2
    MaxWrite = 3
    MaxSelectDataPartionForWrite = 2
    MaxStreamInitRetry = 1
    MaxExtents = 3
    MaxDPFailures = 1
    MaxMetaOutages = 1
    WriteSizes = {1}
    NoWriter = NoWriter
SPECIFICATION Spec
INVARIANT FlushedDurable
