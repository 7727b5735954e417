\* One writer of one- and two-unit writes, two data partitions of which
\* one may fail, extents of two units, one MetaNode outage: every request
\* the server goroutine takes up is answered.
CONSTANTS
    Start = 1
    End = 2
    Keys <- MCKeys
    DPs = {1, 2}
    ExtentCap = 2
    MaxWrite = 3
    MaxSelectDataPartionForWrite = 2
    MaxStreamInitRetry = 1
    MaxExtents = 3
    MaxDPFailures = 1
    MaxMetaOutages = 1
    WriteSizes = {1, 2}
    NoWriter = NoWriter
SPECIFICATION Spec
PROPERTY RequestAnswered
