--------------------------- MODULE MC_StreamWriter ---------------------------
EXTENDS StreamWriter

\* Every key the writer can send: a partition, an extent id and an
\* acknowledged size.
MCKeys == [pid : DPs, eid : 1..MaxExtents, size : 1..ExtentCap]

=============================================================================
