----------------------- MODULE MC_MetaPartitionCheck -----------------------
EXTENDS MetaPartitionCheck

CONSTANTS m1, m2, m3, m4

MCAddrs == {m1, m2, m3, m4}
MCInitHosts == <<m1, m2, m3>>

====
