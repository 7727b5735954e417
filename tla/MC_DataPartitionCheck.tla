----------------------- MODULE MC_DataPartitionCheck -----------------------
(* One DataPartition with two persistence hosts out of three DataNodes:    *)
(* the third DataNode is where an excess replica can live.                *)
EXTENDS DataPartitionCheck

CONSTANTS a1, a2, a3

MCAddrs == {a1, a2, a3}
MCPersistenceHosts == <<a1, a2>>
=============================================================================
