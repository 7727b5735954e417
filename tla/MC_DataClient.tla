---------------------------- MODULE MC_DataClient ----------------------------
EXTENDS DataClient

CONSTANTS d1, d2, a1, a2, a3, t1, t2

MCPartitions == {d1, d2}
MCAddrs == {a1, a2, a3}
MCPartHosts == [p \in MCPartitions |-> IF p = d1 THEN <<a1, a2, a3>>
                                       ELSE <<a2, a3, a1>>]
MCThreads1 == {t1}
MCThreads2 == {t1, t2}
MCInit == {d1}

====
