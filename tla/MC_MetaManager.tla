---------------------------- MODULE MC_MetaManager ----------------------------
EXTENDS MetaManager

CONSTANTS p1, p2, h1, s1, u1

MCIDs == {p1, p2}
MCHandlers == {h1}

====
