\* checkEnd racing UpdateEnd on the highest partition.
CONSTANTS
    MaxInodeID = 5
    Step = 1
    MaxParts = 2
    MaxFails = 1
    MaxLost = 0
SPECIFICATION Spec
INVARIANT RangesDisjoint
