\* Inode ids handed out by the old and the new partition of a split.
CONSTANTS
    MaxInodeID = 5
    Step = 1
    MaxParts = 2
    MaxFails = 1
    MaxLost = 0
SPECIFICATION Spec
INVARIANT UniqueInodeIDs
