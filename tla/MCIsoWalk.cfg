SPECIFICATION DSpec
CONSTANTS
    IsoImages <- MCIsoImages
    Ext2Dirs <- MCExt2Dirs
    WantedNames <- MCWantedNames
    LowerOf <- MCLowerOf
    SectorSize = 6
    BufferSizes = {3, 5}
    CeMaxDepth = 3
    CeMaxBytes = 25
    Repeats = 8
    ReadSizes = {1, 3}
INVARIANT LookupStays
CHECK_DEADLOCK FALSE
