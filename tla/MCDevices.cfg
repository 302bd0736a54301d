SPECIFICATION Spec
CONSTANTS
    Images = {"disk.img", "disk.vmdk"}
    Format <- MCFormat
    Disks <- MCDisks
    Targets <- MCDisks
    Parts <- MCParts
    HostFiles <- MCHostFiles
    MountPoints = {"/"}
    Sizes = {8}
    MaxLba = 9
    Media <- MCMedia
    MediaSize <- MCMediaSize
    NumEntries = 2
    Requests <- MCRequests
    Sector = 2
    MaxKeys = 2
    MaxRows = 5
    MaxParts = 4
    MaxMounts = 1
    MaxCommands = 6
    MaxFaults = 2
    Careful = TRUE
INVARIANTS AddAtomic NothingLost RowsExact MountStable
CHECK_DEADLOCK FALSE
