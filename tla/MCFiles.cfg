SPECIFICATION MCSpec
CONSTANTS
    v1 = v1
    v2 = v2
    iso = iso
    x = x
    y = y
    Volumes <- MCVolumes
    Kind <- MCKind
    Images <- StartImages
    Sessions <- StartSessions
    SymlinkMax = 4
    ReadLimit = 4
    OwnerMax = 1002
    MaxMounts = 3
    Paths <- MCPaths
    MountPoints <- MCMountPoints
    Targets <- MCTargets
    HostFiles <- MCHostFiles
    Texts <- MCTexts
    Plenty = 8
    Shortages = {0, 1, 3, 5, 6}
    MaxCommands = 4
    MaxFaults = 1
    Steps = 16
    Root <- MCRoot
    Users = {"u", "w"}
    Hashes = {"p"}
    ExplicitIds = {1003}
    FirstUid = 1000
    UidMax = 1003
INVARIANTS ResolveAgrees AccountsSound
PROPERTY WritesLand
CHECK_DEADLOCK FALSE
