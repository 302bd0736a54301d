SPECIFICATION ToolsSpec
CONSTANTS
    IsoImages <- MCIsoImages
    Ext2Dirs <- MCExt2Dirs
    WantedNames <- MCWantedNames
    LowerOf <- MCLowerOf
    SectorSize = 4
    BufferSizes = {3, 5}
    CeMaxDepth = 3
    CeMaxBytes = 25
    Repeats = 8
    ReadSizes = {1, 3}
    Repositories <- MCRepositories
    Requested = {"a", "d", "e", "g"}
    Statuses <- MCStatuses
    MaxRepos = 2
    MaxNodes = 4
    MaxEdges = 6
    MaxStatus = 5
    VersionTexts <- MCVersionTexts
    DependsLists <- MCDependsLists
    ControlTexts <- MCControlTexts
    DepMaxGroups = 3
    DepMaxAlts = 2
    Targets <- MCTargets
    StandardDirs <- MCStandardDirs
    MainConf = "main"
    ReadLimit = 250
    CacheHeader = 48
    EntrySize = 24
    PathLength = 3
    Members <- MCMembers
    InSizes = {1, 4, 9}
    OutSizes = {1, 3, 40}
    HeaderSize = 3
    CrcLength = 2
    VliBase = 4
    VliMax = 3
    Align = 2
    InRequired = 3
    RcInit = 1
    DictMax = 4
    Unknown = 999
    Hosts <- MCHosts
    Commands <- MCCommands
    NameLength <- MCNameLength
    Backslashed <- MCBackslashed
    DotEnded <- MCDotEnded
    Blanked <- MCBlanked
    NameWidth = 10
    PrefixWidth = 9
    NameBuffer = 20
    ArWidth = 3
    BlockSize = 2
    XzTails = {0, 1}
    GzMembers <- MCGzMembers
    ByteBits = 4
    MaxBits = 3
    EndSymbol = 3
    MaxLitCodes = 6
    LBase <- MCLBase
    LExt <- MCLExt
    DBase <- MCDBase
    DExt <- MCDExt
    FixedLit <- MCFixedLit
    FixedDist <- MCFixedDist
    ClOrder <- MCClOrder
    ClBits = 2
    ClLeast = 4
    HlitBits = 2
    HdistBits = 1
    HclenBits = 2
    Runs <- MCRuns
    Debs <- MCDebs
    Roots <- MCRoots
    Menus <- MCMenus
    Payloads <- MCPayloads
    Preinsts <- MCPreinsts
    Postinsts <- MCPostinsts
    Known <- MCKnown
    Recipes <- MCRecipes
    Promised <- MCPromised
    SymlinkMax = 2
    MaxRuns = 4
    MaxLosses = 2
    Volumes <- MCVolumes
    FatOptions <- MCFatOptions
    NtfsOptions <- MCNtfsOptions
INVARIANTS
    ListingExact
    LookupExact
    UnpackOrdered
    AppliedSatisfied
    MetadataExact
    CacheFound
    StreamExact
    
    InflateExact
    ScriptsSound
    
CHECK_DEADLOCK FALSE
