SPECIFICATION Spec
CONSTANTS
    GroupCount = 2
    BlocksPerGroup = 5
    BlocksCount = 8
    InodesPerGroup = 2
    DataRel = 1
    FirstIno = 3
    DirectSlots = 2
    PtrsPerBlock = 1
    DirSlots = 2
    Names = {"a", "b"}
    FileSizes = {0, 3, 5}
    NodeNumbers = {0, 8}
    RewriteModes = {"reg"}
    CrashOps = {}
INVARIANTS
    TypeOK
    CountersExact
    LinkCountsExact
    OnlyFailuresLeak
    RoomFound
