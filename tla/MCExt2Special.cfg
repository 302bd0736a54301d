SPECIFICATION Spec
CONSTANTS
    GroupCount = 2
    BlocksPerGroup = 4
    BlocksCount = 7
    InodesPerGroup = 2
    DataRel = 1
    FirstIno = 3
    DirectSlots = 2
    PtrsPerBlock = 1
    DirSlots = 2
    Names = {"a", "b"}
    FileSizes = {1}
    NodeNumbers = {1}
    RewriteModes = {"reg"}
    CrashOps = {}
INVARIANTS
    ClaimedMarked
