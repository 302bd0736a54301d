SPECIFICATION Spec
CONSTANTS
    GroupCount = 2
    BlocksPerGroup = 5
    BlocksCount = 8
    InodesPerGroup = 2
    DataRel = 1
    FirstIno = 3
    DirectSlots = 2
    PtrsPerBlock = 1
    DirSlots = 2
    Names = {a, b}
    FileSizes = {1, 3}
    NodeNumbers = {8}
    RewriteModes = {"reg"}
    CrashOps = {"create", "mkdir", "mknod", "symlink", "unlink"}
SYMMETRY NameSymmetry
INVARIANTS
    ClaimedMarked
    SingleOwner
    RecordsSound
    UniqueNames
    FsckTruthful
PROPERTIES
    NamesSurvive
