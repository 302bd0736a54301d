\* One handle at a time, host writes that fail.
SPECIFICATION FairSpec
CONSTANTS
  BlocksCount = 3
  BlockSectors = 2
  Handles = {h1}
  Values = {u, w}
  Zero = zero
  Absent = absent
  FailAt = {"direct", "zero", "publish", "data"}
  Crashes = FALSE
  Exclusive = TRUE
INVARIANTS TypeOK AuditClean AllReadable NeverFull
PROPERTIES IsVirtualDisk WritesReturn
