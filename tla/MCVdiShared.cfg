\* One image attached under two device keys.
SPECIFICATION Spec
CONSTANTS
  BlocksCount = 3
  BlockSectors = 1
  Handles = {h1, h2}
  Values = {u}
  Zero = zero
  Absent = absent
  FailAt = {}
  Crashes = FALSE
  Exclusive = FALSE
INVARIANTS NoDuplicates
