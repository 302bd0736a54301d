\* The process may die between any two host writes, or fail to update the header.
SPECIFICATION Spec
CONSTANTS
  BlocksCount = 3
  BlockSectors = 2
  Handles = {h1}
  Values = {u}
  Zero = zero
  Absent = absent
  FailAt = {"zero", "publish", "count", "data"}
  Crashes = TRUE
  Exclusive = TRUE
INVARIANTS SurvivesCrash
