SPECIFICATION FairSpec
CONSTANTS
  Names <- MCNames
  Grams = {}
  GramsOf <- MCGramsOf
  Tree <- SmallTree
  Dirs <- MCDirs
  Changing <- MCChanging
  Returning <- MCLossy
  Scarce <- MCLossy
  Ignored = {}
  Roots <- MCRoots
  Workers = {w1}
  Indexers = {i1, i2}
  QueueCap = 1
  ChanCap = 1
INVARIANTS TypeOK ClosedWhenDone NothingMissed
PROPERTIES ScanReturns
CHECK_DEADLOCK FALSE
