CONSTANTS
  Names <- MCNames
  Grams = {}
  GramsOf <- MCGramsOf
  Root <- MCRoot
  OutsidePath <- MCOutside
  DirNames <- MCDirNames
  Spots <- MCSpots
  Ignored <- MCIgnored
  Placed <- MCPlaced
  QueueCap = 3
  MaxChanges = 3
  MaxHasty = 2
  MaxRaces = 0
  Restarts = FALSE
SPECIFICATION Spec
INVARIANTS NeverDown
CHECK_DEADLOCK FALSE
