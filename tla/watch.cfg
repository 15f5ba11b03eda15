CONSTANTS
  Names <- MCNames
  Grams = {}
  GramsOf <- MCGramsOf
  Root <- MCRoot
  OutsidePath <- MCOutside
  DirNames <- MCDirNames
  Spots <- MCSpots
  Ignored <- MCIgnored
  Placed <- MCPlaced
  QueueCap = 3
  MaxChanges = 3
  MaxHasty = 2
  MaxRaces = 0
  Restarts = TRUE
SPECIFICATION Spec
INVARIANTS TypeOK Agrees WatchesAgree Linked AddedFound PanicIsLeftover
PROPERTIES CalmRaces
CHECK_DEADLOCK FALSE
