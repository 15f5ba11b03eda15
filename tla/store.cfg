SPECIFICATION Spec
CONSTANTS
  Names <- MCNames
  Grams <- MCGrams
  GramsOf <- MCGramsOf
  Root <- MCRoot
  Paths <- MCPaths
  KindsOf <- MCKind
  Sizes = {1}
  HandNames = {"x"}
  Times = {1}
  MaxID = 3
  MaxData = 15
INVARIANTS TypeOK KeysResolve WatchPathsTrue
PROPERTIES ImplementsIndex
CHECK_DEADLOCK FALSE
