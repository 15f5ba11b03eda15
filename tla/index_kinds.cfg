SPECIFICATION Spec
CONSTANTS
  Names <- MCNames
  Grams <- MCGrams
  GramsOf <- MCGramsOf
  Root <- MCRoot
  Paths <- DeepPaths
  KindsOf <- FixedKind
  Sizes = {1, 2}
  HandNames = {"x"}
  Times = {1}
  MaxID = 4
INVARIANTS LookupSound SizesAddUp
PROPERTIES RemovalStaysBelow
CHECK_DEADLOCK FALSE
