SPECIFICATION Spec
CONSTANTS
  Names <- MCNames
  Grams <- MCGrams
  GramsOf <- MCGramsOf
  Root <- MCRoot
  Paths <- FlatPaths
  KindsOf <- MixedKind
  Sizes = {1}
  HandNames = {"x"}
  Times = {1}
  MaxID = 4
INVARIANTS TypeOK LookupSound GramsSound Searchable ParentsAgree TreeMatchesPaths
CHECK_DEADLOCK FALSE
