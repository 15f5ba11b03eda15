SPECIFICATION Spec
CONSTANTS
  Names <- MCNames
  GramsOf <- MCGramsOf
  Keys <- TwoKeys
  Searchers = {s1}
  MaxID = 2
INVARIANTS TypeOK ReverseIndex FreshUnlessRaced
PROPERTIES InvalidationReaches
CHECK_DEADLOCK FALSE
