SPECIFICATION FairSpec
CONSTANTS
  Names <- ShortNames
  GramsOf <- ShortGramsOf
  Keys <- OneKey
  Searchers = {s1, s2}
  MaxID = 1
INVARIANT ReverseIndex
PROPERTIES SearchReturns
CHECK_DEADLOCK FALSE
