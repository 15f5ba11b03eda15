SPECIFICATION Spec
CONSTANTS
  Orders <- MCOrders
  Names <- MCNames
  Matching <- MCMatching
  Sizes = {0, 1}
  Times = {1}
  Limits = {2}
  MaxID = 3
  MaxChanges = 2
INVARIANTS TypeOK OrderKept PagesTile
