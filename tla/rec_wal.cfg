SPECIFICATION Spec
CONSTANTS
  Names <- MCNames
  Grams <- MCGrams
  GramsOf <- MCGramsOf
  Root <- MCRoot
  Dirs <- TwoDirs
  Files <- TwoFiles
  HandNames = {"f"}
  Sizes = {1}
  Changes = {"remove", "rename", "name"}
  FillsUp = TRUE
  WALThreshold = 1
  MaxID = 4
  MaxChan = 2
  MaxLog = 7
  MaxStarts = 0
  MaxSaves = 0
INVARIANTS TypeOK Recoverable RoundTrip
CHECK_DEADLOCK FALSE
