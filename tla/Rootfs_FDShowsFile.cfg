SPECIFICATION MCSpec
CONSTANTS
  PageSize = 3
  Trees <- MCTrees
  Names <- MCNames
  Sizes <- MCSizes
  MaxLines = 4
  MaxOps = 5
CHECK_DEADLOCK FALSE
INVARIANT FDShowsFile
