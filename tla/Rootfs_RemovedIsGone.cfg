SPECIFICATION MCSpec
CONSTANTS
  PageSize = 3
  Trees <- MCTrees
  Names <- MCNames
  Sizes <- MCSizes
  MaxLines = 4
  MaxOps = 4
CHECK_DEADLOCK FALSE
PROPERTY RemovedIsGone
