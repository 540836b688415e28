SPECIFICATION Spec
CONSTANTS
  Rank <- Rank2
  NumMutexes = 2
  NumCells = 1
  MaxOutstanding = 8
  Created = 0
  Buffered = {}
  Programs <- GaNestedPrograms
PROPERTIES GaNestedReturns
CHECK_DEADLOCK FALSE
