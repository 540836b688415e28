SPECIFICATION Spec
CONSTANTS
  Rank <- Rank2
  NumMutexes = 1
  NumCells = 1
  MaxOutstanding = 8
  Created = 0
  Buffered = {}
  Programs <- RacePrograms
INVARIANTS NoAbort
