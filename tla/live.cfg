SPECIFICATION Spec
CONSTANTS
  Rank <- Rank3
  NumMutexes = 2
  NumCells = 1
  MaxOutstanding = 1
  Created = 0
  Buffered <- LivePrograms
  Programs <- ReturningPrograms
INVARIANTS LockInv NothingLate BarriersMatched BarrierDrains
PROPERTIES Termination
