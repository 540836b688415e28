SPECIFICATION Spec
CONSTANTS
  Rank <- Rank3
  NumMutexes = 1
  NumCells = 2
  MaxOutstanding = 2
  Created = 0
  Buffered <- BufferedCalls
  Programs <- CallPrograms
INVARIANTS MemorySafe AssertionsFit MutualExclusion LockQueueSettled FenceSound NoLostUpdate SendsBounded RmwAtomic
PROPERTIES DestroySafe ImplementsOneSided
