SPECIFICATION Spec
CONSTANTS
  Rank = {0, 1, 2, 3, 4}
  MaxNb = 2
  MaxAddr = 2
  x = x
  y = y
  seg = seg
  tmp = tmp
  Segment = {seg, tmp}
  Name = {x, y}
  Jobs <- PrJobs
INVARIANTS AnswersInOrder BarrierFlushes NoFailure MutexHeldOnce QuitLast ReadsSeeWrites
PROPERTIES WaitCompletes Termination ImplementsOneSided
