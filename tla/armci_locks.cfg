SPECIFICATION Spec
CONSTANTS
  Proc <- Processes
  Nobody = nobody
  Areas <- SmallAreas
  Line = 4
  MaxSlots = 2
  Stores = {TRUE, FALSE}
  Owner = 0
  Near <- NearOwner
  Count = 2
  Builds = {TRUE, FALSE}
  Fill <- Zeroed
  Jobs <- LockJobs
CHECK_DEADLOCK FALSE
INVARIANTS Exclusion OneSlotEach MutexExclusive NoTicketProblem
PROPERTIES Termination
