SPECIFICATION Spec
CONSTANTS
  Task <- Tasks
  NoTask = NoTask
  Jobs <- ThiefJobs
INVARIANTS Vtail2Counts
