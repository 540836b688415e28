SPECIFICATION Spec
CONSTANTS
  Task <- Tasks
  NoTask = NoTask
  Jobs <- TaskJobs
INVARIANTS SlotsSound StateKept DetectedWhenDone
PROPERTIES ImplementsTaskPool Termination
