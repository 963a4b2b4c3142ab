SPECIFICATION Spec
CONSTANTS
  Images = {"a", "b"}
  MaxRuns = 2
INVARIANT CopyExitCodeTrue
CHECK_DEADLOCK FALSE
