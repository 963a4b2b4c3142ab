SPECIFICATION Spec
CONSTANTS
  Images = {"a", "b"}
  MaxRuns = 2
INVARIANTS
  ExitCodeTrue
  TornIsReported
PROPERTY ImagesKept
CHECK_DEADLOCK FALSE
