SPECIFICATION Spec
CONSTANT Requests <- MCRequests
INVARIANTS
  StartsVolume
  RootInside
  FreshBitmapValid
CHECK_DEADLOCK FALSE
