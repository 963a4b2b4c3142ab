SPECIFICATION Spec
CONSTANTS
  NumSectors = 7
  BitmapId = 1
  BitsPer = 3
  MaxBitmasks = 4
  FileIds <- MCFileIds
  Drifts = {0, 1}
INVARIANTS TypeOK
PROPERTIES CountersAgree StaysValid ImplementsAllocation
CHECK_DEADLOCK FALSE
