SPECIFICATION Spec
CONSTANTS
  Files = {1, 2, 3, 4}
  Names <- MCNames
  Found <- MCFound
  OffsetSpan = 65536
INVARIANTS
  ReadsAlike
  MovesFit
PROPERTIES
  KeepsOrder
  ImplementsDirectory
CHECK_DEADLOCK FALSE
