SPECIFICATION Spec
CONSTANTS
  MaxFiles = 4
  Names <- MCNames
  Top = "disk"
INVARIANTS DumpedWhole NothingElseDumped
PROPERTIES Ends
CHECK_DEADLOCK FALSE
