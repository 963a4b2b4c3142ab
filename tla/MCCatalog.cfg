SPECIFICATION Spec
CONSTANTS
  Root = 0
  Ids = {1, 2, 3}
  FileNames <- MCFileNames
  BaseNames <- MCBaseNames
  NewTypes <- MCNewTypes
  SourceDirs <- MCSourceDirs
  Folded <- MCFolded
  Printed <- MCPrinted
  NameMax = 17
INVARIANTS ListedByParent SearchComplete NearestOnPath NothingLost
CHECK_DEADLOCK FALSE
