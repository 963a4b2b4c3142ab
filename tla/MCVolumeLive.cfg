SPECIFICATION FairSpec
CONSTANTS
  NumSectors = 8
  Reserved <- MCReserved
  InodeMax = 1
  ContMax = 3
  PristineSlot = 100
  Root = 2
  Names <- MCNames
  DirNames <- MCDirNames
  NoName = "none"
  EntrySize <- MCLongEntrySize
  LogSize = 4
  FileSizes = {0, 16}
CONSTRAINT
  Undamaged
INVARIANTS
  ContentInodesNeeded
  Invariant
PROPERTIES
  CallReturns
  ImplementsOwnership
