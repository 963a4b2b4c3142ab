SPECIFICATION Spec
CONSTANTS
  NumSectors = 9
  Reserved <- MCReserved
  InodeMax = 1
  ContMax = 2
  PristineSlot = 100
  Root = 2
  Names <- MCNames
  DirNames <- MCDirNames
  NoName = "none"
  EntrySize <- MCEntrySize
  LogSize = 4
  FileSizes = {0, 8}
INVARIANTS
  TypeOK
  SectorsAccounted
  NoSharing
  CounterExact
  RollbackRestores
  EntriesLead
  EveryFileFound
  SizesRight
  NeverDangling
  WriteComplete
