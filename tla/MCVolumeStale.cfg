SPECIFICATION Spec
CONSTANTS
  NumSectors = 9
  Reserved <- MCReserved
  InodeMax = 1
  ContMax = 4
  PristineSlot = 100
  Root = 2
  Names <- MCNames
  DirNames <- MCDirNames
  NoName = "none"
  EntrySize <- MCEntrySize
  LogSize = 4
  FileSizes = {0, 8}
INVARIANT
  BitmapValid
