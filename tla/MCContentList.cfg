SPECIFICATION Spec
CONSTANTS
  NumSectors = 10
  Reserved = {0}
  Files = {1, 2}
  InodeMax = 1
  ContMax = 3
  PristineSlot = 21845
CONSTRAINT SecondShort
INVARIANTS ReadsAsListed ChainSound FragmentsInOrder SealedAtRest
PROPERTIES ImplementsSectorList
