SPECIFICATION FairSpec
CONSTANTS
  LastCluster = 6
  Split = 4
  Lines = 2
  Cards <- SomeCards
  Bodies <- SomeBodies
  TornReads = FALSE
  MaxPics = 2
  MaxCuts = 1
INVARIANTS
  VolumeTypeOK
  FilesReadable
  NothingLeaks
  FreeTells
  GoodCallsSave
  WindowTells
PROPERTIES
  OtherIntact
  FullIsFull
  Implements
  SaveEnds
CHECK_DEADLOCK FALSE
