SPECIFICATION Spec
CONSTANTS
  LastCluster = 6
  Split = 4
  Lines = 2
  Cards <- SomeCards
  Bodies <- ProgramBodies
  TornReads = TRUE
  MaxPics = 2
  MaxCuts = 1
INVARIANT
  WindowTells
CHECK_DEADLOCK FALSE
