SPECIFICATION FairSpec
CONSTANTS
  Bodies <- SomeBodies
  CardErrors = TRUE
  Chunks = 3
  Rooms <- AnyRoom
  DriverByte = 4
  MaxPresses = 4
INVARIANTS
  ShotTypeOK
  
  FileHasItsVolume
  GoodShotSaves
PROPERTIES
  ShotEnds
