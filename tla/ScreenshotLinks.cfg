SPECIFICATION Spec
CONSTANTS
  Bodies <- ProgramBodies
  CardErrors = FALSE
  Chunks = 3
  Rooms <- AllRoom
  DriverByte = 4
  MaxPresses = 4
PROPERTY
  LinkCounts
