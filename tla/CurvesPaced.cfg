SPECIFICATION FairCurvesSpec
CONSTANTS
  Faults = FALSE
  Overruns = FALSE
  EdgeInFlight = FALSE
  MaxPresses = 2
INVARIANTS
  CurvesTypeOK
  CopiesAreWhole
  ChannelsTogether
PROPERTIES
  Implements
  PressIsShown
