SPECIFICATION FairSpec
CONSTANTS
  Faults = FALSE
  Overruns = FALSE
  EdgeInFlight = TRUE
PROPERTIES
  ArmedIsServed
  MainComesBack
