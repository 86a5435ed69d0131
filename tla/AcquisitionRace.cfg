SPECIFICATION Spec
CONSTANTS
  Faults = TRUE
  Overruns = TRUE
  EdgeInFlight = TRUE
INVARIANTS
  LockOwnership
  AcquisitionInv
  AdcNeverBusy
  ArmedHasAcquisition
PROPERTIES
  RunningUntouched
