SPECIFICATION Spec
CONSTANT
  Conditions <- FaultyCard
PROPERTY
  InitFreesStreams
CHECK_DEADLOCK FALSE
