SPECIFICATION FairSpec
CONSTANT
  Conditions <- FaultyCard
PROPERTY
  ReadReturns
CHECK_DEADLOCK FALSE
