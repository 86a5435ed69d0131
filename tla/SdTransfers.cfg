SPECIFICATION FairSpec
CONSTANT
  Conditions <- GoodOrNot
INVARIANTS
  SdTypeOK
  OkMeansMoved
  StreamsAreFree
  DmaEndsAfterCard
  CompletionIsMine
  AddressFits
PROPERTIES
  InitTells
  TransferReturns
CHECK_DEADLOCK FALSE
