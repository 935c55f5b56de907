SPECIFICATION FairSpec
CONSTANTS
  TotalPackets = 1
  MaxTries = 2
  MaxRuns = 2
  MaxFaults = 3
  FaultKinds <- EveryFault
  NulIds <- PlainIds
  Situations <- AllSituations
INVARIANT ListAndRows
PROPERTIES
  LockoutIsFinal
  RetrySucceeds
