SPECIFICATION FairSpec
CONSTANTS
  TotalPackets = 2
  MaxTries = 3
  MaxRuns = 1
  MaxFaults = 3
  FaultKinds <- EveryFault
  NulIds <- EitherIds
  Situations <- AllSituations
INVARIANTS
  TypeOK
  VerdictAgreement
  SuccessLasts
PROPERTIES
  RunsEnd
  IsUpload
