SPECIFICATION Spec
CONSTANTS
  TotalPackets = 1
  MaxTries = 3
  MaxRuns = 2
  MaxFaults = 4
  FaultKinds <- FailingStorage
  NulIds <- EitherIds
  Situations <- AllSituations
INVARIANTS
  SuccessIsIntact
  KeyAgreement
  Lockstep
