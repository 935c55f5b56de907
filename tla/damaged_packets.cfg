SPECIFICATION Spec
CONSTANTS
  TotalPackets = 2
  MaxTries = 3
  MaxRuns = 2
  MaxFaults = 4
  FaultKinds <- DamagedPackets
  NulIds <- PlainIds
  Situations <- AllSituations
INVARIANTS
  RestartReadsBack
  VerifiedMeansIntact
  KeyAgreement
  Lockstep
  OrderlyEnd
