SPECIFICATION Spec
CONSTANTS
  TotalPackets = 2
  MaxTries = 3
  MaxRuns = 2
  MaxFaults = 1
  FaultKinds <- KilledClients
  NulIds <- PlainIds
  Situations <- AllSituations
INVARIANT VerifiedMeansIntact
