SPECIFICATION FairSpec
CONSTANTS
  Clients = {"a", "b"}
  Fields = 3
  MaxTries = 2
  MaxRequests = 1
INVARIANT NoEmbrace
PROPERTY EveryoneAnswered
