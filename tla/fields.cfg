SPECIFICATION Spec
CONSTANTS
  ID_SIZE = 2
  NAME_SIZE = 4
  MAX_SIZE = 3
  Ids <- SomeIds
  ClientNames <- SomeNames
  Paths <- SomePaths
  Contents <- SomeContents
INVARIANT RequestUnderstood
INVARIANT TurnedAwayRightly
CHECK_DEADLOCK FALSE
