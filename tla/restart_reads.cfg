SPECIFICATION Spec
CONSTANTS
  Names = {"ann", "bob"}
  Files = {"f", "g"}
  Ids = {1, 2}
  Foreign = 0
  PublicKeys = {"k1"}
  BadKeys = {}
  AesKeys = {"a1"}
  MaxFaults = 0
  FaultKinds = {}
INVARIANT RestartRestores
