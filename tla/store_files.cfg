SPECIFICATION FairSpec
CONSTANTS
  Names = {"ann"}
  Files = {"f", "g"}
  Ids = {1, 2}
  Foreign = 0
  PublicKeys = {"k1"}
  BadKeys = {}
  AesKeys = {"a1"}
  MaxFaults = 2
  FaultKinds = {"crash", "setup"}
INVARIANT AcceptsNewFiles
PROPERTY ComesUpOnceSetUp
