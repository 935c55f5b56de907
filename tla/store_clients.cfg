SPECIFICATION Spec
CONSTANTS
  Names = {"ann", "bob"}
  Files = {}
  Ids = {1, 2, 3}
  Foreign = 0
  PublicKeys = {"k1", "k2", "bad"}
  BadKeys = {"bad"}
  AesKeys = {"a1", "a2"}
  MaxFaults = 2
  FaultKinds = {"io", "crash", "setup"}
INVARIANT StoreTypeOK
INVARIANT NamesUnique
INVARIANT RegistrationsDurable
INVARIANT KeysDurable
