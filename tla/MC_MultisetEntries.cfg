CONSTANTS
  MaxIds = 3
  PRIME = 47
  SEED2 = 44
  hash64 <- SmallHash
  Objects = {o1, o2}
  MaxCount = 3
  MaxVector = 2
SPECIFICATION Spec
INVARIANTS TypeOK FingerprintFollows QueriesExact OperationsExact
