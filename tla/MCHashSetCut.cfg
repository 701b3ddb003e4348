SPECIFICATION SetSpec
CONSTANTS
  Key = {0, 32, 96}
  Mark = {m1}
  Default = m1
  HashOf <- SameHash
  InitialBuckets = 16
  MaxBuckets = 64
  MaxSize = 5
  LoadFactors <- Tenth
INVARIANT NoDcheckFails
CHECK_DEADLOCK FALSE
