SPECIFICATION SetSpec
CONSTANTS
  Key = {2, 18, 34}
  Mark = {m1}
  Default = m1
  HashOf <- SameHash
  InitialBuckets = 16
  MaxBuckets = 64
  MaxSize = 5
  LoadFactors <- One
INVARIANT InsertedIsFound
CHECK_DEADLOCK FALSE
