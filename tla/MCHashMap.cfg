SPECIFICATION WorldSpec
CONSTANTS
  Key = {1, 14, 15, 30}
  Mark = {m1, m2}
  Default = m1
  HashOf <- SameHash
  InitialBuckets = 2
  MaxBuckets = 8
  MaxSize = 5
  LoadFactors <- Halves
INVARIANTS SizeExact IterationComplete
PROPERTIES ImplementsKeyedMap
CHECK_DEADLOCK FALSE
