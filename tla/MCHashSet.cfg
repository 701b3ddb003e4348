SPECIFICATION SetSpec
CONSTANTS
  Key = {0, 2, 4, 6}
  Mark = {m1}
  Default = m1
  HashOf <- SameHash
  InitialBuckets = 2
  MaxBuckets = 8
  MaxSize = 5
  LoadFactors <- Twos
PROPERTY ChainsBreakOnlyThere
CHECK_DEADLOCK FALSE
