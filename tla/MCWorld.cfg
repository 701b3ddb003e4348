SPECIFICATION OnlyWorldSpec
CONSTANTS
  Key = {1, 14}
  Mark = {m1, m2}
  Default = m1
  HashOf <- SameHash
  InitialBuckets = 2
  MaxBuckets = 8
  MaxSize = 5
  LoadFactors <- One
PROPERTIES ResourcesAnswered
CHECK_DEADLOCK FALSE
