SPECIFICATION DescriptorSpec
CONSTANTS
  Type = {1, 2, 3}
  FlagOf <- ThreeFlags
  Component = {1, 2, 3}
  SizeOf <- Sizes
  AlignOf <- Aligns
  MaxListed = 2
  MaxBytes = 96
INVARIANT WithSetComplete
