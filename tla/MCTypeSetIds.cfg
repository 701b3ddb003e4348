SPECIFICATION DescriptorSpec
CONSTANTS
  Type = {1, 2, 3, 4, 5, 6, 7}
  FlagOf <- ThreeFlags
  Component = {1, 2, 3, 4, 5}
  SizeOf <- Sizes
  AlignOf <- Aligns
  MaxListed = 4
  MaxBytes = 96
INVARIANT IdsAligned
